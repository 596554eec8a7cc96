\* One administrator operation, while the submission is judged.
SPECIFICATION Spec
CONSTANTS
    w1 = w1
    w2 = w2
    w1a = w1a
    w1b = w1b
    w2a = w2a
    w2b = w2b
    web = web
    emb = emb
    none = none
    NumSubs = 1
    Points = {1}
    Workers = {w1}
    Slots = {w1a, w1b}
    Owner <- OneWorker
    Concurrency = 1
    WebJudges = {}
    EmbeddedJudges = {emb}
    NoWorker = none
    AtomicPop = TRUE
    FaultKinds = {}
    MaxFaults = 0
    MaxAdmin = 1
INVARIANT DisqualifiedNotCounted
