\* Claims in two statements (MySQL): a web loop, the loop of the coordinator, which may
\* crash, and a worker.
SPECIFICATION FairSpec
CONSTANTS
    w1 = w1
    w2 = w2
    w1a = w1a
    w1b = w1b
    w2a = w2a
    w2b = w2b
    web = web
    emb = emb
    none = none
    NumSubs = 1
    Points = {1}
    Workers = {w1}
    Slots = {w1a, w1b}
    Owner <- OneWorker
    Concurrency = 1
    WebJudges = {web}
    EmbeddedJudges = {emb}
    NoWorker = none
    AtomicPop = FALSE
    FaultKinds = {"coordinator_crash"}
    MaxFaults = 1
    MaxAdmin = 1
PROPERTY EventuallyDecided
INVARIANT ScoreBacked
