\* Two submissions, one worker and the coordinator's own loop; no administrators and only
\* the faults the coordinator is built to survive.
SPECIFICATION FairSpec
CONSTANTS
    w1 = w1
    w2 = w2
    w1a = w1a
    w1b = w1b
    w2a = w2a
    w2b = w2b
    web = web
    emb = emb
    none = none
    NumSubs = 2
    Points = {0, 1}
    Workers = {w1}
    Slots = {w1a, w1b}
    Owner <- OneWorker
    Concurrency = 1
    WebJudges = {}
    EmbeddedJudges = {emb}
    NoWorker = none
    AtomicPop = TRUE
    FaultKinds = {"worker_crash", "coordinator_crash", "lost_response", "lost_result", "result_error"}
    MaxFaults = 2
    MaxAdmin = 0
PROPERTY ImplementsView
INVARIANT RunningIsTracked
