\* One worker with two slots, a web loop and the coordinator, claims serial (SQLite); every
\* kind of fault, two of them, and three administrator operations.
SPECIFICATION Spec
CONSTANTS
    w1 = w1
    w2 = w2
    w1a = w1a
    w1b = w1b
    w2a = w2a
    w2b = w2b
    web = web
    emb = emb
    none = none
    NumSubs = 1
    Points = {1}
    Workers = {w1}
    Slots = {w1a, w1b}
    Owner <- OneWorker
    Concurrency = 1
    WebJudges = {web}
    EmbeddedJudges = {}
    NoWorker = none
    AtomicPop = TRUE
    FaultKinds = {"worker_crash", "coordinator_crash", "web_crash", "lost_response", "lost_result", "result_error", "loop_error", "reaper_error", "restart_error"}
    MaxFaults = 2
    MaxAdmin = 3
INVARIANTS TypeOK ClaimedOnce OneBatch WaitingIsClean
PROPERTY CancelHolds
