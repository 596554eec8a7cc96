------------------------------ MODULE JudgeQueue ------------------------------
(***************************************************************************)
(* How submissions are judged: the judge loops inside web processes, the   *)
(* coordinator with its table of assignments and its reaper, the workers   *)
(* that fetch tasks from it over HTTP, the administrators' operations on   *)
(* rows, and the crashes and lost messages the code is written against     *)
(* (judge/coordinator.go, judge/worker.go, StartJudge and processJob of    *)
(* judge/judge.go), all working on the table of SubmissionStore.           *)
(*                                                                         *)
(* A thread is one line of work that can hold a submission: a judge loop,  *)
(* or one slot of a worker together with the coordinator's handlers that   *)
(* serve it.  A worker of concurrency C has C + 1 slots, because StartWorker*)
(* fetches a task before it waits for room in its pool.                    *)
(*                                                                         *)
(* Times are abstract.  A worker is in `fresh` while its last heartbeat is *)
(* younger than 60 s, a submission is in `overdue` when its assignment is  *)
(* older than 5 min; both may change at any moment.  workerInfo.Assigned,  *)
(* a counter only the monitoring page reads, is left out.                  *)
(***************************************************************************)
EXTENDS SubmissionStore

CONSTANTS
    Workers,        \* worker processes
    Slots,          \* their slots
    Owner,          \* the worker each slot belongs to
    Concurrency,    \* size of a worker's pool
    WebJudges,      \* judge loops inside web processes
    EmbeddedJudges, \* judge loops inside the coordinator process
    NoWorker,
    AtomicPop,      \* TRUE on SQLite, where the claiming transactions are serial;
                    \* FALSE on MySQL, where the row is read without a lock
    FaultKinds,     \* which faults may happen
    MaxFaults,      \* and how many of them
    MaxAdmin        \* bound on the administrators' operations

Loops == WebJudges \union EmbeddedJudges
Threads == Loops \union Slots

ASSUME QueueAssumption ==
    /\ WebJudges \intersect EmbeddedJudges = {}
    /\ Loops \intersect Slots = {}
    /\ Owner \in [Slots -> Workers]
    /\ Concurrency \in Nat \ {0}
    /\ NoWorker \notin Workers
    /\ AtomicPop \in BOOLEAN
    /\ MaxFaults \in Nat
    /\ MaxAdmin \in Nat

VARIABLES
    stage,       \* how far each thread is
    task,        \* the submission it works on, 0 for none
    alive,       \* the worker and web processes that are running
    coordUp,     \* the coordinator process is running
    assignments, \* coordinator.assignments
    overdue,     \* assignments older than 5 minutes (coordinator.assignedAt)
    known,       \* keys of coordinator.workers
    fresh,       \* workers seen during the last 60 s (workerInfo.LastSeen)
    batch,       \* ids a RejudgeProblem call has selected and not yet written
    faults, adminOps, \* how many faults and operations have happened
    superseded   \* history: rows put back in the queue under an unfinished claim

threadVars == <<stage, task>>
coordVars == <<coordUp, assignments, overdue, known, fresh>>
adminVars == <<batch, adminOps>>
vars == <<rows, threadVars, alive, coordVars, adminVars, faults, superseded>>

(***************************************************************************)
(* selected: the row is read, not yet marked (MySQL only)                  *)
(* popped: handleTask has claimed it and not yet recorded the assignment   *)
(* assigned: the answer to fetchTask is on its way                         *)
(* fetched: the worker has it and waits for room in its pool               *)
(* judging: runJudge runs, or its result is on its way                     *)
(* checked: the row was read and was not cancelled                         *)
(* releasing: handleResult is about to call release                        *)
(***************************************************************************)
Stages == {"idle", "selected", "popped", "assigned", "fetched",
           "judging", "checked", "releasing"}

Fetching == {"selected", "popped", "assigned", "fetched"}
InPool == {"judging", "checked", "releasing"}
InHandler == {"selected", "popped", "checked", "releasing"}

\* The stages of a thread that has claimed its task and has not yet written a result.
Claiming == {"popped", "assigned", "fetched", "judging", "checked"}
Holders(s) == {t \in Threads : task[t] = s /\ stage[t] \in Claiming}
Claimed == {s \in Subs : Holders(s) # {}}

TypeOK ==
    /\ StoreTypeOK
    /\ stage \in [Threads -> Stages]
    /\ task \in [Threads -> Subs \union {0}]
    /\ alive \subseteq Workers \union WebJudges
    /\ coordUp \in BOOLEAN
    /\ assignments \in [Subs -> Workers \union {NoWorker}]
    /\ overdue \subseteq Subs
    /\ known \subseteq Workers
    /\ fresh \subseteq known
    /\ batch \subseteq Subs
    /\ faults \in 0..MaxFaults
    /\ adminOps \in 0..MaxAdmin
    /\ superseded \subseteq Subs

Init ==
    /\ StoreInit
    /\ stage = [t \in Threads |-> "idle"]
    /\ task = [t \in Threads |-> 0]
    /\ alive = Workers \union WebJudges
    /\ coordUp = TRUE
    /\ assignments = [s \in Subs |-> NoWorker]
    /\ overdue = {}
    /\ known = {}
    /\ fresh = {}
    /\ batch = {}
    /\ faults = 0
    /\ adminOps = 0
    /\ superseded = {}

Fault(kind) ==
    /\ kind \in FaultKinds
    /\ faults < MaxFaults
    /\ faults' = faults + 1

GoTo(t, st, s) ==
    /\ stage' = [stage EXCEPT ![t] = st]
    /\ task' = [task EXCEPT ![t] = s]

\* The threads of S lose what they were doing.
Reset(S) ==
    /\ stage' = [t \in Threads |-> IF t \in S THEN "idle" ELSE stage[t]]
    /\ task' = [t \in Threads |-> IF t \in S THEN 0 ELSE task[t]]

Forget(s) ==
    /\ assignments' = [assignments EXCEPT ![s] = NoWorker]
    /\ overdue' = overdue \ {s}

-----------------------------------------------------------------------------
(* Claiming a submission                                                   *)

Submit(s) ==
    /\ CreateSubmission(s)
    /\ UNCHANGED <<threadVars, alive, coordVars, adminVars, faults, superseded>>

\* A judge loop polls while its process runs.  A worker's main loop fetches one task
\* at a time and blocks on the pool before it fetches the next.
MayClaim(t) ==
    /\ stage[t] = "idle"
    /\ t \in WebJudges => t \in alive
    /\ t \in EmbeddedJudges => coordUp
    /\ t \in Slots =>
        /\ coordUp
        /\ Owner[t] \in alive
        /\ \A u \in Slots : Owner[u] = Owner[t] => stage[u] \notin Fetching

AfterPop(t) == IF t \in Slots THEN "popped" ELSE "judging"

\* Mutated form: the claim is not written to the row.
PopUnmarked(t) ==
    /\ AtomicPop
    /\ MayClaim(t)
    /\ \E s \in Subs : IsOldestQueued(s) /\ GoTo(t, AfterPop(t), s)
    /\ UNCHANGED <<rows, alive, coordVars, adminVars, faults, superseded>>

PopQueuedSubmission(t) ==
    /\ AtomicPop
    /\ MayClaim(t)
    /\ \E s \in Subs :
        /\ IsOldestQueued(s)
        /\ SetRunning(s)
        /\ GoTo(t, AfterPop(t), s)
    /\ UNCHANGED <<alive, coordVars, adminVars, faults, superseded>>

SelectQueued(t) ==
    /\ ~AtomicPop
    /\ MayClaim(t)
    /\ \E s \in Subs : IsOldestQueued(s) /\ GoTo(t, "selected", s)
    /\ UNCHANGED <<rows, alive, coordVars, adminVars, faults, superseded>>

MarkRunning(t) ==
    /\ stage[t] = "selected"
    /\ SetRunning(task[t])
    /\ GoTo(t, AfterPop(t), task[t])
    /\ UNCHANGED <<alive, coordVars, adminVars, faults, superseded>>

\* Mutated form: the assignment is not recorded.
HandleTaskUnrecorded(t) ==
    /\ stage[t] = "popped"
    /\ GoTo(t, "assigned", task[t])
    /\ UNCHANGED <<rows, alive, coordVars, adminVars, faults, superseded>>

\* handleTask, after the claim: the tables are updated under the coordinator's mutex.
HandleTask(t) ==
    /\ stage[t] = "popped"
    /\ GoTo(t, "assigned", task[t])
    /\ assignments' = [assignments EXCEPT ![task[t]] = Owner[t]]
    /\ overdue' = overdue \ {task[t]}
    /\ UNCHANGED <<rows, alive, coordUp, known, fresh, adminVars, faults, superseded>>

FetchTask(t) ==
    /\ stage[t] = "assigned"
    /\ Owner[t] \in alive
    /\ GoTo(t, "fetched", task[t])
    /\ UNCHANGED <<rows, alive, coordVars, adminVars, faults, superseded>>

\* The answer never reaches the worker: fetchTask returns false and nothing is told to
\* the coordinator.
FetchTaskFails(t) ==
    /\ stage[t] = "assigned"
    /\ \/ Owner[t] \notin alive /\ UNCHANGED faults
       \/ Fault("lost_response")
    /\ Reset({t})
    /\ UNCHANGED <<rows, alive, coordVars, adminVars, superseded>>

StartJudging(t) ==
    /\ stage[t] = "fetched"
    /\ Cardinality({u \in Slots : Owner[u] = Owner[t] /\ stage[u] \in InPool}) < Concurrency
    /\ GoTo(t, "judging", task[t])
    /\ UNCHANGED <<rows, alive, coordVars, adminVars, faults, superseded>>

-----------------------------------------------------------------------------
(* Storing a result                                                        *)

\* The status read that drops the result of a cancelled submission.  handleResult
\* reads it before it calls UpdateSubmissionResult, which reads it again; whichever
\* read sees "cancelled" the handler goes on to release, so the two reads are one step.
CheckCancelled(t) ==
    /\ stage[t] = "judging"
    /\ t \in Slots => coordUp
    /\ IF status[task[t]] = "cancelled"
       THEN IF t \in Slots THEN GoTo(t, "releasing", task[t]) ELSE Reset({t})
       ELSE GoTo(t, "checked", task[t])
    /\ UNCHANGED <<rows, alive, coordVars, adminVars, faults, superseded>>

\* Mutated form: a stored result may be stored again.
StoreTwice(t) ==
    /\ stage[t] = "checked"
    /\ \E p \in Points : StoreResult(task[t], p)
    /\ UNCHANGED <<threadVars, alive, coordVars, adminVars, faults, superseded>>

UpdateSubmissionResult(t) ==
    /\ stage[t] = "checked"
    /\ \E p \in Points : StoreResult(task[t], p)
    /\ IF t \in Slots THEN GoTo(t, "releasing", task[t]) ELSE Reset({t})
    /\ UNCHANGED <<alive, coordVars, adminVars, faults, superseded>>

\* The transaction fails.  processJob ignores the error; handleResult answers 500,
\* which postResult does not look at, and keeps the assignment.
UpdateFails(t) ==
    /\ stage[t] = "checked"
    /\ Fault(IF t \in Slots THEN "result_error" ELSE "loop_error")
    /\ Reset({t})
    /\ UNCHANGED <<rows, alive, coordVars, adminVars, superseded>>

\* postResult fails; the worker logs it and does not try again.
PostResultFails(t) ==
    /\ t \in Slots
    /\ stage[t] = "judging"
    /\ \/ ~coordUp /\ UNCHANGED faults
       \/ Fault("lost_result")
    /\ Reset({t})
    /\ UNCHANGED <<rows, alive, coordVars, adminVars, superseded>>

\* release looks the assignment up by submission, whoever it now belongs to.
Release(t) ==
    /\ stage[t] = "releasing"
    /\ Forget(task[t])
    /\ Reset({t})
    /\ UNCHANGED <<rows, alive, coordUp, known, fresh, adminVars, faults, superseded>>

-----------------------------------------------------------------------------
(* Heartbeats and the reaper                                               *)

\* Mutated form: the time is noted and the worker is not registered.
HeartbeatUnregistered(w) ==
    /\ coordUp
    /\ w \in alive
    /\ fresh' = fresh \union {w}
    /\ UNCHANGED <<rows, threadVars, alive, coordUp, assignments, overdue, known,
                   adminVars, faults, superseded>>

HandleHeartbeat(w) ==
    /\ coordUp
    /\ w \in alive
    /\ known' = known \union {w}
    /\ fresh' = fresh \union {w}
    /\ UNCHANGED <<rows, threadVars, alive, coordUp, assignments, overdue,
                   adminVars, faults, superseded>>

HeartbeatExpires(w) ==
    /\ w \in fresh
    /\ fresh' = fresh \ {w}
    /\ UNCHANGED <<rows, threadVars, alive, coordUp, assignments, overdue, known,
                   adminVars, faults, superseded>>

BecomesOverdue(s) ==
    /\ assignments[s] # NoWorker
    /\ overdue' = overdue \union {s}
    /\ UNCHANGED <<rows, threadVars, alive, coordUp, assignments, known, fresh,
                   adminVars, faults, superseded>>

Stale(s) ==
    /\ assignments[s] # NoWorker
    /\ \/ assignments[s] \notin known
       \/ assignments[s] \notin fresh
       \/ s \in overdue

\* The rows of S that are running go back to the queue.
Requeue(S) ==
    /\ RequeueRunningRows(S)
    /\ superseded' = superseded \union {s \in S \intersect Claimed : status[s] = "running"}

\* Mutated form: the reaper's UPDATE lacks "AND status = 'running'".
ReapAnyStatus(s) ==
    /\ coordUp
    /\ Stale(s)
    /\ status' = [status EXCEPT ![s] = "queued"]
    /\ superseded' = superseded \union ({s} \intersect Claimed)
    /\ Forget(s)
    /\ UNCHANGED <<score, disqualified, results, threadVars, alive, coordUp, known,
                   fresh, adminVars, faults>>

\* One iteration of the reaper's loop, which runs under the mutex.
Reap(s) ==
    /\ coordUp
    /\ Stale(s)
    /\ Requeue({s})
    /\ Forget(s)
    /\ UNCHANGED <<threadVars, alive, coordUp, known, fresh, adminVars, faults>>

\* The reaper's UPDATE fails; the assignment is deleted all the same.
ReapFails(s) ==
    /\ coordUp
    /\ Stale(s)
    /\ Fault("reaper_error")
    /\ Forget(s)
    /\ UNCHANGED <<rows, threadVars, alive, coordUp, known, fresh, adminVars, superseded>>

-----------------------------------------------------------------------------
(* Crashes and restarts                                                    *)

WorkerCrash(w) ==
    /\ w \in alive
    /\ Fault("worker_crash")
    /\ alive' = alive \ {w}
    /\ Reset({t \in Slots : Owner[t] = w /\ stage[t] \in {"fetched", "judging"}})
    /\ UNCHANGED <<rows, coordVars, adminVars, superseded>>

\* By the time the worker is back the handlers of its old requests have ended.
WorkerRestart(w) ==
    /\ w \notin alive
    /\ \A t \in Slots : Owner[t] = w => stage[t] \notin Fetching
    /\ alive' = alive \union {w}
    /\ UNCHANGED <<rows, threadVars, coordVars, adminVars, faults, superseded>>

WebCrash(l) ==
    /\ l \in alive
    /\ Fault("web_crash")
    /\ alive' = alive \ {l}
    /\ Reset({l})
    /\ UNCHANGED <<rows, coordVars, adminVars, superseded>>

\* StartServer does not look at the rows its previous process left running.
WebRestart(l) ==
    /\ l \notin alive
    /\ alive' = alive \union {l}
    /\ UNCHANGED <<rows, threadVars, coordVars, adminVars, faults, superseded>>

CoordinatorCrash ==
    /\ coordUp
    /\ Fault("coordinator_crash")
    /\ coordUp' = FALSE
    /\ assignments' = [s \in Subs |-> NoWorker]
    /\ overdue' = {}
    /\ known' = {}
    /\ fresh' = {}
    /\ Reset(EmbeddedJudges \union {t \in Slots : stage[t] \in InHandler})
    /\ UNCHANGED <<rows, alive, adminVars, superseded>>

\* Mutated form: the coordinator starts without requeueRunning.
RestartWithoutRequeue ==
    /\ ~coordUp
    /\ coordUp' = TRUE
    /\ UNCHANGED <<rows, threadVars, alive, assignments, overdue, known, fresh,
                   adminVars, faults, superseded>>

\* StartCoordinator: requeueRunning comes before anything else starts.
CoordinatorRestart ==
    /\ ~coordUp
    /\ coordUp' = TRUE
    /\ Requeue(Subs)
    /\ UNCHANGED <<threadVars, alive, assignments, overdue, known, fresh, adminVars, faults>>

\* requeueRunning drops the error of its UPDATE.
CoordinatorRestartFails ==
    /\ ~coordUp
    /\ Fault("restart_error")
    /\ coordUp' = TRUE
    /\ UNCHANGED <<rows, threadVars, alive, assignments, overdue, known, fresh,
                   adminVars, superseded>>

-----------------------------------------------------------------------------
(* Administrators                                                          *)

AdminStep ==
    /\ adminOps < MaxAdmin
    /\ adminOps' = adminOps + 1
    /\ UNCHANGED <<threadVars, alive, coordVars, faults>>

\* Mutated form: only the status is reset.
RejudgeKeepsResults(S) ==
    /\ status' = [s \in Subs |-> IF s \in S THEN "queued" ELSE status[s]]
    /\ superseded' = superseded \union (S \intersect Claimed)
    /\ UNCHANGED <<score, disqualified, results>>

\* The rows of S are queued again, whoever may be judging them.
Rejudge(S) ==
    /\ RejudgeRows(S)
    /\ superseded' = superseded \union (S \intersect Claimed)

RejudgeSubmission(s) ==
    /\ status[s] # "none"
    /\ AdminStep
    /\ Rejudge({s})
    /\ UNCHANGED batch

AdminCancelEvaluation(s) ==
    /\ AdminStep
    /\ CancelEvaluation(s)
    /\ UNCHANGED <<batch, superseded>>

AdminCancelScore(s) ==
    /\ status[s] # "none"
    /\ AdminStep
    /\ CancelScore(s)
    /\ UNCHANGED <<batch, superseded>>

AdminRestoreScore(s) ==
    /\ status[s] # "none"
    /\ AdminStep
    /\ RestoreScore(s)
    /\ UNCHANGED <<batch, superseded>>

\* RejudgeProblem reads the ids first and queues them again in a later transaction.
RejudgeProblemSelect ==
    /\ batch = {}
    /\ Rejudgeable # {}
    /\ AdminStep
    /\ batch' = Rejudgeable
    /\ UNCHANGED <<rows, superseded>>

RejudgeProblemCommit ==
    /\ batch # {}
    /\ Rejudge(batch)
    /\ batch' = {}
    /\ UNCHANGED <<threadVars, alive, coordVars, adminOps, faults>>

-----------------------------------------------------------------------------
Claim(t) == PopQueuedSubmission(t) \/ SelectQueued(t) \/ MarkRunning(t)

Handle(t) == HandleTask(t) \/ FetchTask(t) \/ StartJudging(t)

Report(t) == CheckCancelled(t) \/ UpdateSubmissionResult(t) \/ Release(t)

Lose(t) == FetchTaskFails(t) \/ UpdateFails(t) \/ PostResultFails(t)

Coordinate ==
    \/ \E w \in Workers : HandleHeartbeat(w) \/ HeartbeatExpires(w)
    \/ \E s \in Subs : BecomesOverdue(s) \/ Reap(s) \/ ReapFails(s)

CrashOrRestart ==
    \/ \E w \in Workers : WorkerCrash(w) \/ WorkerRestart(w)
    \/ \E l \in WebJudges : WebCrash(l) \/ WebRestart(l)
    \/ CoordinatorCrash
    \/ CoordinatorRestart
    \/ CoordinatorRestartFails

Administrate ==
    \/ \E s \in Subs : \/ RejudgeSubmission(s)
                       \/ AdminCancelEvaluation(s)
                       \/ AdminCancelScore(s)
                       \/ AdminRestoreScore(s)
    \/ RejudgeProblemSelect
    \/ RejudgeProblemCommit

Next ==
    \/ \E s \in Subs : Submit(s)
    \/ \E t \in Threads : Claim(t) \/ Report(t) \/ Lose(t)
    \/ \E t \in Slots : Handle(t)
    \/ Coordinate
    \/ CrashOrRestart
    \/ Administrate

Spec == Init /\ [][Next]_vars

(***************************************************************************)
(* Fairness.  Loops and workers poll every second, a judge run returns (it *)
(* does unless docker run or docker rm hangs: EventuallyReturns in         *)
(* JudgeRunProps), handlers run to their end, the reaper ticks every 30 s  *)
(* and an assignment grows old, and a supervisor starts a stopped          *)
(* coordinator again.  Nothing is assumed of users, administrators,        *)
(* heartbeats, faults or the restart of workers.                           *)
(***************************************************************************)
Fairness ==
    /\ \A t \in Threads :
        /\ WF_vars(PopQueuedSubmission(t))
        /\ WF_vars(SelectQueued(t))
        /\ WF_vars(MarkRunning(t))
        /\ WF_vars(CheckCancelled(t))
        /\ WF_vars(UpdateSubmissionResult(t))
        /\ WF_vars(Release(t))
    /\ \A t \in Slots :
        /\ WF_vars(HandleTask(t))
        /\ WF_vars(FetchTask(t))
        /\ WF_vars(StartJudging(t))
    /\ \A s \in Subs : WF_vars(BecomesOverdue(s)) /\ WF_vars(Reap(s))
    /\ WF_vars(CoordinatorRestart)

FairSpec == Spec /\ Fairness
=============================================================================
