--------------------------- MODULE JudgeQueueProofs ---------------------------
(***************************************************************************)
(* Theorems on the judge queue, for every number of submissions, workers,  *)
(* slots and loops, and for every bound on faults and operations.          *)
(***************************************************************************)
EXTENDS JudgeQueueProps, TLAPS

LEMMA GoToType ==
    ASSUME TypeOK, NEW t \in Threads, NEW st \in Stages, NEW s \in Subs \union {0},
           GoTo(t, st, s)
    PROVE  /\ stage' \in [Threads -> Stages]
           /\ task' \in [Threads -> Subs \union {0}]
  BY DEF TypeOK, GoTo

LEMMA ResetType ==
    ASSUME TypeOK, NEW S, Reset(S)
    PROVE  /\ stage' \in [Threads -> Stages]
           /\ task' \in [Threads -> Subs \union {0}]
  BY DEF TypeOK, Reset, Stages

LEMMA FaultType ==
    ASSUME TypeOK, NEW kind, Fault(kind)
    PROVE  faults' \in 0..MaxFaults
  BY QueueAssumption DEF TypeOK, Fault

LEMMA AdminType ==
    ASSUME TypeOK, AdminStep
    PROVE  adminOps' \in 0..MaxAdmin
  BY QueueAssumption DEF TypeOK, AdminStep

\* The statements on rows keep the table well typed.
LEMMA StoreType ==
    ASSUME StoreTypeOK
    PROVE  /\ \A s \in Subs : CreateSubmission(s) => StoreTypeOK'
           /\ \A s : SetRunning(s) => StoreTypeOK'
           /\ \A s : \A p \in Points : StoreResult(s, p) => StoreTypeOK'
           /\ \A S : RequeueRunningRows(S) => StoreTypeOK'
           /\ \A S : RejudgeRows(S) => StoreTypeOK'
           /\ \A s : CancelEvaluation(s) => StoreTypeOK'
           /\ \A s : CancelScore(s) => StoreTypeOK'
           /\ \A s : RestoreScore(s) => StoreTypeOK'
           /\ UNCHANGED rows => StoreTypeOK'
<1>1. ASSUME NEW s \in Subs, CreateSubmission(s) PROVE StoreTypeOK'
  BY <1>1 DEF StoreTypeOK, CreateSubmission, Status
<1>2. ASSUME NEW s, SetRunning(s) PROVE StoreTypeOK'
  BY <1>2 DEF StoreTypeOK, SetRunning, Status
<1>3. ASSUME NEW s, NEW p \in Points, StoreResult(s, p) PROVE StoreTypeOK'
  <2>1. /\ status' \in [Subs -> Status]
        /\ score' \in [Subs -> Points \union {0}]
        /\ disqualified' \in [Subs -> BOOLEAN]
    BY <1>3 DEF StoreTypeOK, StoreResult, Status
  <2>2. results' \in [Subs -> 0..ResultsCap]
    <3>1. results \in [Subs -> 0..2]
      BY DEF StoreTypeOK, ResultsCap
    <3>2. results' = [results EXCEPT ![s] = IF @ < 2 THEN @ + 1 ELSE @]
      BY <1>3 DEF StoreResult, ResultsCap
    <3>3. \A n \in 0..2 : (IF n < 2 THEN n + 1 ELSE n) \in 0..2
      OBVIOUS
    <3>4. CASE s \in Subs
      <4>1. (IF results[s] < 2 THEN results[s] + 1 ELSE results[s]) \in 0..2
        BY <3>1, <3>3, <3>4
      <4>2. QED BY <3>1, <3>2, <4>1 DEF ResultsCap
    <3>5. CASE s \notin Subs
      BY <3>1, <3>2, <3>5 DEF ResultsCap
    <3>6. QED BY <3>4, <3>5
  <2>3. QED BY <2>1, <2>2 DEF StoreTypeOK
<1>4. ASSUME NEW S, RequeueRunningRows(S) PROVE StoreTypeOK'
  BY <1>4 DEF StoreTypeOK, RequeueRunningRows, Status
<1>5. ASSUME NEW S, RejudgeRows(S) PROVE StoreTypeOK'
  BY <1>5 DEF StoreTypeOK, RejudgeRows, Status, ResultsCap
<1>6. ASSUME NEW s, CancelEvaluation(s) PROVE StoreTypeOK'
  BY <1>6 DEF StoreTypeOK, CancelEvaluation, Status
<1>7. ASSUME NEW s, CancelScore(s) PROVE StoreTypeOK'
  BY <1>7 DEF StoreTypeOK, CancelScore, Status
<1>8. ASSUME NEW s, RestoreScore(s) PROVE StoreTypeOK'
  BY <1>8 DEF StoreTypeOK, RestoreScore, Status
<1>9. ASSUME UNCHANGED rows PROVE StoreTypeOK'
  BY <1>9 DEF StoreTypeOK, rows
<1>10. QED BY <1>1, <1>2, <1>3, <1>4, <1>5, <1>6, <1>7, <1>8, <1>9

-----------------------------------------------------------------------------
(* Type correctness.                                                       *)

LEMMA TypeInit == Init => TypeOK
  BY QueueAssumption, StoreAssumption
  DEF Init, TypeOK, StoreInit, StoreTypeOK, Status, ResultsCap, Stages

LEMMA ClaimType ==
    ASSUME TypeOK, NEW t \in Threads, Claim(t)
    PROVE  TypeOK'
<1>1. AfterPop(t) \in Stages
  BY DEF AfterPop, Stages
<1>2. CASE PopQueuedSubmission(t)
  <2>1. PICK s \in Subs : SetRunning(s) /\ GoTo(t, AfterPop(t), s)
    BY <1>2 DEF PopQueuedSubmission
  <2>2. StoreTypeOK'
    BY <2>1, StoreType DEF TypeOK
  <2>3. stage' \in [Threads -> Stages] /\ task' \in [Threads -> Subs \union {0}]
    BY <1>1, <2>1, GoToType
  <2>4. QED
    BY <1>2, <2>2, <2>3 DEF TypeOK, PopQueuedSubmission, coordVars, adminVars
<1>3. CASE SelectQueued(t)
  <2>1. PICK s \in Subs : GoTo(t, "selected", s)
    BY <1>3 DEF SelectQueued
  <2>2. StoreTypeOK'
    BY <1>3, StoreType DEF TypeOK, SelectQueued
  <2>3. stage' \in [Threads -> Stages] /\ task' \in [Threads -> Subs \union {0}]
    BY <2>1, GoToType DEF Stages
  <2>4. QED
    BY <1>3, <2>2, <2>3 DEF TypeOK, SelectQueued, coordVars, adminVars
<1>4. CASE MarkRunning(t)
  <2>1. task[t] \in Subs \union {0}
    BY DEF TypeOK
  <2>2. StoreTypeOK'
    BY <1>4, StoreType DEF TypeOK, MarkRunning
  <2>3. stage' \in [Threads -> Stages] /\ task' \in [Threads -> Subs \union {0}]
    BY <1>1, <1>4, <2>1, GoToType DEF MarkRunning
  <2>4. QED
    BY <1>4, <2>2, <2>3 DEF TypeOK, MarkRunning, coordVars, adminVars
<1>5. QED
  BY <1>2, <1>3, <1>4 DEF Claim

LEMMA HandleType ==
    ASSUME TypeOK, NEW t \in Slots, Handle(t)
    PROVE  TypeOK'
<1>1. t \in Threads /\ task[t] \in Subs \union {0}
  BY DEF TypeOK, Threads
<1>2. StoreTypeOK'
  BY StoreType DEF Handle, HandleTask, FetchTask, StartJudging, TypeOK
<1>3. stage' \in [Threads -> Stages] /\ task' \in [Threads -> Subs \union {0}]
  BY <1>1, GoToType DEF Handle, HandleTask, FetchTask, StartJudging, Stages
<1>4. CASE HandleTask(t)
  <2>1. Owner[t] \in Workers
    BY QueueAssumption
  <2>2. assignments' \in [Subs -> Workers \union {NoWorker}]
    BY <1>4, <2>1 DEF TypeOK, HandleTask
  <2>3. QED
    BY <1>2, <1>3, <1>4, <2>2 DEF TypeOK, HandleTask, adminVars
<1>5. CASE FetchTask(t) \/ StartJudging(t)
  BY <1>2, <1>3, <1>5 DEF TypeOK, FetchTask, StartJudging, coordVars, adminVars
<1>6. QED
  BY <1>4, <1>5 DEF Handle

LEMMA ReportType ==
    ASSUME TypeOK, NEW t \in Threads, Report(t)
    PROVE  TypeOK'
<1>1. task[t] \in Subs \union {0}
  BY DEF TypeOK
<1>2. stage' \in [Threads -> Stages] /\ task' \in [Threads -> Subs \union {0}]
  <2>1. \/ GoTo(t, "releasing", task[t])
        \/ GoTo(t, "checked", task[t])
        \/ Reset({t})
    BY DEF Report, CheckCancelled, UpdateSubmissionResult, Release
  <2>2. QED
    BY <1>1, <2>1, GoToType, ResetType DEF Stages
<1>3. StoreTypeOK'
  BY StoreType DEF Report, CheckCancelled, UpdateSubmissionResult, Release, TypeOK
<1>4. CASE CheckCancelled(t) \/ UpdateSubmissionResult(t)
  BY <1>2, <1>3, <1>4
  DEF TypeOK, CheckCancelled, UpdateSubmissionResult, coordVars, adminVars
<1>5. CASE Release(t)
  BY <1>2, <1>3, <1>5 DEF TypeOK, Release, Forget, adminVars
<1>6. QED
  BY <1>4, <1>5 DEF Report

LEMMA LoseType ==
    ASSUME TypeOK, NEW t \in Threads, Lose(t)
    PROVE  TypeOK'
<1>1. stage' \in [Threads -> Stages] /\ task' \in [Threads -> Subs \union {0}]
  BY ResetType DEF Lose, FetchTaskFails, UpdateFails, PostResultFails
<1>2. StoreTypeOK'
  BY StoreType DEF Lose, FetchTaskFails, UpdateFails, PostResultFails, TypeOK
<1>3. faults' \in 0..MaxFaults
  <2>1. UNCHANGED faults \/ \E kind : Fault(kind)
    BY DEF Lose, FetchTaskFails, UpdateFails, PostResultFails
  <2>2. QED
    BY <2>1, FaultType DEF TypeOK
<1>4. QED
  BY <1>1, <1>2, <1>3
  DEF TypeOK, Lose, FetchTaskFails, UpdateFails, PostResultFails, coordVars, adminVars

LEMMA CoordinateType ==
    ASSUME TypeOK, Coordinate
    PROVE  TypeOK'
<1>1. ASSUME NEW w \in Workers, HandleHeartbeat(w) \/ HeartbeatExpires(w)
      PROVE  TypeOK'
  <2>1. StoreTypeOK'
    BY <1>1, StoreType DEF HandleHeartbeat, HeartbeatExpires, TypeOK
  <2>2. QED
    BY <1>1, <2>1 DEF TypeOK, HandleHeartbeat, HeartbeatExpires, threadVars, adminVars
<1>2. ASSUME NEW s \in Subs, BecomesOverdue(s)
      PROVE  TypeOK'
  <2>1. StoreTypeOK'
    BY <1>2, StoreType DEF BecomesOverdue, TypeOK
  <2>2. QED
    BY <1>2, <2>1 DEF TypeOK, BecomesOverdue, threadVars, adminVars
<1>3. ASSUME NEW s \in Subs, Reap(s)
      PROVE  TypeOK'
  <2>1. StoreTypeOK'
    BY <1>3, StoreType DEF Reap, Requeue, TypeOK
  <2>2. QED
    BY <1>3, <2>1 DEF TypeOK, Reap, Requeue, Forget, threadVars, adminVars
<1>4. ASSUME NEW s \in Subs, ReapFails(s)
      PROVE  TypeOK'
  <2>1. StoreTypeOK'
    BY <1>4, StoreType DEF ReapFails, TypeOK
  <2>2. faults' \in 0..MaxFaults
    BY <1>4, FaultType DEF ReapFails
  <2>3. QED
    BY <1>4, <2>1, <2>2 DEF TypeOK, ReapFails, Forget, threadVars, adminVars
<1>5. QED
  BY <1>1, <1>2, <1>3, <1>4 DEF Coordinate

LEMMA CrashType ==
    ASSUME TypeOK, CrashOrRestart
    PROVE  TypeOK'
<1>1. ASSUME NEW w \in Workers, WorkerCrash(w) \/ WorkerRestart(w)
      PROVE  TypeOK'
  <2>1. StoreTypeOK'
    BY <1>1, StoreType DEF WorkerCrash, WorkerRestart, TypeOK
  <2>2. stage' \in [Threads -> Stages] /\ task' \in [Threads -> Subs \union {0}]
    BY <1>1, ResetType DEF WorkerCrash, WorkerRestart, threadVars, TypeOK
  <2>3. faults' \in 0..MaxFaults
    BY <1>1, FaultType DEF WorkerCrash, WorkerRestart, TypeOK
  <2>4. QED
    BY <1>1, <2>1, <2>2, <2>3 DEF TypeOK, WorkerCrash, WorkerRestart, coordVars, adminVars
<1>2. ASSUME NEW l \in WebJudges, WebCrash(l) \/ WebRestart(l)
      PROVE  TypeOK'
  <2>1. StoreTypeOK'
    BY <1>2, StoreType DEF WebCrash, WebRestart, TypeOK
  <2>2. stage' \in [Threads -> Stages] /\ task' \in [Threads -> Subs \union {0}]
    BY <1>2, ResetType DEF WebCrash, WebRestart, threadVars, TypeOK
  <2>3. faults' \in 0..MaxFaults
    BY <1>2, FaultType DEF WebCrash, WebRestart, TypeOK
  <2>4. QED
    BY <1>2, <2>1, <2>2, <2>3 DEF TypeOK, WebCrash, WebRestart, coordVars, adminVars
<1>3. CASE CoordinatorCrash
  <2>1. StoreTypeOK'
    BY <1>3, StoreType DEF CoordinatorCrash, TypeOK
  <2>2. stage' \in [Threads -> Stages] /\ task' \in [Threads -> Subs \union {0}]
    BY <1>3, ResetType DEF CoordinatorCrash
  <2>3. faults' \in 0..MaxFaults
    BY <1>3, FaultType DEF CoordinatorCrash
  <2>4. QED
    BY <1>3, <2>1, <2>2, <2>3 DEF TypeOK, CoordinatorCrash, adminVars
<1>4. CASE CoordinatorRestart
  <2>1. StoreTypeOK'
    BY <1>4, StoreType DEF CoordinatorRestart, Requeue, TypeOK
  <2>2. QED
    BY <1>4, <2>1 DEF TypeOK, CoordinatorRestart, Requeue, threadVars, adminVars
<1>5. CASE CoordinatorRestartFails
  <2>1. StoreTypeOK'
    BY <1>5, StoreType DEF CoordinatorRestartFails, TypeOK
  <2>2. faults' \in 0..MaxFaults
    BY <1>5, FaultType DEF CoordinatorRestartFails
  <2>3. QED
    BY <1>5, <2>1, <2>2 DEF TypeOK, CoordinatorRestartFails, threadVars, adminVars
<1>6. QED
  BY <1>1, <1>2, <1>3, <1>4, <1>5 DEF CrashOrRestart

LEMMA AdminStepType ==
    ASSUME TypeOK, Administrate
    PROVE  TypeOK'
<1>1. ASSUME NEW s \in Subs,
             \/ RejudgeSubmission(s)
             \/ AdminCancelEvaluation(s)
             \/ AdminCancelScore(s)
             \/ AdminRestoreScore(s)
      PROVE  TypeOK'
  <2>1. StoreTypeOK'
    BY <1>1, StoreType
    DEF RejudgeSubmission, AdminCancelEvaluation, AdminCancelScore, AdminRestoreScore,
        Rejudge, TypeOK
  <2>2. AdminStep
    BY <1>1
    DEF RejudgeSubmission, AdminCancelEvaluation, AdminCancelScore, AdminRestoreScore
  <2>3. adminOps' \in 0..MaxAdmin
    BY <2>2, AdminType
  <2>4. superseded' \subseteq Subs /\ batch' \subseteq Subs
    BY <1>1
    DEF RejudgeSubmission, AdminCancelEvaluation, AdminCancelScore, AdminRestoreScore,
        Rejudge, TypeOK, Claimed
  <2>5. QED
    BY <2>1, <2>2, <2>3, <2>4 DEF TypeOK, AdminStep, threadVars, coordVars
<1>2. CASE RejudgeProblemSelect
  <2>1. StoreTypeOK'
    BY <1>2, StoreType DEF RejudgeProblemSelect, TypeOK
  <2>2. adminOps' \in 0..MaxAdmin
    BY <1>2, AdminType DEF RejudgeProblemSelect
  <2>3. QED
    BY <1>2, <2>1, <2>2
    DEF TypeOK, RejudgeProblemSelect, AdminStep, Rejudgeable, threadVars, coordVars
<1>3. CASE RejudgeProblemCommit
  <2>1. StoreTypeOK'
    BY <1>3, StoreType DEF RejudgeProblemCommit, Rejudge, TypeOK
  <2>2. QED
    BY <1>3, <2>1
    DEF TypeOK, RejudgeProblemCommit, Rejudge, threadVars, coordVars
<1>4. QED
  BY <1>1, <1>2, <1>3 DEF Administrate

LEMMA TypeStep == TypeOK /\ [Next]_vars => TypeOK'
<1>1. SUFFICES ASSUME TypeOK, [Next]_vars PROVE TypeOK'
  OBVIOUS
<1>2. ASSUME NEW s \in Subs, Submit(s) PROVE TypeOK'
  <2>1. StoreTypeOK'
    BY <1>1, <1>2, StoreType DEF Submit, TypeOK
  <2>2. QED
    BY <1>1, <1>2, <2>1 DEF TypeOK, Submit, threadVars, coordVars, adminVars
<1>3. CASE UNCHANGED vars
  <2>1. StoreTypeOK'
    BY <1>1, <1>3, StoreType DEF vars, TypeOK
  <2>2. QED
    BY <1>1, <1>3, <2>1 DEF TypeOK, vars, threadVars, coordVars, adminVars
<1>4. QED
  BY <1>1, <1>2, <1>3, ClaimType, HandleType, ReportType, LoseType, CoordinateType,
     CrashType, AdminStepType
  DEF Next

(***************************************************************************)
(* Every reachable state is well typed, with any pop and any faults.       *)
(***************************************************************************)
THEOREM TypeCorrect == Spec => []TypeOK
<1>1. Init => TypeOK
  BY TypeInit
<1>2. TypeOK /\ [Next]_vars => TypeOK'
  BY TypeStep
<1>3. QED
  BY <1>1, <1>2, PTL DEF Spec

-----------------------------------------------------------------------------
(* ScoreBacked is inductive as it stands, with any pop.                    *)

LEMMA ScoreBackedStep == TypeOK /\ ScoreBacked /\ [Next]_vars => ScoreBacked'
<1>1. SUFFICES ASSUME TypeOK, ScoreBacked, [Next]_vars PROVE ScoreBacked'
  OBVIOUS
<1>2. ASSUME NEW s, NEW p \in Points, StoreResult(s, p) PROVE ScoreBacked'
  <2>1. \A r \in Subs : r # s => score'[r] = score[r] /\ results'[r] = results[r]
    BY <1>1, <1>2 DEF StoreResult, TypeOK, StoreTypeOK
  <2>2. ASSUME s \in Subs PROVE results'[s] > 0
    <3>1. results[s] \in 0..2
      BY <1>1, <2>2 DEF TypeOK, StoreTypeOK, ResultsCap
    <3>2. results'[s] = IF results[s] < 2 THEN results[s] + 1 ELSE results[s]
      BY <1>1, <1>2, <2>2 DEF StoreResult, TypeOK, StoreTypeOK, ResultsCap
    <3>3. QED BY <3>1, <3>2
  <2>3. QED BY <1>1, <2>1, <2>2 DEF ScoreBacked
<1>3. ASSUME NEW S, RejudgeRows(S) PROVE ScoreBacked'
  BY <1>1, <1>3 DEF ScoreBacked, RejudgeRows, TypeOK, StoreTypeOK
<1>4. ASSUME NEW s, CancelScore(s) PROVE ScoreBacked'
  BY <1>1, <1>4 DEF ScoreBacked, CancelScore, TypeOK, StoreTypeOK
<1>5. ASSUME UNCHANGED <<score, results>> PROVE ScoreBacked'
  BY <1>1, <1>5 DEF ScoreBacked
<1>6. \/ \E s : \E p \in Points : StoreResult(s, p)
      \/ \E S : RejudgeRows(S)
      \/ \E s : CancelScore(s)
      \/ UNCHANGED <<score, results>>
  <2>1. ASSUME NEW t \in Threads, Claim(t) \/ Report(t) \/ Lose(t) PROVE <1>6
    BY <2>1
    DEF Claim, PopQueuedSubmission, SelectQueued, MarkRunning, SetRunning, Report,
        CheckCancelled, UpdateSubmissionResult, Release, Lose, FetchTaskFails,
        UpdateFails, PostResultFails, rows
  <2>2. ASSUME NEW t \in Slots, Handle(t) PROVE <1>6
    BY <2>2 DEF Handle, HandleTask, FetchTask, StartJudging, rows
  <2>3. CASE Coordinate
    BY <2>3
    DEF Coordinate, HandleHeartbeat, HeartbeatExpires, BecomesOverdue, Reap, ReapFails,
        Requeue, RequeueRunningRows, rows
  <2>4. CASE CrashOrRestart
    BY <2>4
    DEF CrashOrRestart, WorkerCrash, WorkerRestart, WebCrash, WebRestart,
        CoordinatorCrash, CoordinatorRestart, CoordinatorRestartFails, Requeue,
        RequeueRunningRows, rows
  <2>5. CASE Administrate
    BY <2>5
    DEF Administrate, RejudgeSubmission, AdminCancelEvaluation, AdminCancelScore,
        AdminRestoreScore, RejudgeProblemSelect, RejudgeProblemCommit, Rejudge,
        CancelEvaluation, RestoreScore, rows
  <2>6. ASSUME NEW s \in Subs, Submit(s) PROVE <1>6
    BY <2>6 DEF Submit, CreateSubmission
  <2>7. CASE UNCHANGED vars
    BY <2>7 DEF vars, rows
  <2>8. QED
    BY <1>1, <2>1, <2>2, <2>3, <2>4, <2>5, <2>6, <2>7 DEF Next
<1>7. QED
  BY <1>2, <1>3, <1>4, <1>5, <1>6

(***************************************************************************)
(* Points are always backed by stored results, whatever the database.      *)
(***************************************************************************)
THEOREM ScoreAlwaysBacked == Spec => []ScoreBacked
<1>1. Init => ScoreBacked
  BY DEF Init, StoreInit, ScoreBacked
<1>2. TypeOK /\ ScoreBacked /\ [Next]_vars => ScoreBacked'
  BY ScoreBackedStep
<1>3. QED
  BY <1>1, <1>2, TypeCorrect, PTL DEF Spec

-----------------------------------------------------------------------------
(* Serial claims: the invariant ClaimInv.                                  *)

LEMMA WellTaskedStep ==
    ASSUME TypeOK, WellTasked, [Next]_vars
    PROVE  WellTasked'
<1>1. \A t \in Threads : stage[t] # "idle" => task[t] \in Subs
  BY DEF WellTasked
<1>2. ASSUME NEW t \in Threads, NEW st, NEW s \in Subs,
             GoTo(t, st, s), AtomicPop => st # "selected"
      PROVE  WellTasked'
  BY <1>2 DEF WellTasked, GoTo, TypeOK
<1>3. ASSUME NEW S, Reset(S) PROVE WellTasked'
  BY <1>3 DEF WellTasked, Reset, TypeOK
<1>4. ASSUME UNCHANGED threadVars PROVE WellTasked'
  BY <1>4 DEF WellTasked, threadVars
<1>5. ASSUME NEW t \in Threads, Claim(t) PROVE WellTasked'
  BY <1>1, <1>2, <1>5
  DEF Claim, PopQueuedSubmission, SelectQueued, MarkRunning, AfterPop
<1>6. ASSUME NEW t \in Slots, Handle(t) PROVE WellTasked'
  BY <1>1, <1>2, <1>6 DEF Handle, HandleTask, FetchTask, StartJudging, Threads
<1>7. ASSUME NEW t \in Threads, Report(t) \/ Lose(t) PROVE WellTasked'
  BY <1>1, <1>2, <1>3, <1>7
  DEF Report, CheckCancelled, UpdateSubmissionResult, Release, Lose, FetchTaskFails,
      UpdateFails, PostResultFails
<1>8. CASE Coordinate
  BY <1>4, <1>8
  DEF Coordinate, HandleHeartbeat, HeartbeatExpires, BecomesOverdue, Reap, ReapFails
<1>9. CASE CrashOrRestart
  BY <1>3, <1>4, <1>9
  DEF CrashOrRestart, WorkerCrash, WorkerRestart, WebCrash, WebRestart,
      CoordinatorCrash, CoordinatorRestart, CoordinatorRestartFails
<1>10. CASE Administrate
  BY <1>4, <1>10
  DEF Administrate, RejudgeSubmission, AdminCancelEvaluation, AdminCancelScore,
      AdminRestoreScore, RejudgeProblemSelect, RejudgeProblemCommit, AdminStep
<1>11. ASSUME NEW s \in Subs, Submit(s) PROVE WellTasked'
  BY <1>4, <1>11 DEF Submit
<1>12. CASE UNCHANGED vars
  BY <1>4, <1>12 DEF vars
<1>13. QED
  BY <1>5, <1>6, <1>7, <1>8, <1>9, <1>10, <1>11, <1>12 DEF Next

\* Every step either leaves the rows alone or is one of these statements; with serial
\* claims SET running is applied to queued rows only.
LEMMA RowStep ==
    ASSUME AtomicPop, WellTasked, [Next]_vars
    PROVE  \/ UNCHANGED rows
           \/ \E s \in Subs : CreateSubmission(s)
           \/ \E s \in Subs : status[s] = "queued" /\ SetRunning(s)
           \/ \E s : \E p \in Points : StoreResult(s, p)
           \/ \E S : RequeueRunningRows(S)
           \/ \E S : RejudgeRows(S)
           \/ \E s \in Subs : CancelEvaluation(s) \/ CancelScore(s) \/ RestoreScore(s)
<1> DEFINE Goal ==
           \/ UNCHANGED rows
           \/ \E s \in Subs : CreateSubmission(s)
           \/ \E s \in Subs : status[s] = "queued" /\ SetRunning(s)
           \/ \E s : \E p \in Points : StoreResult(s, p)
           \/ \E S : RequeueRunningRows(S)
           \/ \E S : RejudgeRows(S)
           \/ \E s \in Subs : CancelEvaluation(s) \/ CancelScore(s) \/ RestoreScore(s)
<1>1. ASSUME NEW t \in Threads, Claim(t) PROVE Goal
  BY <1>1
  DEF Claim, PopQueuedSubmission, SelectQueued, MarkRunning, IsOldestQueued, Queued,
      WellTasked
<1>2. ASSUME NEW t \in Threads, Report(t) \/ Lose(t) PROVE Goal
  BY <1>2
  DEF Report, CheckCancelled, UpdateSubmissionResult, Release, Lose, FetchTaskFails,
      UpdateFails, PostResultFails
<1>3. ASSUME NEW t \in Slots, Handle(t) PROVE Goal
  BY <1>3 DEF Handle, HandleTask, FetchTask, StartJudging
<1>4. CASE Coordinate
  BY <1>4
  DEF Coordinate, HandleHeartbeat, HeartbeatExpires, BecomesOverdue, Reap, ReapFails,
      Requeue
<1>5. CASE CrashOrRestart
  BY <1>5
  DEF CrashOrRestart, WorkerCrash, WorkerRestart, WebCrash, WebRestart,
      CoordinatorCrash, CoordinatorRestart, CoordinatorRestartFails, Requeue
<1>6. CASE Administrate
  BY <1>6
  DEF Administrate, RejudgeSubmission, AdminCancelEvaluation, AdminCancelScore,
      AdminRestoreScore, RejudgeProblemSelect, RejudgeProblemCommit, Rejudge
<1>7. ASSUME NEW s \in Subs, Submit(s) PROVE Goal
  BY <1>7 DEF Submit
<1>8. CASE UNCHANGED vars
  BY <1>8 DEF vars
<1>9. QED
  BY <1>1, <1>2, <1>3, <1>4, <1>5, <1>6, <1>7, <1>8 DEF Next

LEMMA WaitingStep ==
    ASSUME AtomicPop, TypeOK, WellTasked, WaitingIsClean, [Next]_vars
    PROVE  WaitingIsClean'
<1>1. CASE UNCHANGED rows
  BY <1>1 DEF WaitingIsClean, rows
<1>2. ASSUME NEW s \in Subs,
             \/ CreateSubmission(s)
             \/ status[s] = "queued" /\ SetRunning(s)
      PROVE  WaitingIsClean'
  BY <1>2 DEF WaitingIsClean, CreateSubmission, SetRunning, TypeOK, StoreTypeOK
<1>3. ASSUME NEW s, NEW p \in Points, StoreResult(s, p) PROVE WaitingIsClean'
  <2>1. \A r \in Subs : r # s => /\ status'[r] = status[r]
                                 /\ score'[r] = score[r]
                                 /\ results'[r] = results[r]
                                 /\ disqualified'[r] = disqualified[r]
    BY <1>3 DEF StoreResult, TypeOK, StoreTypeOK
  <2>2. s \in Subs => status'[s] = "judged"
    BY <1>3 DEF StoreResult, TypeOK, StoreTypeOK
  <2>3. QED BY <2>1, <2>2 DEF WaitingIsClean
<1>4. ASSUME NEW S, RequeueRunningRows(S) PROVE WaitingIsClean'
  BY <1>4 DEF WaitingIsClean, RequeueRunningRows, TypeOK, StoreTypeOK
<1>5. ASSUME NEW S, RejudgeRows(S) PROVE WaitingIsClean'
  BY <1>5 DEF WaitingIsClean, RejudgeRows, TypeOK, StoreTypeOK
<1>6. ASSUME NEW s \in Subs, CancelEvaluation(s) \/ CancelScore(s) \/ RestoreScore(s)
      PROVE  WaitingIsClean'
  BY <1>6
  DEF WaitingIsClean, CancelEvaluation, CancelScore, RestoreScore, TypeOK, StoreTypeOK
<1>7. QED
  BY <1>1, <1>2, <1>3, <1>4, <1>5, <1>6, RowStep

-----------------------------------------------------------------------------
(* How a step changes the claims.                                          *)

LEMMA GoToHolders ==
    ASSUME TypeOK, NEW t \in Threads, NEW st, GoTo(t, st, task[t]),
           st \in Claiming => stage[t] \in Claiming
    PROVE  \A s : Holders(s)' \subseteq Holders(s)
  BY DEF TypeOK, GoTo, Holders

LEMMA ResetHolders ==
    ASSUME TypeOK, NEW S, Reset(S)
    PROVE  \A s : Holders(s)' \subseteq Holders(s)
  BY DEF TypeOK, Reset, Holders, Claiming

LEMMA SameHolders ==
    ASSUME UNCHANGED threadVars
    PROVE  \A s : Holders(s)' = Holders(s)
  BY DEF threadVars, Holders

\* A step that adds no holder to s and no batch to it, and puts it back in the queue
\* only if nobody holds it or if it is then marked as superseded.
Quiet(s) ==
    /\ Holders(s)' \subseteq Holders(s)
    /\ superseded \subseteq superseded'
    /\ results'[s] \in {results[s], 0}
    /\ status'[s] \in {"none", "queued"} =>
        status[s] \in {"none", "queued"} \/ Holders(s) = {} \/ s \in superseded'

LEMMA QuietStep ==
    ASSUME NEW s \in Subs, TypeOK, SoleClaim(s), Quiet(s)
    PROVE  SoleClaim(s)'
<1>1. SUFFICES ASSUME s \notin superseded'
               PROVE  /\ \A t \in Holders(s)' :
                            /\ \A u \in Holders(s)' : t = u
                            /\ status'[s] \notin {"none", "queued"}
                            /\ results'[s] = 0
                      /\ results'[s] <= 1
  BY DEF SoleClaim
<1>2. s \notin superseded
  BY <1>1 DEF Quiet
<1>3. results[s] \in 0..2
  BY DEF TypeOK, StoreTypeOK, ResultsCap
<1>4. QED
  BY <1>1, <1>2, <1>3 DEF SoleClaim, Quiet

LEMMA ClaimStep ==
    ASSUME AtomicPop, TypeOK, ClaimInv, NEW t \in Threads, Claim(t), NEW s \in Subs
    PROVE  SoleClaim(s)'
<1>1. PopQueuedSubmission(t)
  BY DEF Claim, SelectQueued, MarkRunning, ClaimInv, WellTasked
<1>2. PICK r \in Subs : IsOldestQueued(r) /\ SetRunning(r) /\ GoTo(t, AfterPop(t), r)
  BY <1>1 DEF PopQueuedSubmission
<1>3. /\ superseded' = superseded
      /\ results' = results
      /\ status[r] = "queued"
      /\ status' = [status EXCEPT ![r] = "running"]
  BY <1>1, <1>2 DEF PopQueuedSubmission, SetRunning, IsOldestQueued, Queued
<1>4. stage[t] = "idle"
  BY <1>1 DEF PopQueuedSubmission, MayClaim
<1>5. Holders(r)' \subseteq Holders(r) \union {t}
  BY <1>2 DEF TypeOK, GoTo, Holders
<1>6. \A q : q # r => Holders(q)' \subseteq Holders(q)
  BY <1>2 DEF TypeOK, GoTo, Holders
<1>7. SoleClaim(s)
  BY DEF ClaimInv
<1>8. CASE s = r
  <2>1. s \notin superseded => Holders(r) = {}
    BY <1>3, <1>7, <1>8 DEF SoleClaim
  <2>2. results[s] = 0
    BY <1>3, <1>8 DEF ClaimInv, WaitingIsClean
  <2>3. status'[s] = "running"
    BY <1>3, <1>8 DEF TypeOK, StoreTypeOK
  <2>4. QED
    BY <1>3, <1>5, <1>8, <2>1, <2>2, <2>3 DEF SoleClaim
<1>9. CASE s # r
  <2>1. Quiet(s)
    BY <1>3, <1>6, <1>9 DEF Quiet, TypeOK, StoreTypeOK
  <2>2. QED
    BY <1>7, <2>1, QuietStep
<1>10. QED
  BY <1>8, <1>9

LEMMA StoreStep ==
    ASSUME TypeOK, ClaimInv, NEW t \in Threads, UpdateSubmissionResult(t), NEW s \in Subs
    PROVE  SoleClaim(s)'
<1>1. /\ stage[t] = "checked"
      /\ superseded' = superseded
      /\ GoTo(t, "releasing", task[t]) \/ Reset({t})
  BY DEF UpdateSubmissionResult
<1>2. PICK p \in Points : StoreResult(task[t], p)
  BY DEF UpdateSubmissionResult
<1>3. SoleClaim(s)
  BY DEF ClaimInv
<1>4. \A q : Holders(q)' \subseteq Holders(q) \ {t}
  BY <1>1 DEF TypeOK, GoTo, Reset, Holders, Claiming
<1>5. CASE s = task[t]
  <2>1. t \in Holders(s)
    BY <1>1, <1>5 DEF Holders, Claiming
  <2>2. s \notin superseded => Holders(s) \subseteq {t} /\ results[s] = 0
    BY <1>3, <2>1 DEF SoleClaim
  <2>3. s \notin superseded => results'[s] = 1
    BY <1>2, <1>5, <2>2 DEF StoreResult, ResultsCap, TypeOK, StoreTypeOK
  <2>4. s \notin superseded => Holders(s)' = {}
    BY <1>4, <2>2
  <2>5. QED
    BY <1>1, <2>3, <2>4 DEF SoleClaim
<1>6. CASE s # task[t]
  <2>1. /\ status'[s] = status[s]
        /\ results'[s] = results[s]
    BY <1>2, <1>6 DEF StoreResult, TypeOK, StoreTypeOK
  <2>2. Quiet(s)
    BY <1>1, <1>4, <2>1 DEF Quiet
  <2>3. QED
    BY <1>3, <2>2, QuietStep
<1>7. QED
  BY <1>5, <1>6

\* A requeue, or a rejudge, of the rows of S marks those that are held.
LEMMA RequeueQuiet ==
    ASSUME TypeOK, NEW S, Requeue(S) \/ Rejudge(S), UNCHANGED threadVars, NEW s \in Subs
    PROVE  Quiet(s)
<1>1. Holders(s)' = Holders(s)
  BY SameHolders
<1>2. CASE Requeue(S)
  BY <1>1, <1>2
  DEF Quiet, Requeue, RequeueRunningRows, Claimed, TypeOK, StoreTypeOK
<1>3. CASE Rejudge(S)
  BY <1>1, <1>3 DEF Quiet, Rejudge, RejudgeRows, Claimed, TypeOK, StoreTypeOK
<1>4. QED
  BY <1>2, <1>3

LEMMA OtherStepsQuiet ==
    ASSUME TypeOK, WellTasked, [Next]_vars, NEW s \in Subs,
           \A t \in Threads : ~Claim(t) /\ ~UpdateSubmissionResult(t)
    PROVE  Quiet(s)
<1>1. ASSUME NEW r \in Subs, Submit(r) PROVE Quiet(s)
  BY <1>1, SameHolders
  DEF Submit, CreateSubmission, Quiet, TypeOK, StoreTypeOK
<1>2. ASSUME NEW t \in Threads, Report(t) PROVE Quiet(s)
  <2>1. CheckCancelled(t) \/ Release(t)
    BY <1>2 DEF Report
  <2>2. Holders(s)' \subseteq Holders(s)
    BY <2>1, GoToHolders, ResetHolders DEF CheckCancelled, Release, Claiming
  <2>3. QED
    BY <2>1, <2>2 DEF CheckCancelled, Release, Quiet, rows
<1>3. ASSUME NEW t \in Threads, Lose(t) PROVE Quiet(s)
  <2>1. Holders(s)' \subseteq Holders(s)
    BY <1>3, ResetHolders DEF Lose, FetchTaskFails, UpdateFails, PostResultFails
  <2>2. QED
    BY <1>3, <2>1 DEF Lose, FetchTaskFails, UpdateFails, PostResultFails, Quiet, rows
<1>4. ASSUME NEW t \in Slots, Handle(t) PROVE Quiet(s)
  <2>1. Holders(s)' \subseteq Holders(s)
    BY <1>4, GoToHolders
    DEF Handle, HandleTask, FetchTask, StartJudging, Claiming, Threads
  <2>2. QED
    BY <1>4, <2>1 DEF Handle, HandleTask, FetchTask, StartJudging, Quiet, rows
<1>5. CASE Coordinate
  <2>1. ASSUME NEW w \in Workers, HandleHeartbeat(w) \/ HeartbeatExpires(w)
        PROVE  Quiet(s)
    BY <2>1, SameHolders DEF HandleHeartbeat, HeartbeatExpires, Quiet, rows
  <2>2. ASSUME NEW r \in Subs, BecomesOverdue(r) \/ ReapFails(r)
        PROVE  Quiet(s)
    BY <2>2, SameHolders DEF BecomesOverdue, ReapFails, Quiet, rows
  <2>3. ASSUME NEW r \in Subs, Reap(r) PROVE Quiet(s)
    BY <2>3, RequeueQuiet DEF Reap
  <2>4. QED
    BY <1>5, <2>1, <2>2, <2>3 DEF Coordinate
<1>6. CASE CrashOrRestart
  <2>1. CASE CoordinatorRestart
    BY <2>1, RequeueQuiet DEF CoordinatorRestart
  <2>2. CASE ~CoordinatorRestart
    <3>1. UNCHANGED rows /\ UNCHANGED superseded
      BY <1>6, <2>2
      DEF CrashOrRestart, WorkerCrash, WorkerRestart, WebCrash, WebRestart,
          CoordinatorCrash, CoordinatorRestartFails
    <3>2. (\E S : Reset(S)) \/ UNCHANGED threadVars
      BY <1>6, <2>2
      DEF CrashOrRestart, WorkerCrash, WorkerRestart, WebCrash, WebRestart,
          CoordinatorCrash, CoordinatorRestartFails
    <3>3. QED
      BY <3>1, <3>2, ResetHolders, SameHolders DEF Quiet, rows
  <2>3. QED
    BY <2>1, <2>2
<1>7. CASE Administrate
  <2>1. ASSUME NEW r \in Subs, RejudgeSubmission(r) PROVE Quiet(s)
    BY <2>1, RequeueQuiet DEF RejudgeSubmission, AdminStep
  <2>2. CASE RejudgeProblemCommit
    BY <2>2, RequeueQuiet DEF RejudgeProblemCommit
  <2>3. ASSUME NEW r \in Subs,
               AdminCancelEvaluation(r) \/ AdminCancelScore(r) \/ AdminRestoreScore(r)
        PROVE  Quiet(s)
    BY <2>3, SameHolders
    DEF AdminCancelEvaluation, AdminCancelScore, AdminRestoreScore, AdminStep,
        CancelEvaluation, CancelScore, RestoreScore, Quiet, TypeOK, StoreTypeOK
  <2>4. CASE RejudgeProblemSelect
    BY <2>4, SameHolders DEF RejudgeProblemSelect, AdminStep, Quiet, rows
  <2>5. QED
    BY <1>7, <2>1, <2>2, <2>3, <2>4 DEF Administrate
<1>8. CASE UNCHANGED vars
  BY <1>8, SameHolders DEF vars, Quiet, rows
<1>9. QED
  BY <1>1, <1>2, <1>3, <1>4, <1>5, <1>6, <1>7, <1>8 DEF Next

LEMMA ClaimInvStep ==
    ASSUME AtomicPop, TypeOK, ClaimInv, [Next]_vars
    PROVE  ClaimInv'
<1>1. WellTasked' /\ WaitingIsClean'
  BY WellTaskedStep, WaitingStep DEF ClaimInv
<1>2. ASSUME NEW s \in Subs PROVE SoleClaim(s)'
  <2>1. CASE \E t \in Threads : Claim(t)
    BY <2>1, ClaimStep
  <2>2. CASE \E t \in Threads : UpdateSubmissionResult(t)
    BY <2>2, StoreStep
  <2>3. CASE \A t \in Threads : ~Claim(t) /\ ~UpdateSubmissionResult(t)
    BY <2>3, OtherStepsQuiet, QuietStep DEF ClaimInv
  <2>4. QED
    BY <2>1, <2>2, <2>3
<1>3. QED
  BY <1>1, <1>2 DEF ClaimInv

LEMMA ClaimInvInit == Init => ClaimInv
  BY DEF Init, StoreInit, ClaimInv, WellTasked, WaitingIsClean, SoleClaim, Holders,
         Claiming

LEMMA ClaimInvAlways == ASSUME AtomicPop PROVE Spec => []ClaimInv
<1>1. Init => ClaimInv
  BY ClaimInvInit
<1>2. TypeOK /\ ClaimInv /\ [Next]_vars => ClaimInv'
  BY ClaimInvStep
<1>3. QED
  BY <1>1, <1>2, TypeCorrect, PTL DEF Spec

(***************************************************************************)
(* On SQLite a row that was never requeued under an unfinished claim has   *)
(* at most one thread on it.                                               *)
(***************************************************************************)
THEOREM SerialPopClaimsOnce == ASSUME AtomicPop PROVE Spec => []ClaimedOnce
<1>1. ClaimInv => ClaimedOnce
  BY DEF ClaimInv, SoleClaim, ClaimedOnce
<1>2. QED
  BY <1>1, ClaimInvAlways, PTL

(***************************************************************************)
(* ... and stores at most one batch of results.                            *)
(***************************************************************************)
THEOREM SerialPopOneBatch == ASSUME AtomicPop PROVE Spec => []OneBatch
<1>1. ClaimInv => OneBatch
  BY DEF ClaimInv, SoleClaim, OneBatch
<1>2. QED
  BY <1>1, ClaimInvAlways, PTL

(***************************************************************************)
(* On SQLite a waiting or cancelled row shows nothing of an earlier        *)
(* judgement, with every interleaving of late results and requeues.        *)
(***************************************************************************)
THEOREM SerialPopWaitingIsClean == ASSUME AtomicPop PROVE Spec => []WaitingIsClean
<1>1. ClaimInv => WaitingIsClean
  BY DEF ClaimInv
<1>2. QED
  BY <1>1, ClaimInvAlways, PTL

-----------------------------------------------------------------------------
(* Cancellation.                                                           *)

LEMMA CancelStep ==
    ASSUME AtomicPop, TypeOK, WellTasked, [Next]_vars, NEW s \in Subs,
           status[s] = "cancelled", status'[s] # "cancelled"
    PROVE  \/ adminOps' # adminOps \/ batch' # batch
           \/ \E t \in Threads : stage[t] = "checked" /\ task[t] = s
<1> DEFINE Goal == \/ adminOps' # adminOps \/ batch' # batch
                   \/ \E t \in Threads : stage[t] = "checked" /\ task[t] = s
<1>1. ASSUME UNCHANGED rows PROVE FALSE
  BY <1>1 DEF rows
<1>2. ASSUME NEW r \in Subs, CreateSubmission(r) PROVE FALSE
  BY <1>2 DEF CreateSubmission, TypeOK, StoreTypeOK
<1>3. ASSUME NEW S, RequeueRunningRows(S) PROVE FALSE
  BY <1>3 DEF RequeueRunningRows, TypeOK, StoreTypeOK
<1>4. ASSUME NEW t \in Threads, Claim(t) PROVE FALSE
  BY <1>4
  DEF Claim, PopQueuedSubmission, SelectQueued, MarkRunning, IsOldestQueued, Queued,
      SetRunning, WellTasked, TypeOK, StoreTypeOK, rows
<1>5. ASSUME NEW t \in Threads, UpdateSubmissionResult(t) PROVE Goal
  BY <1>5 DEF UpdateSubmissionResult, StoreResult, TypeOK, StoreTypeOK
<1>6. ASSUME NEW t \in Threads, CheckCancelled(t) \/ Release(t) \/ Lose(t) PROVE FALSE
  BY <1>1, <1>6
  DEF CheckCancelled, Release, Lose, FetchTaskFails, UpdateFails, PostResultFails
<1>7. ASSUME NEW t \in Slots, Handle(t) PROVE FALSE
  BY <1>1, <1>7 DEF Handle, HandleTask, FetchTask, StartJudging
<1>8. CASE Coordinate
  BY <1>1, <1>3, <1>8
  DEF Coordinate, HandleHeartbeat, HeartbeatExpires, BecomesOverdue, Reap, ReapFails,
      Requeue
<1>9. CASE CrashOrRestart
  BY <1>1, <1>3, <1>9
  DEF CrashOrRestart, WorkerCrash, WorkerRestart, WebCrash, WebRestart,
      CoordinatorCrash, CoordinatorRestart, CoordinatorRestartFails, Requeue
<1>10. CASE Administrate
  <2>1. CASE RejudgeProblemCommit
    BY <2>1 DEF RejudgeProblemCommit
  <2>2. CASE AdminStep
    BY <2>2, QueueAssumption DEF AdminStep, TypeOK
  <2>3. QED
    BY <1>10, <2>1, <2>2
    DEF Administrate, RejudgeSubmission, AdminCancelEvaluation, AdminCancelScore,
        AdminRestoreScore, RejudgeProblemSelect
<1>11. CASE UNCHANGED vars
  BY <1>1, <1>11 DEF vars
<1>12. QED
  BY <1>2, <1>4, <1>5, <1>6, <1>7, <1>8, <1>9, <1>10, <1>11 DEF Next, Report, Submit

(***************************************************************************)
(* On SQLite only an administrator, or a result checked before the         *)
(* cancellation, moves a cancelled row.                                    *)
(***************************************************************************)
THEOREM SerialPopCancelHolds == ASSUME AtomicPop PROVE Spec => CancelHolds
<1> DEFINE Step == \A s \in Subs : status[s] = "cancelled" /\ status'[s] # "cancelled" =>
                      \/ adminOps' # adminOps \/ batch' # batch
                      \/ \E t \in Threads : stage[t] = "checked" /\ task[t] = s
<1>1. TypeOK /\ ClaimInv /\ [Next]_vars => [Step]_vars
  BY CancelStep DEF ClaimInv
<1>2. Spec => [][Step]_vars
  BY <1>1, TypeCorrect, ClaimInvAlways, PTL DEF Spec
<1>3. QED
  BY <1>2 DEF CancelHolds

-----------------------------------------------------------------------------
(* The queue without administrators.                                       *)

\* With serial claims and no administrator a judged row stays judged, and a handler that
\* is about to release an assignment has seen its row judged.
Undisturbed ==
    /\ adminOps = 0 /\ batch = {}
    /\ \A s \in Subs : status[s] \in {"none", "queued", "running", "judged"}
    /\ \A t \in Threads :
        /\ stage[t] # "idle" => status[task[t]] # "none"
        /\ stage[t] = "releasing" => status[task[t]] = "judged"

LEMMA NoAdminStep ==
    ASSUME MaxAdmin = 0, TypeOK, Undisturbed
    PROVE  ~Administrate
<1>1. ~AdminStep
  BY DEF AdminStep, Undisturbed
<1>2. QED
  BY <1>1
  DEF Administrate, RejudgeSubmission, AdminCancelEvaluation, AdminCancelScore,
      AdminRestoreScore, RejudgeProblemSelect, RejudgeProblemCommit, Undisturbed

\* How a row may move: it never leaves "judged", and never becomes "none".
Onward ==
    \A s \in Subs :
        /\ status'[s] \in {"none", "queued", "running", "judged"}
        /\ status[s] # "none" => status'[s] # "none"
        /\ status[s] = "judged" => status'[s] = "judged"

\* Such a step carries what Undisturbed says of a thread over, as long as the thread
\* changes neither its task nor its stage, or is reset.
LEMMA OnwardCarries ==
    ASSUME TypeOK, WellTasked, Undisturbed, Onward, UNCHANGED adminVars,
           \A t \in Threads : \/ stage'[t] = stage[t] /\ task'[t] = task[t]
                              \/ stage'[t] = "idle"
    PROVE  Undisturbed'
  BY DEF Undisturbed, Onward, WellTasked, adminVars

LEMMA OnwardRows ==
    ASSUME TypeOK, Undisturbed
    PROVE  /\ UNCHANGED rows => Onward
           /\ \A s \in Subs : CreateSubmission(s) => Onward
           /\ \A s \in Subs : status[s] = "queued" /\ SetRunning(s) => Onward
           /\ \A s : \A p \in Points : StoreResult(s, p) => Onward
           /\ \A S : RequeueRunningRows(S) => Onward
<1>1. UNCHANGED rows => Onward
  BY DEF Onward, Undisturbed, rows
<1>2. \A s \in Subs : CreateSubmission(s) => Onward
  BY DEF Onward, Undisturbed, CreateSubmission, TypeOK, StoreTypeOK
<1>3. \A s \in Subs : status[s] = "queued" /\ SetRunning(s) => Onward
  BY DEF Onward, Undisturbed, SetRunning, TypeOK, StoreTypeOK
<1>4. \A s : \A p \in Points : StoreResult(s, p) => Onward
  BY DEF Onward, Undisturbed, StoreResult, TypeOK, StoreTypeOK
<1>5. \A S : RequeueRunningRows(S) => Onward
  BY DEF Onward, Undisturbed, RequeueRunningRows, TypeOK, StoreTypeOK
<1>6. QED
  BY <1>1, <1>2, <1>3, <1>4, <1>5

LEMMA UndisturbedClaim ==
    ASSUME AtomicPop, TypeOK, WellTasked, Undisturbed, NEW t \in Threads, Claim(t)
    PROVE  Undisturbed'
<1>1. PICK s \in Subs : IsOldestQueued(s) /\ SetRunning(s) /\ GoTo(t, AfterPop(t), s)
  BY DEF Claim, PopQueuedSubmission, SelectQueued, MarkRunning, WellTasked
<1>2. Onward
  BY <1>1, OnwardRows DEF IsOldestQueued, Queued
<1>3. UNCHANGED adminVars
  BY DEF Claim, PopQueuedSubmission, SelectQueued, MarkRunning, WellTasked
<1>4. stage'[t] # "releasing" /\ task'[t] = s /\ status'[s] # "none"
  BY <1>1 DEF GoTo, AfterPop, SetRunning, TypeOK, StoreTypeOK
<1>5. \A u \in Threads : u # t => stage'[u] = stage[u] /\ task'[u] = task[u]
  BY <1>1 DEF GoTo, TypeOK
<1>6. QED
  BY <1>2, <1>3, <1>4, <1>5 DEF Undisturbed, Onward, WellTasked, adminVars

LEMMA UndisturbedHandle ==
    ASSUME TypeOK, WellTasked, Undisturbed, NEW t \in Slots, Handle(t)
    PROVE  Undisturbed'
<1>1. t \in Threads
  BY DEF Threads
<1>2. PICK st \in {"assigned", "fetched", "judging"} : GoTo(t, st, task[t])
  BY DEF Handle, HandleTask, FetchTask, StartJudging
<1>3. UNCHANGED rows /\ UNCHANGED adminVars /\ stage[t] # "idle"
  BY DEF Handle, HandleTask, FetchTask, StartJudging
<1>4. QED
  BY <1>1, <1>2, <1>3 DEF Undisturbed, GoTo, TypeOK, rows, adminVars

LEMMA UndisturbedReport ==
    ASSUME TypeOK, WellTasked, Undisturbed, NEW t \in Threads, Report(t)
    PROVE  Undisturbed'
<1>1. task[t] \in Subs /\ UNCHANGED adminVars
  BY DEF Report, CheckCancelled, UpdateSubmissionResult, Release, WellTasked
<1>2. CASE CheckCancelled(t)
  <2>1. GoTo(t, "checked", task[t]) /\ UNCHANGED rows /\ stage[t] # "idle"
    BY <1>1, <1>2 DEF CheckCancelled, Undisturbed
  <2>2. QED
    BY <1>1, <2>1 DEF Undisturbed, GoTo, TypeOK, rows, adminVars
<1>3. CASE UpdateSubmissionResult(t)
  <2>1. PICK p \in Points : StoreResult(task[t], p)
    BY <1>3 DEF UpdateSubmissionResult
  <2>2. Onward /\ status'[task[t]] = "judged"
    BY <1>1, <2>1, OnwardRows DEF StoreResult, TypeOK, StoreTypeOK
  <2>3. CASE Reset({t})
    BY <1>1, <2>2, <2>3, OnwardCarries DEF Reset
  <2>4. CASE GoTo(t, "releasing", task[t])
    BY <1>1, <2>2, <2>4 DEF Undisturbed, Onward, WellTasked, GoTo, TypeOK, adminVars
  <2>5. QED
    BY <1>3, <2>3, <2>4 DEF UpdateSubmissionResult
<1>4. CASE Release(t)
  BY <1>1, <1>4, OnwardRows, OnwardCarries DEF Release, Reset
<1>5. QED
  BY <1>2, <1>3, <1>4 DEF Report

LEMMA UndisturbedStep ==
    ASSUME AtomicPop, MaxAdmin = 0, TypeOK, WellTasked, Undisturbed, [Next]_vars
    PROVE  Undisturbed'
<1>1. ASSUME Onward, UNCHANGED adminVars,
             (\E S : Reset(S)) \/ UNCHANGED threadVars
      PROVE  Undisturbed'
  BY <1>1, OnwardCarries DEF Reset, threadVars
<1>2. ASSUME NEW s \in Subs, Submit(s) PROVE Undisturbed'
  BY <1>1, <1>2, OnwardRows DEF Submit
<1>3. ASSUME NEW t \in Threads, Lose(t) PROVE Undisturbed'
  BY <1>1, <1>3, OnwardRows DEF Lose, FetchTaskFails, UpdateFails, PostResultFails
<1>4. CASE Coordinate
  BY <1>1, <1>4, OnwardRows
  DEF Coordinate, HandleHeartbeat, HeartbeatExpires, BecomesOverdue, Reap, ReapFails,
      Requeue
<1>5. CASE CrashOrRestart
  BY <1>1, <1>5, OnwardRows
  DEF CrashOrRestart, WorkerCrash, WorkerRestart, WebCrash, WebRestart,
      CoordinatorCrash, CoordinatorRestart, CoordinatorRestartFails, Requeue
<1>6. CASE UNCHANGED vars
  BY <1>1, <1>6, OnwardRows DEF vars
<1>7. QED
  BY <1>2, <1>3, <1>4, <1>5, <1>6, NoAdminStep, UndisturbedClaim, UndisturbedHandle,
     UndisturbedReport
  DEF Next

LEMMA UndisturbedAlways ==
    ASSUME AtomicPop, MaxAdmin = 0
    PROVE  Spec => []Undisturbed
<1>1. Init => Undisturbed
  BY DEF Init, StoreInit, Undisturbed
<1>2. TypeOK /\ ClaimInv /\ Undisturbed /\ [Next]_vars => Undisturbed'
  BY UndisturbedStep DEF ClaimInv
<1>3. QED
  BY <1>1, <1>2, TypeCorrect, ClaimInvAlways, PTL DEF Spec

-----------------------------------------------------------------------------
(* RunningIsTracked, with the faults the coordinator is built to survive.  *)

\* The reaper's and the restart's UPDATE succeed, and judge loops do not lose their row.
SurvivableFaults ==
    FaultKinds \intersect {"reaper_error", "restart_error", "web_crash", "loop_error"} = {}

\* What keeps the row of thread t tracked without an assignment.
Tracks(t, s) == t \in Holders(s) /\ (t \in Loops \/ stage[t] = "popped")

LoopStages == \A t \in Loops : stage[t] \in {"idle", "judging", "checked"}

TrackInv == LoopStages /\ RunningIsTracked

LEMMA LoopStagesStep ==
    ASSUME AtomicPop, TypeOK, WellTasked, Undisturbed, LoopStages, [Next]_vars,
           ~Administrate
    PROVE  LoopStages'
<1>0. \A t \in Loops : t \notin Slots
  BY QueueAssumption
<1>1. ASSUME UNCHANGED threadVars PROVE LoopStages'
  BY <1>1 DEF LoopStages, threadVars
<1>2. ASSUME NEW S, Reset(S) PROVE LoopStages'
  BY <1>2 DEF LoopStages, Reset, TypeOK, Threads
<1>3. ASSUME NEW t \in Threads, NEW st, NEW s, GoTo(t, st, s),
             t \in Slots \/ st \in {"idle", "judging", "checked"}
      PROVE  LoopStages'
  BY <1>0, <1>3 DEF LoopStages, GoTo, TypeOK, Threads
<1>4. ASSUME NEW t \in Threads, Claim(t) PROVE LoopStages'
  <2>1. PICK s \in Subs : GoTo(t, AfterPop(t), s)
    BY <1>4 DEF Claim, PopQueuedSubmission, SelectQueued, MarkRunning, WellTasked
  <2>2. QED
    BY <1>3, <2>1 DEF AfterPop
<1>5. ASSUME NEW t \in Threads, Report(t) \/ Lose(t) PROVE LoopStages'
  <2>1. \/ \E S : Reset(S)
        \/ GoTo(t, "checked", task[t])
        \/ t \in Slots /\ GoTo(t, "releasing", task[t])
    BY <1>5
    DEF Report, CheckCancelled, UpdateSubmissionResult, Release, Lose, FetchTaskFails,
        UpdateFails, PostResultFails
  <2>2. QED
    BY <1>2, <1>3, <2>1
<1>6. ASSUME NEW t \in Slots, Handle(t) PROVE LoopStages'
  BY <1>3, <1>6 DEF Handle, HandleTask, FetchTask, StartJudging, Threads
<1>7. CASE Coordinate
  BY <1>1, <1>7
  DEF Coordinate, HandleHeartbeat, HeartbeatExpires, BecomesOverdue, Reap, ReapFails
<1>8. CASE CrashOrRestart
  BY <1>1, <1>2, <1>8
  DEF CrashOrRestart, WorkerCrash, WorkerRestart, WebCrash, WebRestart,
      CoordinatorCrash, CoordinatorRestart, CoordinatorRestartFails
<1>9. ASSUME NEW s \in Subs, Submit(s) PROVE LoopStages'
  BY <1>1, <1>9 DEF Submit
<1>10. CASE UNCHANGED vars
  BY <1>1, <1>10 DEF vars
<1>11. QED
  BY <1>4, <1>5, <1>6, <1>7, <1>8, <1>9, <1>10 DEF Next

\* A step keeps s tracked if it leaves a running row running, keeps its assignment and
\* keeps the threads that track it.
LEMMA StaysTracked ==
    ASSUME RunningIsTracked, NEW s \in Subs, status'[s] = "running", coordUp,
           status[s] = "running",
           assignments'[s] = assignments[s],
           \A t \in Threads : Tracks(t, s) => Tracks(t, s)'
    PROVE  \/ assignments'[s] # NoWorker
           \/ \E t \in Threads : Tracks(t, s)'
<1>1. assignments[s] # NoWorker \/ \E t \in Threads : Tracks(t, s)
  BY DEF RunningIsTracked, Tracks, Holders
<1>2. QED
  BY <1>1

LEMMA TrackedByClaim ==
    ASSUME AtomicPop, TypeOK, WellTasked, RunningIsTracked,
           NEW t \in Threads, Claim(t), NEW s \in Subs, coordUp', status'[s] = "running"
    PROVE  assignments'[s] # NoWorker \/ \E u \in Threads : Tracks(u, s)'
<1>1. PICK r \in Subs : SetRunning(r) /\ GoTo(t, AfterPop(t), r)
  BY DEF Claim, PopQueuedSubmission, SelectQueued, MarkRunning, WellTasked
<1>2. stage[t] = "idle" /\ UNCHANGED coordVars
  BY DEF Claim, PopQueuedSubmission, SelectQueued, MarkRunning, WellTasked, MayClaim
<1>3. CASE s = r
  <2>1. task'[t] = s /\ stage'[t] = AfterPop(t)
    BY <1>1, <1>3 DEF GoTo, TypeOK
  <2>2. Tracks(t, s)'
    BY <2>1 DEF Tracks, Holders, AfterPop, Claiming, Threads
  <2>3. QED
    BY <2>2
<1>4. CASE s # r
  <2>1. status[s] = "running"
    BY <1>1, <1>4 DEF SetRunning, TypeOK, StoreTypeOK
  <2>2. \A u \in Threads : Tracks(u, s) => Tracks(u, s)'
    BY <1>1, <1>2 DEF Tracks, Holders, Claiming, GoTo, TypeOK
  <2>3. QED
    BY <1>2, <2>1, <2>2, StaysTracked DEF coordVars
<1>5. QED
  BY <1>3, <1>4

LEMMA TrackedByHandle ==
    ASSUME TypeOK, WellTasked, RunningIsTracked,
           NEW t \in Slots, Handle(t), NEW s \in Subs, coordUp', status'[s] = "running"
    PROVE  assignments'[s] # NoWorker \/ \E u \in Threads : Tracks(u, s)'
<1>1. t \in Threads /\ t \notin Loops /\ status'[s] = status[s] /\ coordUp' = coordUp
  BY QueueAssumption
  DEF Threads, Handle, HandleTask, FetchTask, StartJudging, coordVars, rows
<1>2. CASE HandleTask(t) /\ s = task[t]
  <2>1. assignments'[s] = Owner[t]
    BY <1>2 DEF HandleTask, TypeOK
  <2>2. QED
    BY <2>1, QueueAssumption
<1>3. CASE HandleTask(t) /\ s # task[t]
  <2>1. assignments'[s] = assignments[s]
    BY <1>3 DEF HandleTask, TypeOK
  <2>2. \A u \in Threads : Tracks(u, s) => Tracks(u, s)'
    BY <1>1, <1>3 DEF HandleTask, Tracks, Holders, GoTo, TypeOK
  <2>3. QED
    BY <1>1, <2>1, <2>2, StaysTracked
<1>4. CASE FetchTask(t) \/ StartJudging(t)
  <2>1. assignments'[s] = assignments[s]
    BY <1>4 DEF FetchTask, StartJudging, coordVars
  <2>2. stage[t] \in {"assigned", "fetched"}
    BY <1>4 DEF FetchTask, StartJudging
  <2>3. \A u \in Threads : Tracks(u, s) => Tracks(u, s)'
    BY <1>1, <1>4, <2>2 DEF FetchTask, StartJudging, Tracks, Holders, GoTo, TypeOK
  <2>4. QED
    BY <1>1, <2>1, <2>3, StaysTracked
<1>5. QED
  BY <1>2, <1>3, <1>4 DEF Handle

LEMMA TrackedByReport ==
    ASSUME TypeOK, WellTasked, Undisturbed, RunningIsTracked,
           NEW t \in Threads, Report(t), NEW s \in Subs, coordUp', status'[s] = "running"
    PROVE  assignments'[s] # NoWorker \/ \E u \in Threads : Tracks(u, s)'
<1>1. CASE CheckCancelled(t)
  <2>1. task[t] \in Subs /\ stage[t] = "judging"
    BY <1>1 DEF CheckCancelled, WellTasked
  <2>2. GoTo(t, "checked", task[t])
    BY <1>1, <2>1 DEF CheckCancelled, Undisturbed
  <2>3. UNCHANGED rows /\ UNCHANGED coordVars
    BY <1>1 DEF CheckCancelled
  <2>4. \A u \in Threads : Tracks(u, s) => Tracks(u, s)'
    BY <2>1, <2>2 DEF Tracks, Holders, Claiming, GoTo, TypeOK
  <2>5. QED
    BY <2>3, <2>4, StaysTracked DEF rows, coordVars
<1>2. CASE UpdateSubmissionResult(t)
  <2>1. UNCHANGED coordVars /\ task[t] \in Subs
    BY <1>2 DEF UpdateSubmissionResult, WellTasked
  <2>2. status' = [status EXCEPT ![task[t]] = "judged"]
    BY <1>2 DEF UpdateSubmissionResult, StoreResult
  <2>3. s # task[t] /\ status[s] = "running"
    BY <2>1, <2>2 DEF TypeOK, StoreTypeOK
  <2>4. \A u \in Threads : Tracks(u, s) => Tracks(u, s)'
    BY <1>2, <2>3
    DEF UpdateSubmissionResult, Tracks, Holders, GoTo, Reset, TypeOK
  <2>5. QED
    BY <2>1, <2>3, <2>4, StaysTracked DEF coordVars
<1>3. CASE Release(t)
  <2>1. status'[s] = status[s] /\ coordUp' = coordUp
    BY <1>3 DEF Release, rows
  <2>2. s # task[t]
    BY <1>3, <2>1 DEF Release, Undisturbed
  <2>3. assignments'[s] = assignments[s]
    BY <1>3, <2>2 DEF Release, Forget, TypeOK
  <2>4. \A u \in Threads : Tracks(u, s) => Tracks(u, s)'
    BY <1>3, <2>2 DEF Release, Tracks, Holders, Reset, TypeOK
  <2>5. QED
    BY <2>1, <2>3, <2>4, StaysTracked
<1>4. QED
  BY <1>1, <1>2, <1>3 DEF Report

LEMMA TrackedByLose ==
    ASSUME SurvivableFaults, TypeOK, LoopStages, RunningIsTracked,
           NEW t \in Threads, Lose(t), NEW s \in Subs, coordUp', status'[s] = "running"
    PROVE  assignments'[s] # NoWorker \/ \E u \in Threads : Tracks(u, s)'
<1>1. UNCHANGED rows /\ UNCHANGED coordVars /\ Reset({t})
  BY DEF Lose, FetchTaskFails, UpdateFails, PostResultFails
<1>2. ~Fault("loop_error")
  BY DEF SurvivableFaults, Fault
<1>3. t \notin Loops
  BY <1>2, QueueAssumption
  DEF Lose, FetchTaskFails, UpdateFails, PostResultFails, LoopStages
<1>4. stage[t] # "popped"
  BY DEF Lose, FetchTaskFails, UpdateFails, PostResultFails
<1>5. \A u \in Threads : Tracks(u, s) => Tracks(u, s)'
  BY <1>1, <1>3, <1>4 DEF Tracks, Holders, Reset, TypeOK
<1>6. QED
  BY <1>1, <1>5, StaysTracked DEF rows, coordVars

LEMMA TrackedByCoordinate ==
    ASSUME SurvivableFaults, TypeOK, RunningIsTracked,
           Coordinate, NEW s \in Subs, coordUp', status'[s] = "running"
    PROVE  assignments'[s] # NoWorker \/ \E u \in Threads : Tracks(u, s)'
<1>1. UNCHANGED threadVars /\ coordUp' = coordUp
  BY DEF Coordinate, HandleHeartbeat, HeartbeatExpires, BecomesOverdue, Reap, ReapFails
<1>2. \A u \in Threads : Tracks(u, s) => Tracks(u, s)'
  BY <1>1 DEF Tracks, Holders, threadVars
<1>3. \A r : ~ReapFails(r)
  BY DEF ReapFails, Fault, SurvivableFaults
<1>4. ASSUME NEW r \in Subs, Reap(r)
      PROVE  status[s] = "running" /\ assignments'[s] = assignments[s]
  <2>1. s # r /\ status[s] = "running"
    BY <1>4 DEF Reap, Requeue, RequeueRunningRows, TypeOK, StoreTypeOK
  <2>2. QED
    BY <1>4, <2>1 DEF Reap, Forget, TypeOK
<1>5. status[s] = "running" /\ assignments'[s] = assignments[s]
  BY <1>3, <1>4 DEF Coordinate, HandleHeartbeat, HeartbeatExpires, BecomesOverdue, rows
<1>6. QED
  BY <1>1, <1>2, <1>5, StaysTracked

LEMMA TrackedByCrash ==
    ASSUME SurvivableFaults, TypeOK, RunningIsTracked,
           CrashOrRestart, NEW s \in Subs, coordUp', status'[s] = "running"
    PROVE  assignments'[s] # NoWorker \/ \E u \in Threads : Tracks(u, s)'
<1>1. ~CoordinatorCrash
  BY DEF CoordinatorCrash
<1>2. ~CoordinatorRestart
  BY DEF CoordinatorRestart, Requeue, RequeueRunningRows, TypeOK, StoreTypeOK
<1>3. ~CoordinatorRestartFails /\ \A l : ~WebCrash(l)
  BY DEF CoordinatorRestartFails, WebCrash, Fault, SurvivableFaults
<1>4. ASSUME NEW w \in Workers, WorkerCrash(w)
      PROVE  \A u \in Threads : Tracks(u, s) => Tracks(u, s)'
  BY <1>4, QueueAssumption DEF WorkerCrash, Tracks, Holders, Reset, TypeOK
<1>5. ASSUME UNCHANGED threadVars
      PROVE  \A u \in Threads : Tracks(u, s) => Tracks(u, s)'
  BY <1>5 DEF Tracks, Holders, threadVars
<1>6. UNCHANGED rows /\ UNCHANGED coordVars
  BY <1>1, <1>2, <1>3 DEF CrashOrRestart, WorkerCrash, WorkerRestart, WebRestart
<1>7. \A u \in Threads : Tracks(u, s) => Tracks(u, s)'
  BY <1>1, <1>2, <1>3, <1>4, <1>5 DEF CrashOrRestart, WorkerRestart, WebRestart
<1>8. QED
  BY <1>6, <1>7, StaysTracked DEF rows, coordVars

LEMMA TrackStep ==
    ASSUME AtomicPop, MaxAdmin = 0, SurvivableFaults,
           TypeOK, WellTasked, Undisturbed, TrackInv, [Next]_vars
    PROVE  TrackInv'
<1>1. ~Administrate
  BY NoAdminStep
<1>2. LoopStages'
  BY <1>1, LoopStagesStep DEF TrackInv
<1>3. SUFFICES ASSUME coordUp', NEW s \in Subs, status'[s] = "running"
               PROVE  assignments'[s] # NoWorker \/ \E t \in Threads : Tracks(t, s)'
  BY <1>2 DEF TrackInv, RunningIsTracked, Tracks, Holders
<1>4. RunningIsTracked /\ LoopStages
  BY DEF TrackInv
<1>5. ASSUME NEW r \in Subs, Submit(r)
      PROVE  assignments'[s] # NoWorker \/ \E t \in Threads : Tracks(t, s)'
  <2>1. status[s] = "running"
    BY <1>3, <1>5 DEF Submit, CreateSubmission, TypeOK, StoreTypeOK
  <2>2. \A t \in Threads : Tracks(t, s) => Tracks(t, s)'
    BY <1>5 DEF Submit, Tracks, Holders, threadVars
  <2>3. QED
    BY <1>3, <1>4, <1>5, <2>1, <2>2, StaysTracked DEF Submit, coordVars
<1>6. CASE UNCHANGED vars
  <2>1. \A t \in Threads : Tracks(t, s) => Tracks(t, s)'
    BY <1>6 DEF vars, Tracks, Holders, threadVars
  <2>2. QED
    BY <1>3, <1>4, <1>6, <2>1, StaysTracked DEF vars, rows, coordVars
<1>7. QED
  BY <1>1, <1>3, <1>4, <1>5, <1>6, TrackedByClaim, TrackedByHandle, TrackedByReport,
     TrackedByLose, TrackedByCoordinate, TrackedByCrash
  DEF Next

(***************************************************************************)
(* On SQLite, without administrators and with the faults the coordinator   *)
(* survives, no running row escapes the reaper, for every number of        *)
(* workers, slots, loops and lost messages.                                *)
(***************************************************************************)
THEOREM SerialPopRunningIsTracked ==
    ASSUME AtomicPop, MaxAdmin = 0, SurvivableFaults
    PROVE  Spec => []RunningIsTracked
<1>1. Init => TrackInv
  BY DEF Init, StoreInit, TrackInv, LoopStages, RunningIsTracked, Threads
<1>2. TypeOK /\ ClaimInv /\ Undisturbed /\ TrackInv /\ [Next]_vars => TrackInv'
  BY TrackStep DEF ClaimInv
<1>3. TrackInv => RunningIsTracked
  BY DEF TrackInv
<1>4. QED
  BY <1>1, <1>2, <1>3, TypeCorrect, ClaimInvAlways, UndisturbedAlways, PTL DEF Spec

-----------------------------------------------------------------------------
(* The queue implements SubmissionView.                                    *)

PhaseOf(st) ==
    CASE st = "none" -> "absent"
      [] st \in {"queued", "running"} -> "waiting"
      [] OTHER -> "judged"

LEMMA PhaseIs ==
    /\ Phase = [s \in Subs |-> PhaseOf(status[s])]
    /\ Phase' = [s \in Subs |-> PhaseOf(status'[s])]
  BY DEF Phase, PhaseOf

\* A row statement that touches no row's phase and no score is a stutter of the view.
LEMMA ViewStutter ==
    ASSUME \A s \in Subs : PhaseOf(status'[s]) = PhaseOf(status[s]), score' = score
    PROVE  UNCHANGED View!viewVars
<1>1. Phase' = Phase
  BY PhaseIs
<1>2. QED
  BY <1>1 DEF View!viewVars

LEMMA ViewArrive ==
    ASSUME TypeOK, NEW s \in Subs, CreateSubmission(s)
    PROVE  View!Arrive(s)
<1>1. Phase[s] = "absent"
  BY PhaseIs DEF PhaseOf, CreateSubmission
<1>2. Phase' = [Phase EXCEPT ![s] = "waiting"]
  <2>1. \A r \in Subs : PhaseOf(status'[r]) =
                            IF r = s THEN "waiting" ELSE PhaseOf(status[r])
    BY DEF PhaseOf, CreateSubmission, TypeOK, StoreTypeOK
  <2>2. QED
    BY <2>1, PhaseIs
<1>3. QED
  BY <1>1, <1>2 DEF View!Arrive, CreateSubmission

LEMMA ViewFinish ==
    ASSUME TypeOK, NEW s \in Subs, NEW p \in Points, StoreResult(s, p), status[s] # "none"
    PROVE  View!Finish(s)
<1>1. Phase[s] \in {"waiting", "judged"}
  BY PhaseIs DEF PhaseOf
<1>2. Phase' = [Phase EXCEPT ![s] = "judged"]
  <2>1. \A r \in Subs : PhaseOf(status'[r]) =
                            IF r = s THEN "judged" ELSE PhaseOf(status[r])
    BY DEF PhaseOf, StoreResult, TypeOK, StoreTypeOK
  <2>2. QED
    BY <2>1, PhaseIs
<1>3. score' = [score EXCEPT ![s] = p]
  BY DEF StoreResult
<1>4. QED
  BY <1>1, <1>2, <1>3 DEF View!Finish

\* A step that stores a result stores it for a row that exists.
LEMMA StoresExisting ==
    ASSUME AtomicPop, WellTasked, Undisturbed, [Next]_vars, ~Administrate
    PROVE  \/ UNCHANGED rows
           \/ \E s \in Subs : CreateSubmission(s)
           \/ \E s \in Subs : status[s] = "queued" /\ SetRunning(s)
           \/ \E s \in Subs : \E p \in Points : StoreResult(s, p) /\ status[s] # "none"
           \/ \E S : RequeueRunningRows(S)
<1> DEFINE Goal ==
           \/ UNCHANGED rows
           \/ \E s \in Subs : CreateSubmission(s)
           \/ \E s \in Subs : status[s] = "queued" /\ SetRunning(s)
           \/ \E s \in Subs : \E p \in Points : StoreResult(s, p) /\ status[s] # "none"
           \/ \E S : RequeueRunningRows(S)
<1>1. ASSUME NEW t \in Threads, Claim(t) PROVE Goal
  BY <1>1
  DEF Claim, PopQueuedSubmission, SelectQueued, MarkRunning, IsOldestQueued, Queued,
      WellTasked
<1>2. ASSUME NEW t \in Threads, UpdateSubmissionResult(t) PROVE Goal
  <2>1. task[t] \in Subs /\ status[task[t]] # "none"
    BY <1>2 DEF UpdateSubmissionResult, WellTasked, Undisturbed
  <2>2. QED
    BY <1>2, <2>1 DEF UpdateSubmissionResult
<1>3. ASSUME NEW t \in Threads, CheckCancelled(t) \/ Release(t) \/ Lose(t) PROVE Goal
  BY <1>3
  DEF CheckCancelled, Release, Lose, FetchTaskFails, UpdateFails, PostResultFails
<1>4. ASSUME NEW t \in Slots, Handle(t) PROVE Goal
  BY <1>4 DEF Handle, HandleTask, FetchTask, StartJudging
<1>5. CASE Coordinate
  BY <1>5
  DEF Coordinate, HandleHeartbeat, HeartbeatExpires, BecomesOverdue, Reap, ReapFails,
      Requeue
<1>6. CASE CrashOrRestart
  BY <1>6
  DEF CrashOrRestart, WorkerCrash, WorkerRestart, WebCrash, WebRestart,
      CoordinatorCrash, CoordinatorRestart, CoordinatorRestartFails, Requeue
<1>7. ASSUME NEW s \in Subs, Submit(s) PROVE Goal
  BY <1>7 DEF Submit
<1>8. CASE UNCHANGED vars
  BY <1>8 DEF vars
<1>9. QED
  BY <1>1, <1>2, <1>3, <1>4, <1>5, <1>6, <1>7, <1>8 DEF Next, Report

LEMMA ViewStep ==
    ASSUME AtomicPop, MaxAdmin = 0, TypeOK, WellTasked, Undisturbed, [Next]_vars
    PROVE  View!ViewNext \/ UNCHANGED View!viewVars
<1>1. CASE UNCHANGED rows
  BY <1>1, ViewStutter DEF rows
<1>2. ASSUME NEW s \in Subs, CreateSubmission(s) PROVE View!ViewNext
  BY <1>2, ViewArrive DEF View!ViewNext
<1>3. ASSUME NEW s \in Subs, NEW p \in Points, StoreResult(s, p), status[s] # "none"
      PROVE  View!ViewNext
  BY <1>3, ViewFinish DEF View!ViewNext
<1>4. ASSUME NEW s \in Subs, status[s] = "queued", SetRunning(s)
      PROVE  UNCHANGED View!viewVars
  <2>1. \A r \in Subs : PhaseOf(status'[r]) = PhaseOf(status[r])
    BY <1>4 DEF SetRunning, PhaseOf, TypeOK, StoreTypeOK
  <2>2. QED
    BY <1>4, <2>1, ViewStutter DEF SetRunning
<1>5. ASSUME NEW S, RequeueRunningRows(S) PROVE UNCHANGED View!viewVars
  <2>1. \A r \in Subs : PhaseOf(status'[r]) = PhaseOf(status[r])
    BY <1>5 DEF RequeueRunningRows, PhaseOf, TypeOK, StoreTypeOK
  <2>2. QED
    BY <1>5, <2>1, ViewStutter DEF RequeueRunningRows
<1>6. QED
  BY <1>1, <1>2, <1>3, <1>4, <1>5, NoAdminStep, StoresExisting

LEMMA ViewStart == Init => View!ViewInit
<1>1. Init => Phase = [s \in Subs |-> "absent"]
  BY DEF Init, StoreInit, Phase
<1>2. QED
  BY <1>1 DEF Init, StoreInit, View!ViewInit

(***************************************************************************)
(* On SQLite and without administrators every behaviour of the queue, with *)
(* whatever crashes, lost messages, failed UPDATEs and requeues, is one of *)
(* SubmissionView: a submission waits, gets a verdict and never goes back. *)
(***************************************************************************)
THEOREM SerialPopImplementsView ==
    ASSUME AtomicPop, MaxAdmin = 0
    PROVE  Spec => View!ViewSafety
<1>1. TypeOK /\ ClaimInv /\ Undisturbed /\ [Next]_vars => [View!ViewNext]_(View!viewVars)
  BY ViewStep DEF ClaimInv
<1>2. QED
  BY <1>1, ViewStart, TypeCorrect, ClaimInvAlways, UndisturbedAlways, PTL
  DEF Spec, View!ViewSafety
=============================================================================
