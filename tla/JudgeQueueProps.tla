--------------------------- MODULE JudgeQueueProps ---------------------------
(***************************************************************************)
(* What the judge queue is expected to guarantee.                          *)
(***************************************************************************)
EXTENDS JudgeQueue

(***************************************************************************)
(* A row that never went back to the queue under an unfinished claim has   *)
(* at most one thread on it: neither two web loops nor a loop and a worker *)
(* get the same submission from PopQueuedSubmission.                       *)
(***************************************************************************)
ClaimedOnce ==
    \A s \in Subs \ superseded : \A t, u \in Holders(s) : t = u

(***************************************************************************)
(* Such a row never stores two batches of test results: only a requeue     *)
(* (reaper, coordinator restart, rejudge) that overtakes a running judge   *)
(* can make UpdateSubmissionResult append a second batch.                  *)
(***************************************************************************)
OneBatch == \A s \in Subs \ superseded : results[s] <= 1

(***************************************************************************)
(* A row that waits for its verdict, or was cancelled before it got one,   *)
(* shows nothing of an earlier judgement: no points for the ranking, no    *)
(* test results, no disqualification.                                      *)
(***************************************************************************)
WaitingIsClean ==
    \A s \in Subs : status[s] \in {"none", "queued", "running", "cancelled"} =>
        score[s] = 0 /\ results[s] = 0 /\ ~disqualified[s]

(***************************************************************************)
(* Points in the ranking are backed by stored test results, however the    *)
(* late results, requeues and administrators' operations interleave.       *)
(***************************************************************************)
ScoreBacked == \A s \in Subs : score[s] > 0 => results[s] > 0

(***************************************************************************)
(* While the coordinator runs, a running row is either held by a loop, or  *)
(* about to be recorded by handleTask, or in the table of assignments,     *)
(* where the reaper finds it if its worker dies: handleTask "records the   *)
(* assignment so a dead worker's job can be re-queued later".              *)
(***************************************************************************)
RunningIsTracked ==
    coordUp => \A s \in Subs : status[s] = "running" =>
        \/ assignments[s] # NoWorker
        \/ \E t \in Holders(s) : t \in Loops \/ stage[t] = "popped"

(***************************************************************************)
(* A cancelled row changes its status only through an administrator or     *)
(* through a result whose handler had read the status before the           *)
(* cancellation.                                                           *)
(***************************************************************************)
CancelHolds ==
    [][\A s \in Subs : status[s] = "cancelled" /\ status'[s] # "cancelled" =>
        \/ adminOps' # adminOps \/ batch' # batch
        \/ \E t \in Threads : stage[t] = "checked" /\ task[t] = s]_vars

(***************************************************************************)
(* Every submission in the queue, or running, is judged or withdrawn in    *)
(* the end, whatever crashes and lost messages come between, as long as    *)
(* docker answers the judge.                                               *)
(***************************************************************************)
EventuallyDecided ==
    \A s \in Subs : status[s] \in {"queued", "running"} ~>
                    status[s] \in {"judged", "cancelled", "score_cancelled"}

(***************************************************************************)
(* Without administrators the queue implements SubmissionView.             *)
(***************************************************************************)
Phase ==
    [s \in Subs |-> CASE status[s] = "none" -> "absent"
                      [] status[s] \in {"queued", "running"} -> "waiting"
                      [] OTHER -> "judged"]

View == INSTANCE SubmissionView
            WITH Rows <- Subs, Totals <- Points, phase <- Phase, points <- score

ImplementsView == View!ViewSpec

-----------------------------------------------------------------------------
(* The inductive strengthening of ClaimedOnce and OneBatch.                *)

\* A busy thread has a task, and with serial claims no thread is between the read of a
\* row and its mark.
WellTasked ==
    \A t \in Threads : /\ stage[t] # "idle" => task[t] \in Subs
                       /\ AtomicPop => stage[t] # "selected"

\* An unfinished claim excludes other claims, keeps the row out of the queue and has
\* not stored anything.
SoleClaim(s) ==
    s \notin superseded =>
        /\ \A t \in Holders(s) :
            /\ \A u \in Holders(s) : t = u
            /\ status[s] \notin {"none", "queued"}
            /\ results[s] = 0
        /\ results[s] <= 1

ClaimInv == WellTasked /\ WaitingIsClean /\ \A s \in Subs : SoleClaim(s)

-----------------------------------------------------------------------------
(* What comments and documents say, and the code does not do.              *)

(***************************************************************************)
(* "Old test results are removed first to avoid duplicates": no submission *)
(* shows its test results twice.                                           *)
(***************************************************************************)
NoDuplicateResults == \A s \in Subs : results[s] <= 1

(***************************************************************************)
(* A result that arrives after the cancellation is discarded and "the      *)
(* status stays cancelled": only administrators change a cancelled row.    *)
(***************************************************************************)
CancelledStays ==
    [][\A s \in Subs : status[s] = "cancelled" /\ status'[s] # "cancelled" =>
        adminOps' # adminOps \/ batch' # batch]_vars

(***************************************************************************)
(* A disqualified submission keeps its record and is not counted in        *)
(* rankings, which add up the score column.                                *)
(***************************************************************************)
DisqualifiedNotCounted == \A s \in Subs : disqualified[s] => score[s] = 0

(***************************************************************************)
(* A whole-problem rejudge "never silently restores a disqualified score". *)
(***************************************************************************)
ProblemRejudgeSpares ==
    [][RejudgeProblemCommit => \A s \in Subs : disqualified[s] => disqualified'[s]]_vars

(***************************************************************************)
(* The reaper works "so a crashed worker cannot permanently stall a        *)
(* submission".                                                            *)
(***************************************************************************)
NeverStalled == \A s \in Subs : status[s] = "running" ~> status[s] # "running"
=============================================================================
