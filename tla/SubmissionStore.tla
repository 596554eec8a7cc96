--------------------------- MODULE SubmissionStore ---------------------------
(***************************************************************************)
(* The `submissions` and `test_results` tables and the statements that the *)
(* judge, the coordinator and the administrators run on them               *)
(* (sql_service/service.go, sql_service/admin.go).                         *)
(*                                                                         *)
(* A row keeps what the properties tell apart: its status, the total score *)
(* that contest rankings add up, the disqualified flag and how many        *)
(* batches of test results are stored for it.  Every verdict a judge run   *)
(* can end with ("accepted", "not accepted", "internal_error", ...) is the *)
(* one status "judged".  RestoreScore writes "not accepted", so it writes  *)
(* "judged" here as well.                                                  *)
(***************************************************************************)
EXTENDS Naturals, FiniteSets

CONSTANTS NumSubs,  \* how many submissions may be created
          Points    \* the total scores a judge run can end with

ASSUME StoreAssumption ==
    /\ NumSubs \in Nat \ {0}
    /\ Points \subseteq Nat
    /\ Points # {}

\* Primary keys.  They also stand for created_at: rows are created in order.
Subs == 1..NumSubs

Status == {"none", "queued", "running", "judged", "cancelled", "score_cancelled"}

\* Stored result batches are counted up to "more than one".
ResultsCap == 2

VARIABLES status, score, disqualified, results

rows == <<status, score, disqualified, results>>

StoreTypeOK ==
    /\ status \in [Subs -> Status]
    /\ score \in [Subs -> Points \union {0}]
    /\ disqualified \in [Subs -> BOOLEAN]
    /\ results \in [Subs -> 0..ResultsCap]

StoreInit ==
    /\ status = [s \in Subs |-> "none"]
    /\ score = [s \in Subs |-> 0]
    /\ disqualified = [s \in Subs |-> FALSE]
    /\ results = [s \in Subs |-> 0]

-----------------------------------------------------------------------------
(* Statements of sql_service/service.go                                    *)

CreateSubmission(s) ==
    /\ status[s] = "none"
    /\ \A r \in 1..(s - 1) : status[r] # "none"
    /\ status' = [status EXCEPT ![s] = "queued"]
    /\ UNCHANGED <<score, disqualified, results>>

Queued == {s \in Subs : status[s] = "queued"}

\* WHERE status = 'queued' ORDER BY created_at ASC, id ASC LIMIT 1
IsOldestQueued(s) == s \in Queued /\ \A r \in Queued : s <= r

\* UPDATE ... SET status = 'running' WHERE id = s: the statement PopQueuedSubmission
\* ends with names the row by its key only, so it applies whatever the status is.
SetRunning(s) ==
    /\ status' = [status EXCEPT ![s] = "running"]
    /\ UNCHANGED <<score, disqualified, results>>

\* Mutated form: the scores and results are stored, the status is left.
StoreWithoutStatus(s, p) ==
    /\ score' = [score EXCEPT ![s] = p]
    /\ results' = [results EXCEPT ![s] = IF @ < ResultsCap THEN @ + 1 ELSE @]
    /\ UNCHANGED <<status, disqualified>>

\* The transaction of UpdateSubmissionResult: the row is overwritten whatever its
\* status and its flag are, and the batch is added to those already stored.
StoreResult(s, p) ==
    /\ status' = [status EXCEPT ![s] = "judged"]
    /\ score' = [score EXCEPT ![s] = p]
    /\ results' = [results EXCEPT ![s] = IF @ < ResultsCap THEN @ + 1 ELSE @]
    /\ UNCHANGED disqualified

-----------------------------------------------------------------------------
(* Statements of judge/coordinator.go                                      *)

\* Mutated form: the UPDATE matches no running row.
RequeueNothing(S) == UNCHANGED rows

\* UPDATE ... SET status = 'queued' WHERE status = 'running' AND id IN S
RequeueRunningRows(S) ==
    /\ status' = [s \in Subs |-> IF s \in S /\ status[s] = "running"
                                 THEN "queued" ELSE status[s]]
    /\ UNCHANGED <<score, disqualified, results>>

-----------------------------------------------------------------------------
(* Statements of sql_service/admin.go                                      *)

\* Mutated form: the score column is not reset.
RejudgeKeepsScore(S) ==
    /\ status' = [s \in Subs |-> IF s \in S THEN "queued" ELSE status[s]]
    /\ disqualified' = [s \in Subs |-> s \notin S /\ disqualified[s]]
    /\ results' = [s \in Subs |-> IF s \in S THEN 0 ELSE results[s]]
    /\ UNCHANGED score

\* One transaction deletes the stored results and puts the rows of S back in the
\* queue, whatever their statuses are.
RejudgeRows(S) ==
    /\ status' = [s \in Subs |-> IF s \in S THEN "queued" ELSE status[s]]
    /\ score' = [s \in Subs |-> IF s \in S THEN 0 ELSE score[s]]
    /\ disqualified' = [s \in Subs |-> s \notin S /\ disqualified[s]]
    /\ results' = [s \in Subs |-> IF s \in S THEN 0 ELSE results[s]]

CancelEvaluation(s) ==
    /\ status[s] \in {"queued", "running"}
    /\ status' = [status EXCEPT ![s] = "cancelled"]
    /\ UNCHANGED <<score, disqualified, results>>

CancelScore(s) ==
    /\ status' = [status EXCEPT ![s] = "score_cancelled"]
    /\ score' = [score EXCEPT ![s] = 0]
    /\ disqualified' = [disqualified EXCEPT ![s] = TRUE]
    /\ UNCHANGED results

RestoreScore(s) ==
    /\ status' = [status EXCEPT ![s] = "judged"]
    /\ disqualified' = [disqualified EXCEPT ![s] = FALSE]
    /\ UNCHANGED <<score, results>>

\* WHERE status NOT IN ('cancelled', 'score_cancelled')
Rejudgeable == {s \in Subs : status[s] \notin {"none", "cancelled", "score_cancelled"}}

=============================================================================
