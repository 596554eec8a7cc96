------------------------------- MODULE Contests -------------------------------
(***************************************************************************)
(* A contest from its creation to its settlement, over the submissions     *)
(* that a web process's judge loop judges and administrators change        *)
(* (sql_service/contest.go, sql_service/rating.go).                        *)
(*                                                                         *)
(* The leaderboard is computed from the rows whenever somebody asks; the   *)
(* settlement computes it once, in steps, and keeps what it saw.  Ratings, *)
(* several contests, rebuilds and DeleteContest are in Rating; claims in   *)
(* two statements, workers and the coordinator are in JudgeQueue.          *)
(***************************************************************************)
EXTENDS SubmissionStore, FiniteSetsExt, Functions

CONSTANTS
    NumUsers,
    Members,     \* the users whose account has not been removed
    Problems,
    Collections, \* the sets of problems an editor may make a contest of
    MaxTroubles  \* bound on administrator operations and failures together

\* A user is numbered by the place of the name among the names.
Users == 1..NumUsers

ASSUME ContestsAssumption ==
    /\ NumUsers \in Nat
    /\ Members \subseteq Users
    /\ Collections \subseteq SUBSET Problems
    /\ MaxTroubles \in Nat

VARIABLES
    clock,       \* where the time is in the window of the contest
    created,     \* the row of the contest is there
    linked,      \* contest_problems
    entry,       \* each submission's user and problem
    sent,        \* created_at: where the clock was
    judge, task, \* the judge loop: its place and its submission
    settlement,  \* how far the ticker's settlement has come
    board,       \* the leaderboard it has read
    history,     \* contest_rating_histories
    edits, faults, \* how many of each have happened
    quiet        \* ghost: the contest was decided when its settlement began, and no
                 \* administrator has changed a submission since

contestVars == <<clock, created, linked, entry, sent>>
judgeVars == <<judge, task>>
settleVars == <<settlement, board, history>>
vars == <<rows, contestVars, judgeVars, settleVars, edits, faults, quiet>>

Empty == [x \in {} |-> 0]

Init ==
    /\ StoreInit
    /\ clock = "before"
    /\ created = FALSE
    /\ linked = {}
    /\ entry = [s \in Subs |-> <<>>]
    /\ sent = [s \in Subs |-> "none"]
    /\ judge = "idle"
    /\ task = 0
    /\ settlement = "due"
    /\ board = Empty
    /\ history = {}
    /\ edits = 0
    /\ faults = 0
    /\ quiet = TRUE

Made == {s \in Subs : status[s] # "none"}
Of(p) == {s \in Made : entry[s][2] = p}

-----------------------------------------------------------------------------
(* The contest and its submissions                                         *)

ContestStarts ==
    /\ clock = "before"
    /\ clock' = "running"
    /\ UNCHANGED <<rows, created, linked, entry, sent, judgeVars, settleVars, edits, faults, quiet>>

ContestEnds ==
    /\ clock = "running"
    /\ clock' = "ended"
    /\ UNCHANGED <<rows, created, linked, entry, sent, judgeVars, settleVars, edits, faults, quiet>>

\* Both ends of the window are the editor's, and may be in the past.
CreateContest ==
    /\ ~created
    /\ created' = TRUE
    /\ linked' \in Collections
    /\ UNCHANGED <<rows, clock, entry, sent, judgeVars, settleVars, edits, faults, quiet>>

\* Nothing asks whether the user is in the contest or the contest is running.
Submit ==
    \E s \in Subs, u \in Users, p \in Problems :
        /\ CreateSubmission(s)
        /\ entry' = [entry EXCEPT ![s] = <<u, p>>]
        /\ sent' = [sent EXCEPT ![s] = clock]
        /\ UNCHANGED <<clock, created, linked, judgeVars, settleVars,
                       edits, faults, quiet>>

-----------------------------------------------------------------------------
(* The judge loop                                                          *)

Judge(place, s) == judge' = place /\ task' = s

PopQueuedSubmission ==
    /\ judge = "idle"
    /\ \E s \in Subs : IsOldestQueued(s) /\ SetRunning(s) /\ Judge("judging", s)
    /\ UNCHANGED <<contestVars, settleVars, edits, faults, quiet>>

\* The result of a submission that is now cancelled is dropped.
CheckCancelled ==
    /\ judge = "judging"
    /\ IF status[task] = "cancelled" THEN Judge("idle", 0) ELSE Judge("checked", task)
    /\ UNCHANGED <<rows, contestVars, settleVars, edits, faults, quiet>>

UpdateSubmissionResult ==
    /\ judge = "checked"
    /\ \E p \in Points : StoreResult(task, p)
    /\ Judge("idle", 0)
    /\ UNCHANGED <<contestVars, settleVars, edits, faults, quiet>>

\* processJob ignores the error.
UpdateFails ==
    /\ judge = "checked"
    /\ edits + faults < MaxTroubles
    /\ faults' = faults + 1
    /\ Judge("idle", 0)
    /\ UNCHANGED <<rows, contestVars, settleVars, edits, quiet>>

-----------------------------------------------------------------------------
(* GetContestLeaderboard                                                   *)

\* Mutated form: what is submitted after the end counts too.
InWindowOpenEnded(s) == sent[s] \in {"running", "ended"}

\* StartAt <= created_at <= EndAt
InWindow(s) == sent[s] = "running"

Entered(u, p) == {s \in Made : InWindow(s) /\ entry[s] = <<u, p>>}
Tried(u) == {p \in linked : Entered(u, p) # {}}
Contestants == {u \in Users : Tried(u) # {}}

\* The latest submission counts, whatever its status is.
Scores(u) == [p \in Tried(u) |-> score[Max(Entered(u, p))]]

Leaderboard == [u \in Contestants |-> SumFunction(Scores(u))]

-----------------------------------------------------------------------------
(* CalculateContestRating                                                  *)

\* What a late result or an administrator can still change
Decided(s) == status[s] \notin {"queued", "running"} /\ task # s
AllDecided == \A s \in Made : InWindow(s) /\ entry[s][2] \in linked => Decided(s)

\* Mutated form: nobody asks whether the contest has ended.
MarkSettledEarly ==
    /\ created
    /\ settlement = "due"
    /\ settlement' = "marked"
    /\ quiet' = AllDecided
    /\ UNCHANGED <<rows, contestVars, judgeVars, board, history, edits, faults>>

\* The flag is set first, and never reset when the rest fails.
MarkSettled ==
    /\ created /\ clock = "ended"
    /\ settlement = "due"
    /\ settlement' = "marked"
    /\ quiet' = AllDecided
    /\ UNCHANGED <<rows, contestVars, judgeVars, board, history, edits, faults>>

\* Mutated form: the settlement goes on with an empty leaderboard.
ReadLeaderboardAny ==
    /\ settlement = "marked"
    /\ board' = Leaderboard
    /\ settlement' = "read"
    /\ UNCHANGED <<rows, contestVars, judgeVars, history, edits, faults, quiet>>

\* An empty leaderboard is an error; the average rating is a division by its length.
ReadLeaderboard ==
    /\ settlement = "marked"
    /\ board' = Leaderboard
    /\ settlement' = IF Contestants = {} THEN "over" ELSE "read"
    /\ UNCHANGED <<rows, contestVars, judgeVars, history, edits, faults, quiet>>

\* By total, and by name where totals are equal
Ahead(u, v) == board[u] > board[v] \/ (board[u] = board[v] /\ u < v)
Sorted == CHOOSE s \in [1..Cardinality(DOMAIN board) -> DOMAIN board] :
            \A i, j \in DOMAIN s : i < j => Ahead(s[i], s[j])

\* Mutated form: equal totals do not share a rank.
RankingsUnshared == [i \in DOMAIN Sorted |-> i]

Rankings ==
    LET rank[i \in DOMAIN Sorted] ==
            IF i > 1 /\ board[Sorted[i]] = board[Sorted[i - 1]] THEN rank[i - 1] ELSE i
    IN  rank

Placed == {[user |-> Sorted[i], rank |-> Rankings[i], total |-> board[Sorted[i]]]
           : i \in DOMAIN Sorted}

\* Rows without an account are passed over; to insert no history at all is an error.
SaveHistory ==
    /\ settlement = "read"
    /\ history' = {h \in Placed : h.user \in Members}
    /\ settlement' = "over"
    /\ UNCHANGED <<rows, contestVars, judgeVars, board, edits, faults, quiet>>

\* A query or a statement of the transaction fails.
SettlementFails ==
    /\ settlement \in {"marked", "read"}
    /\ edits + faults < MaxTroubles
    /\ faults' = faults + 1
    /\ settlement' = "over"
    /\ UNCHANGED <<rows, contestVars, judgeVars, board, history, edits, quiet>>

-----------------------------------------------------------------------------
(* The administrators' operations                                          *)

Edit ==
    /\ edits + faults < MaxTroubles
    /\ edits' = edits + 1
    /\ quiet' = (quiet /\ settlement = "due")
    /\ UNCHANGED <<contestVars, judgeVars, settleVars, faults>>

AdminCancelEvaluation == \E s \in Made : CancelEvaluation(s) /\ Edit
AdminCancelScore == \E s \in Made : CancelScore(s) /\ Edit
AdminRestoreScore == \E s \in Made : RestoreScore(s) /\ Edit

\* One submission, or those of a problem that were listed before the transaction
Rejudge ==
    \E p \in Problems : \E S \in (SUBSET Of(p)) \ {{}} : RejudgeRows(S) /\ Edit

-----------------------------------------------------------------------------
\* The web process dies with all its threads.
Crash ==
    /\ edits + faults < MaxTroubles
    /\ faults' = faults + 1
    /\ Judge("idle", 0)
    /\ settlement' = IF settlement = "due" THEN "due" ELSE "over"
    /\ UNCHANGED <<rows, contestVars, board, history, edits, quiet>>

Next ==
    \/ ContestStarts \/ ContestEnds \/ CreateContest \/ Submit
    \/ PopQueuedSubmission \/ CheckCancelled \/ UpdateSubmissionResult \/ UpdateFails
    \/ MarkSettled \/ ReadLeaderboard \/ SaveHistory \/ SettlementFails
    \/ AdminCancelEvaluation \/ AdminCancelScore \/ AdminRestoreScore \/ Rejudge
    \/ Crash

Spec == Init /\ [][Next]_vars
=============================================================================
