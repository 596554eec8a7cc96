-------------------------------- MODULE Rating --------------------------------
(***************************************************************************)
(* Rating settlement (sql_service/rating.go): the ticker of every web      *)
(* process settles the contests that have ended, an administrator may      *)
(* rebuild all ratings, set one by hand or delete a contest, and nothing   *)
(* keeps these apart but the flag contests.rating_settled.                 *)
(*                                                                         *)
(* A rating is the sequence of the contests whose changes it includes,     *)
(* oldest first, and 0 where it was set by hand; the size of a change (the *)
(* Elo formula) is left out.  Contests are numbered by the time they end.  *)
(* A contest's history rows are inserted in one batch.                     *)
(***************************************************************************)
EXTENDS Naturals, Sequences, FiniteSets

CONSTANTS
    Users,
    NumContests,
    Players,     \* the users on each contest's leaderboard that have an account
    Problems,
    Linked,      \* contest_problems: contests may have problems in common
    Tickers,     \* background services of the web processes
    Admins,      \* threads that serve the recompute requests
    SerialTx,    \* TRUE on SQLite; FALSE on MySQL, where a settlement reads the ratings
                 \* from its snapshot and writes them later
    MaxFaults, MaxRebuilds, MaxEdits    \* bounds

Contests == 1..NumContests
Settlers == Tickers \union Admins

ASSUME RatingAssumption ==
    /\ NumContests \in Nat
    /\ Players \in [Contests -> SUBSET Users]
    /\ Linked \in [Contests -> SUBSET Problems]
    /\ Tickers \intersect Admins = {}
    /\ SerialTx \in BOOLEAN
    /\ MaxFaults \in Nat
    /\ MaxRebuilds \in Nat
    /\ MaxEdits \in Nat

VARIABLES
    ended,       \* how many contests have ended
    contest,     \* how far the deletion of each contest has come
    settled,     \* contests.rating_settled
    rating,      \* users.rating
    batches,     \* batches of contest_rating_histories stored for each contest
    testVisible, \* the problems whose test_visible a settlement has set
    pc, cur, todo, \* each settler: its place, its contest, the contests it has listed
    snap,        \* the ratings its transaction has read
    faults, rebuilds, edits, \* how many of each have happened
    tidy, solo   \* history: see Alone

tables == <<contest, settled, rating, batches, testVisible>>
threads == <<pc, cur, todo, snap>>
budgets == <<faults, rebuilds, edits>>
ghosts == <<tidy, solo>>
vars == <<ended, tables, threads, budgets, ghosts>>

Ratings == [Users -> Seq(Contests \union {0})]

(***************************************************************************)
(* reset, wiped, cleared: the steps a rebuild has done                     *)
(* next: in the loop over the listed contests                              *)
(* read: the contest has been read and was not settled                     *)
(* marked: its flag is set    ranked: its leaderboard is computed          *)
(* computed: the transaction has read the ratings (MySQL only)             *)
(***************************************************************************)
Settling == {"read", "marked", "ranked", "computed"}
Places == {"idle", "reset", "wiped", "cleared", "next"} \union Settling

TypeOK ==
    /\ ended \in 0..NumContests
    /\ contest \in [Contests -> {"open", "unlinked", "wiped", "gone"}]
    /\ settled \in [Contests -> BOOLEAN]
    /\ rating \in Ratings
    /\ batches \in [Contests -> Nat]
    /\ testVisible \subseteq Problems
    /\ pc \in [Settlers -> Places]
    /\ cur \in [Settlers -> Contests \union {0}]
    /\ todo \in [Settlers -> SUBSET Contests]
    /\ snap \in [Settlers -> Ratings]
    /\ faults \in 0..MaxFaults
    /\ rebuilds \in 0..MaxRebuilds
    /\ edits \in 0..MaxEdits
    /\ tidy \in BOOLEAN
    /\ solo \subseteq Admins

NoChanges == [u \in Users |-> <<>>]

Init ==
    /\ ended = 0
    /\ contest = [c \in Contests |-> "open"]
    /\ settled = [c \in Contests |-> FALSE]
    /\ rating = NoChanges
    /\ batches = [c \in Contests |-> 0]
    /\ testVisible = {}
    /\ pc = [t \in Settlers |-> "idle"]
    /\ cur = [t \in Settlers |-> 0]
    /\ todo = [t \in Settlers |-> {}]
    /\ snap = [t \in Settlers |-> NoChanges]
    /\ faults = 0
    /\ rebuilds = 0
    /\ edits = 0
    /\ tidy = TRUE
    /\ solo = {}

\* Mutated form: the end is compared by the database, where a contest that is still
\* running can look ended.
LooksEnded == Contests

\* EndAt.Before(now)
Ended == {c \in Contests : c <= ended}

(***************************************************************************)
(* tidy: since the start, or since the last rebuild in solo, no two        *)
(* settlers were at work together, and nobody changed a rating or deleted  *)
(* its history.  solo: the rebuilds at work that nothing of the kind has   *)
(* disturbed.                                                              *)
(***************************************************************************)
Alone(t) == \A u \in Settlers \ {t} : pc[u] = "idle"

Disturb == tidy' = FALSE /\ solo' = {}

Fault == faults < MaxFaults /\ faults' = faults + 1

GoTo(t, place) == pc' = [pc EXCEPT ![t] = place]

-----------------------------------------------------------------------------
(* The loop over contests, shared by the ticker and the rebuild            *)

\* Mutated form: one contest too many.
OneMoreEnds ==
    /\ ended <= NumContests
    /\ ended' = ended + 1
    /\ UNCHANGED <<tables, threads, budgets, ghosts>>

ContestEnds ==
    /\ ended < NumContests
    /\ ended' = ended + 1
    /\ UNCHANGED <<tables, threads, budgets, ghosts>>

\* A tick: GetEndedContestsWithoutRating.
ListEndedWithoutRating(t) ==
    /\ pc[t] = "idle"
    /\ \E c \in Ended : contest[c] # "gone" /\ ~settled[c]
    /\ todo' = [todo EXCEPT ![t] = {c \in Ended : contest[c] # "gone" /\ ~settled[c]}]
    /\ GoTo(t, "next")
    /\ tidy' = (tidy /\ Alone(t))
    /\ solo' = {}
    /\ UNCHANGED <<ended, tables, cur, snap, budgets>>

\* Mutated form: the rebuild's list has no order either.
InNoOrder(t, c) == c \in todo[t]

\* The ticker's list has no order; the rebuild's is ordered by end_at.
InTurn(t, c) == c \in todo[t] /\ (t \in Admins => \A d \in todo[t] : c <= d)

\* CalculateContestRating up to its first write.
ReadContest(t) ==
    /\ pc[t] = "next"
    /\ \E c \in Contests :
        /\ InTurn(t, c)
        /\ todo' = [todo EXCEPT ![t] = @ \ {c}]
        /\ IF contest[c] # "gone" /\ c \in Ended /\ ~settled[c]
           THEN GoTo(t, "read") /\ cur' = [cur EXCEPT ![t] = c]
           ELSE UNCHANGED <<pc, cur>>
    /\ UNCHANGED <<ended, tables, snap, budgets, ghosts>>

\* Mutated form: the flag is not written.
MarkNothing(t) ==
    /\ pc[t] = "read"
    /\ GoTo(t, "marked")
    /\ UNCHANGED <<ended, tables, cur, todo, snap, budgets, ghosts>>

\* UPDATE ... SET rating_settled = true WHERE ... rating_settled = false: how many rows
\* it changed is not looked at.
MarkSettled(t) ==
    /\ pc[t] = "read"
    /\ settled' = [settled EXCEPT ![cur[t]] = TRUE]
    /\ GoTo(t, "marked")
    /\ UNCHANGED <<ended, contest, rating, batches, testVisible, cur, todo, snap,
                   budgets, ghosts>>

\* GetContestLeaderboard; a contest that is gone, unlinked or without players ends the
\* settlement here.
RankPlayers(t) ==
    /\ pc[t] = "marked"
    /\ GoTo(t, IF contest[cur[t]] = "open" /\ Players[cur[t]] # {}
               THEN "ranked" ELSE "next")
    /\ UNCHANGED <<ended, tables, cur, todo, snap, budgets, ghosts>>

ReadRatings(t) ==
    /\ ~SerialTx
    /\ pc[t] = "ranked"
    /\ snap' = [snap EXCEPT ![t] = rating]
    /\ GoTo(t, "computed")
    /\ UNCHANGED <<ended, tables, cur, todo, budgets, ghosts>>

\* The transaction writes the ratings and the history, and shows the tests of all the
\* problems that are linked to the contest, whatever other contests they belong to.  A
\* failure to reveal is logged and does not stop it.
Store(c, base) ==
    /\ rating' = [u \in Users |-> IF u \in Players[c] THEN Append(base[u], c)
                                                      ELSE rating[u]]
    /\ batches' = [batches EXCEPT ![c] = @ + 1]
    /\ \/ UNCHANGED faults
          /\ testVisible' = testVisible \union (IF contest[c] = "open" THEN Linked[c] ELSE {})
       \/ Fault /\ UNCHANGED testVisible

StoreRatings(t) ==
    /\ pc[t] = IF SerialTx THEN "ranked" ELSE "computed"
    /\ Store(cur[t], IF SerialTx THEN rating ELSE snap[t])
    /\ GoTo(t, "next")
    /\ snap' = [snap EXCEPT ![t] = NoChanges]
    /\ UNCHANGED <<ended, contest, settled, cur, todo, rebuilds, edits, ghosts>>

\* A statement fails.  Once the flag is set, nobody tries this contest again.
SettlementFails(t) ==
    /\ pc[t] \in Settling
    /\ Fault
    /\ GoTo(t, "next")
    /\ snap' = [snap EXCEPT ![t] = NoChanges]
    /\ UNCHANGED <<ended, tables, cur, todo, rebuilds, edits, ghosts>>

\* The end of the loop; a rebuild in solo leaves the ratings tidy.
LoopEnds(t) ==
    /\ pc[t] = "next"
    /\ todo[t] = {}
    /\ GoTo(t, "idle")
    /\ cur' = [cur EXCEPT ![t] = 0]
    /\ tidy' = (tidy \/ t \in solo)
    /\ solo' = solo \ {t}
    /\ UNCHANGED <<ended, tables, todo, snap, budgets>>

-----------------------------------------------------------------------------
(* RecomputeAllRatings: four statements outside any transaction            *)

ResetRatings(t) ==
    /\ pc[t] = "idle"
    /\ rebuilds < MaxRebuilds
    /\ rebuilds' = rebuilds + 1
    /\ rating' = NoChanges
    /\ GoTo(t, "reset")
    /\ tidy' = FALSE
    /\ solo' = IF Alone(t) THEN {t} ELSE {}
    /\ UNCHANGED <<ended, contest, settled, batches, testVisible, cur, todo, snap,
                   faults, edits>>

\* Mutated form: the history is kept.
WipeNothing(t) ==
    /\ pc[t] = "reset"
    /\ GoTo(t, "wiped")
    /\ UNCHANGED <<ended, tables, cur, todo, snap, budgets, ghosts>>

WipeHistory(t) ==
    /\ pc[t] = "reset"
    /\ batches' = [c \in Contests |-> 0]
    /\ GoTo(t, "wiped")
    /\ UNCHANGED <<ended, contest, settled, rating, testVisible, cur, todo, snap,
                   budgets, ghosts>>

\* Mutated form: the flags stay set.
KeepFlags(t) ==
    /\ pc[t] = "wiped"
    /\ GoTo(t, "cleared")
    /\ UNCHANGED <<ended, tables, cur, todo, snap, budgets, ghosts>>

ClearFlags(t) ==
    /\ pc[t] = "wiped"
    /\ settled' = [c \in Contests |-> FALSE]
    /\ GoTo(t, "cleared")
    /\ UNCHANGED <<ended, contest, rating, batches, testVisible, cur, todo, snap,
                   budgets, ghosts>>

ListContests(t) ==
    /\ pc[t] = "cleared"
    /\ todo' = [todo EXCEPT ![t] = {c \in Ended : contest[c] # "gone"}]
    /\ GoTo(t, "next")
    /\ UNCHANGED <<ended, tables, cur, snap, budgets, ghosts>>

\* One of the statements fails and the request ends with the rest undone.
RebuildFails(t) ==
    /\ pc[t] \in {"reset", "wiped", "cleared"}
    /\ Fault
    /\ GoTo(t, "idle")
    /\ solo' = solo \ {t}
    /\ UNCHANGED <<ended, tables, cur, todo, snap, rebuilds, edits, tidy>>

-----------------------------------------------------------------------------
(* The rest of the system                                                  *)

\* The process stops; an open transaction is rolled back.
Crash(t) ==
    /\ pc[t] # "idle"
    /\ Fault
    /\ GoTo(t, "idle")
    /\ cur' = [cur EXCEPT ![t] = 0]
    /\ todo' = [todo EXCEPT ![t] = {}]
    /\ snap' = [snap EXCEPT ![t] = NoChanges]
    /\ solo' = solo \ {t}
    /\ UNCHANGED <<ended, tables, rebuilds, edits, tidy>>

SetRating(u) ==
    /\ edits < MaxEdits
    /\ edits' = edits + 1
    /\ rating' = [rating EXCEPT ![u] = <<0>>]
    /\ Disturb
    /\ UNCHANGED <<ended, contest, settled, batches, testVisible, threads, faults, rebuilds>>

\* DeleteContest clears the links to the problems, deletes the history, deletes the
\* row; it may stop after each statement.
UnlinkProblems(c) ==
    /\ contest[c] = "open"
    /\ edits < MaxEdits
    /\ edits' = edits + 1
    /\ contest' = [contest EXCEPT ![c] = "unlinked"]
    /\ UNCHANGED <<ended, settled, rating, batches, testVisible, threads, faults, rebuilds,
                   ghosts>>

DeleteHistory(c) ==
    /\ contest[c] = "unlinked"
    /\ contest' = [contest EXCEPT ![c] = "wiped"]
    /\ batches' = [batches EXCEPT ![c] = 0]
    /\ IF batches[c] = 0 THEN UNCHANGED ghosts ELSE Disturb
    /\ UNCHANGED <<ended, settled, rating, testVisible, threads, budgets>>

DeleteRow(c) ==
    /\ contest[c] = "wiped"
    /\ contest' = [contest EXCEPT ![c] = "gone"]
    /\ UNCHANGED <<ended, settled, rating, batches, testVisible, threads, budgets, ghosts>>

-----------------------------------------------------------------------------
\* CalculateContestRating and the loop around it.
Settle(t) ==
    \/ ReadContest(t)
    \/ MarkSettled(t)
    \/ RankPlayers(t)
    \/ ReadRatings(t)
    \/ StoreRatings(t)
    \/ SettlementFails(t)
    \/ LoopEnds(t)

RecomputeAllRatings(t) ==
    \/ ResetRatings(t)
    \/ WipeHistory(t)
    \/ ClearFlags(t)
    \/ ListContests(t)
    \/ RebuildFails(t)

DeleteContest(c) == UnlinkProblems(c) \/ DeleteHistory(c) \/ DeleteRow(c)

Next ==
    \/ ContestEnds
    \/ \E t \in Tickers : ListEndedWithoutRating(t)
    \/ \E t \in Settlers : Settle(t) \/ Crash(t)
    \/ \E t \in Admins : RecomputeAllRatings(t)
    \/ \E u \in Users : SetRating(u)
    \/ \E c \in Contests : DeleteContest(c)

Spec == Init /\ [][Next]_vars

\* The tickers tick every minute and what has been started goes on.
Fairness ==
    /\ \A t \in Tickers : WF_vars(ListEndedWithoutRating(t))
    /\ \A t \in Settlers :
        /\ WF_vars(ReadContest(t))
        /\ WF_vars(MarkSettled(t))
        /\ WF_vars(RankPlayers(t))
        /\ WF_vars(ReadRatings(t))
        /\ WF_vars(StoreRatings(t))
        /\ WF_vars(LoopEnds(t))
    /\ \A t \in Admins :
        WF_vars(WipeHistory(t)) /\ WF_vars(ClearFlags(t)) /\ WF_vars(ListContests(t))

FairSpec == Spec /\ Fairness
=============================================================================
