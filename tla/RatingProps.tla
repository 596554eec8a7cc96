----------------------------- MODULE RatingProps -----------------------------
(***************************************************************************)
(* What rating settlement is expected to guarantee.                        *)
(***************************************************************************)
EXTENDS Rating

Entries(seq) == {seq[i] : i \in 1..Len(seq)}

(***************************************************************************)
(* A user's rating includes the change of each contest at most once, and   *)
(* of those contests whose history lists the user.                         *)
(***************************************************************************)
MatchesHistory(u) ==
    /\ \A i, j \in 1..Len(rating[u]) : rating[u][i] = rating[u][j] => i = j
    /\ Entries(rating[u]) = {c \in Contests : batches[c] > 0 /\ u \in Players[c]}

\* Contests are settled at most once and under their flag, and ratings agree with the
\* stored history.
Consistent ==
    /\ \A c \in Contests : batches[c] <= 1 /\ (batches[c] = 1 => settled[c])
    /\ \A u \in Users : MatchesHistory(u)

(***************************************************************************)
(* As long as settlements and rebuilds do not overlap, whatever fails or   *)
(* crashes in between, ratings and history stay consistent; a rebuild that *)
(* is left alone brings this back from any state.                          *)
(***************************************************************************)
TidyRatings == tidy => Consistent

(***************************************************************************)
(* A rebuild that is left alone applies the contests in the order in which *)
(* they ended, as RecomputeAllRatings promises, although tickers may have  *)
(* settled them in another order before.                                   *)
(***************************************************************************)
Chronological ==
    [][\A t \in solo : LoopEnds(t) =>
        \A u \in Users : \A i, j \in 1..Len(rating[u]) :
            i < j => rating[u][i] < rating[u][j]]_vars

(***************************************************************************)
(* Nothing is settled or rated before its contest has ended, and the tests *)
(* of a problem are not shown before a contest that has it has ended,      *)
(* whoever overlaps with whom.  That one contest is enough, although       *)
(* another one with the same problem may still be running, is what         *)
(* HiddenWhileRunning below is about.                                      *)
(***************************************************************************)
NothingEarly ==
    /\ \A c \in Contests :
        \/ c <= ended
        \/ /\ ~settled[c]
           /\ batches[c] = 0
           /\ \A u \in Users : c \notin Entries(rating[u])
    /\ \A p \in testVisible : \E c \in Contests : c <= ended /\ p \in Linked[c]

(***************************************************************************)
(* Until somebody rebuilds, a contest that has any history is flagged as   *)
(* settled, however many tickers work on it: the flag is set before the    *)
(* transaction and no failure takes it back.                               *)
(***************************************************************************)
FlaggedBeforeRated ==
    rebuilds = 0 => \A c \in Contests : batches[c] > 0 => settled[c]

(***************************************************************************)
(* When no statement fails and no process dies, every ended contest with   *)
(* players gets its history in the end unless it is deleted, even if       *)
(* rebuilds and tickers overlap.                                           *)
(***************************************************************************)
EventuallyRated ==
    \A c \in Contests : Players[c] # {} =>
        (c \in Ended ~> batches[c] > 0 \/ contest[c] # "open" \/ faults > 0)

-----------------------------------------------------------------------------
(* The inductive strengthening of TidyRatings.                             *)

Placed ==
    /\ \A t \in Settlers : pc[t] \in Settling => cur[t] \in Contests
    /\ \A t \in Tickers : pc[t] \notin {"reset", "wiped", "cleared"}

\* While the tables are tidy at most one ticker is at work, and no rebuild; a rebuild in
\* solo is at work alone.
Separate ==
    /\ tidy => /\ solo = {}
               /\ \A t \in Admins : pc[t] = "idle"
               /\ \A t \in Settlers : pc[t] # "idle" => Alone(t)
    /\ \A t \in solo : pc[t] # "idle" /\ Alone(t)

\* What the statements of a rebuild in solo have done so far.
Rebuilding ==
    \A t \in solo :
        /\ pc[t] \in {"reset", "wiped", "cleared"} => rating = NoChanges
        /\ pc[t] \in {"wiped", "cleared"} => \A c \in Contests : batches[c] = 0

Healthy == tidy \/ \E t \in solo : pc[t] \in {"next"} \union Settling

\* A settlement that nothing overlaps works on a contest without history, and on the
\* ratings it has read.
Unsettled ==
    Healthy =>
        /\ Consistent
        /\ \A t \in Settlers : pc[t] \in Settling =>
            /\ batches[cur[t]] = 0
            /\ pc[t] # "read" => settled[cur[t]]
            /\ pc[t] = "computed" => snap[t] = rating

TidyInv == Placed /\ Separate /\ Rebuilding /\ Unsettled

-----------------------------------------------------------------------------
(* The inductive strengthenings of NothingEarly and FlaggedBeforeRated.    *)

\* Only contests that have ended are in a rating, stored or read, and are listed and
\* worked on.
WorksOnEnded ==
    /\ \A u \in Users : Entries(rating[u]) \subseteq Ended \union {0}
    /\ \A t \in Settlers :
        /\ todo[t] \subseteq Ended
        /\ pc[t] \in Settling => cur[t] \in Ended
        /\ \A u \in Users : Entries(snap[t][u]) \subseteq Ended \union {0}

EarlyInv == NothingEarly /\ WorksOnEnded

\* A settlement that may store its results has set its flag, and no rebuild is at work.
FlagsFirst ==
    /\ \A c \in Contests : batches[c] > 0 => settled[c]
    /\ \A t \in Settlers : pc[t] \in Settling \ {"read"} => settled[cur[t]]
    /\ \A t \in Admins : pc[t] = "idle"

FlaggedFirst == rebuilds = 0 => FlagsFirst

-----------------------------------------------------------------------------
(* The inductive strengthening of Chronological.                           *)

InOrder(seq) == \A i, j \in 1..Len(seq) : i < j => seq[i] < seq[j]

\* Every contest that a rating includes comes before c.
AllBefore(c) == \A u \in Users : \A e \in Entries(rating[u]) : e < c

\* A rebuild in solo has its contests still ahead of it: those it has listed come after
\* the one it works on, which comes after all that it has applied.
AppliesInOrder(t) ==
    /\ pc[t] \in {"next"} \union Settling =>
        /\ \A u \in Users : InOrder(rating[u])
        /\ \A c \in todo[t] : AllBefore(c)
    /\ pc[t] \in Settling => AllBefore(cur[t]) /\ \A c \in todo[t] : cur[t] < c

OrderInv == \A t \in solo : AppliesInOrder(t)

-----------------------------------------------------------------------------
(* What comments say, and the code does not do.                            *)

(***************************************************************************)
(* "ensure rating settlement only happens once": no contest has two        *)
(* batches of history.                                                     *)
(***************************************************************************)
SettledOnce == \A c \in Contests : batches[c] <= 1

(***************************************************************************)
(* The rebuild's result "stays correct and consistent with the other       *)
(* contests": when it ends, ratings agree with the history.                *)
(***************************************************************************)
RebuildConsistent ==
    [][\A t \in Admins : LoopEnds(t) => \A u \in Users : MatchesHistory(u)]_vars

-----------------------------------------------------------------------------
(* What might be expected, and the code does not do.                       *)

(***************************************************************************)
(* The settlement of a contest does not show the tests of a problem that a *)
(* contest still to end has as well.  It does: contestants then see their  *)
(* own results, and the statistics, while their contest is running.        *)
(***************************************************************************)
HiddenWhileRunning == \A c \in Contests : c > ended => Linked[c] \intersect testVisible = {}
=============================================================================
