---------------------------- MODULE ContestsProps ----------------------------
(***************************************************************************)
(* What contestants rely on.                                               *)
(***************************************************************************)
EXTENDS Contests

\* The state has the shape its statements and threads give it; a settlement that computes
\* ratings has a contestant to compute them for.
TypeOK ==
    /\ StoreTypeOK
    /\ clock \in {"before", "running", "ended"}
    /\ created \in BOOLEAN
    /\ linked \subseteq Problems
    /\ \A s \in Subs : IF s \in Made
                       THEN entry[s] \in Users \X Problems /\ sent[s] # "none"
                       ELSE entry[s] = <<>> /\ sent[s] = "none"
    /\ IF judge = "idle" THEN task = 0
       ELSE judge \in {"judging", "checked"} /\ task \in Made
    /\ settlement \in {"due", "marked", "read", "over"}
    /\ DOMAIN board \subseteq Users
    /\ settlement = "read" => DOMAIN board # {}
    /\ history \subseteq [user : Members, rank : 1..NumUsers, total : Nat]

(***************************************************************************)
(* Once a contest has ended and nothing in its window waits for the judge, *)
(* only an administrator changes its standings: what is submitted later,   *)
(* judged for other problems or stored by a result that was still on its   *)
(* way does not (GetContestLeaderboard).                                   *)
(***************************************************************************)
StandingsFinal ==
    [][clock = "ended" /\ created /\ AllDecided /\ edits' = edits
       => Leaderboard' = Leaderboard]_vars

(***************************************************************************)
(* A settlement that begins when everything is judged records, for every   *)
(* contestant with an account and nobody else, the total the leaderboard   *)
(* still shows, unless an administrator has changed a submission since or  *)
(* the settlement has failed (CalculateContestRating).  Without the first  *)
(* condition it does not: the flag is set at the first tick after the end, *)
(* whatever the judge still has to do.                                     *)
(***************************************************************************)
SettledAsShown ==
    quiet /\ history # {} =>
        {<<h.user, h.total>> : h \in history}
            = {<<u, Leaderboard[u]>> : u \in Contestants \intersect Members}

(***************************************************************************)
(* A contestant's rank is one more than the number of contestants who have *)
(* a greater total, those without an account included: the pass over the   *)
(* sorted rows shares ranks between equal totals and leaves the gaps.      *)
(***************************************************************************)
RanksFair ==
    \A h \in history :
        h.rank = 1 + Cardinality({u \in DOMAIN board : board[u] > h.total})
=============================================================================
