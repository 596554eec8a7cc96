----------------------------- MODULE MCContests -----------------------------
(***************************************************************************)
(* Contests and similarity checks for TLC.  The two share nothing but what *)
(* never changes of a submission, so a behaviour runs one of them and      *)
(* leaves the other as it starts.                                          *)
(***************************************************************************)
EXTENDS ContestsProps, SimilarityCheck, TLC

CONSTANTS p1, p2

ProblemsAlike == Permutations(Problems)

\* The first two codes share more than the first does with the third.
SomeSimilarity == [q \in Pairs |-> IF q = <<1, 2>> THEN 8 ELSE IF q[1] = 1 THEN 6 ELSE 0]

VARIABLE part

BothInit == Init /\ CheckInit /\ part \in {"contest", "checks"}

BothNext ==
    \/ part = "contest" /\ Next /\ UNCHANGED <<checkVars, part>>
    \/ part = "checks" /\ CheckNext /\ UNCHANGED <<vars, part>>

BothSpec == BothInit /\ [][BothNext]_<<vars, checkVars, part>>

\* The results stored and the disqualified flag decide nothing here.
Seen == <<status, score, contestVars, judgeVars, settleVars, edits, faults, quiet,
          checkVars, part>>
=============================================================================
