---------------------------- MODULE SubmissionView ----------------------------
(***************************************************************************)
(* What the submissions page promises of a row while no administrator      *)
(* touches it: it waits, then it has been judged, and it never goes back.  *)
(* A judged row may be judged again (its score may change): a claim that   *)
(* was given up can still report.                                          *)
(***************************************************************************)
EXTENDS Naturals

CONSTANTS Rows, Totals

VARIABLES phase, points

viewVars == <<phase, points>>

ViewInit ==
    /\ phase = [s \in Rows |-> "absent"]
    /\ points = [s \in Rows |-> 0]

Arrive(s) ==
    /\ phase[s] = "absent"
    /\ phase' = [phase EXCEPT ![s] = "waiting"]
    /\ UNCHANGED points

Finish(s) ==
    /\ phase[s] \in {"waiting", "judged"}
    /\ phase' = [phase EXCEPT ![s] = "judged"]
    /\ \E p \in Totals : points' = [points EXCEPT ![s] = p]

ViewNext == \E s \in Rows : Arrive(s) \/ Finish(s)

\* A row that waits is judged in the end.
ViewFairness == \A s \in Rows : WF_viewVars(phase[s] = "waiting" /\ Finish(s))

ViewSafety == ViewInit /\ [][ViewNext]_viewVars

ViewSpec == ViewSafety /\ ViewFairness
=============================================================================
