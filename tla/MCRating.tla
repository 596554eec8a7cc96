------------------------------- MODULE MCRating -------------------------------
(* Finite instances of rating settlement for TLC.                          *)
EXTENDS RatingProps, TLC

CONSTANTS ann, bob, web1, web2, adm, sum, path, tree

\* Ann plays in every contest, Bob only in the second.
SomePlayers == 1 :> {ann} @@ 2 :> {ann, bob}

\* The two contests share a problem.
SharedProblems == 1 :> {sum, path} @@ 2 :> {path, tree}
=============================================================================
