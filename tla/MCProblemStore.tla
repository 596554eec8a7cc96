---------------------------- MODULE MCProblemStore ----------------------------
(* Finite instances of a problem's row and files for TLC.                  *)
EXTENDS ProblemStoreProps, TLC

CONSTANTS small, large, e1, e2, none

\* A package of one test and one of two.
Sizes12 == small :> 1 @@ large :> 2

\* An editor changes the limit, hides the problem, or shows it with its results.
SomeEdits ==
    {[limit |-> "two seconds", visible |-> "keep", results |-> "keep"],
     [limit |-> "keep", visible |-> "hide", results |-> "keep"],
     [limit |-> "keep", visible |-> "show", results |-> "show"]}

\* An empty problem, or one with a package and its own limit.
SomeCreations == {[package |-> none, limit |-> "default"],
                  [package |-> small, limit |-> "two seconds"]}
=============================================================================
