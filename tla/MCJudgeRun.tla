------------------------------ MODULE MCJudgeRun ------------------------------
(* Finite instances of one run of the judge for TLC.                       *)
EXTENDS JudgeRunProps, TLC

\* Two groups, of two tests and of one.
TwoGroups == 1 :> 1 @@ 2 :> 1 @@ 3 :> 2

\* One program that solves every test, and four that fail in different ways.
SomePrograms ==
    {<<"ok", "ok", "ok">>, <<"ok", "hang", "ok">>, <<"hang", "silent", "hang">>,
     <<"wrong", "ok", "silent">>, <<"crash", "over", "ok">>}

\* A program that solves every test.
SolvesBoth == {<<"ok", "ok">>}

\* A group of two tests.
OneGroup == 1 :> 1 @@ 2 :> 1
=============================================================================
