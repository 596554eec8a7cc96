-------------------------- MODULE ProblemStoreProps --------------------------
(***************************************************************************)
(* What editors and contestants expect of a problem.                       *)
(***************************************************************************)
EXTENDS ProblemStore

AtRest == \A r \in Threads : at[r] = "idle"

\* The judge finds the tests that config.json lists, all of one package, and the page
\* shows their number.
InOrder ==
    /\ config.cases = 1..row.count
    /\ row.count > 0 => \E p \in Packages : \A i \in config.cases : tests[i] = p

(***************************************************************************)
(* As long as requests do not overlap, whatever is refused or fails before *)
(* it touches the tests, the row, config.json and the test files agree     *)
(* whenever no request is at work; an import that is alone brings this     *)
(* back from any state.                                                    *)
(***************************************************************************)
TestsInOrder == calm /\ AtRest /\ row.exists => InOrder

(***************************************************************************)
(* The problem is not shown before its contest starts, nor its results     *)
(* before the contest ends, unless an editor has asked for it: no row that *)
(* is saved late brings an earlier or later value back.                    *)
(***************************************************************************)
NothingShownEarly ==
    /\ row.visible /\ contestAt = "before" => "visible" \in asked
    /\ row.results /\ contestAt # "ended" => "results" \in asked

\* What is shown is due or was asked for: of the row, of what requests have read, and
\* of what they will set.
Due(x) ==
    /\ x.visible /\ contestAt = "before" => "visible" \in asked
    /\ x.results /\ contestAt # "ended" => "results" \in asked

DueInv ==
    /\ Due(row)
    /\ \A r \in Threads :
        /\ Due(copy[r])
        /\ job[r].visible = "show" => "visible" \in asked
        /\ job[r].results = "show" => "results" \in asked
    /\ ticker = "listed" => contestAt # "before"
    /\ settling # "no" => contestAt = "ended"

(***************************************************************************)
(* From some point on the problem of a contest that has started is visible,*)
(* although editors save stale rows over the ticker's update: the ticker   *)
(* asks the rows and not its memory.                                       *)
(***************************************************************************)
EventuallyShown == <>[](contestAt # "before" /\ row.exists => row.visible)
=============================================================================
