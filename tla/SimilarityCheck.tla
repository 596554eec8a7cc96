--------------------------- MODULE SimilarityCheck ---------------------------
(***************************************************************************)
(* Similarity checks (similarity/similarity.go, web/similarity.go): a      *)
(* request compares all submissions of a problem pair by pair, deletes the *)
(* problem's records and saves those it has found.                         *)
(*                                                                         *)
(* How similar two codes are is a constant; a submission is its problem,   *)
(* which never changes.  The limit of 200000 pairs is left out.            *)
(***************************************************************************)
EXTENDS Naturals, FiniteSets

CONSTANTS
    NumCodes,    \* how many submissions may be created
    CodeProblems,
    Similarity,  \* [pairs of submissions -> how similar their codes are]
    Thresholds,  \* what an editor may ask a check for
    Checkers,    \* threads that serve the requests
    MaxChecks, MaxBreaks   \* bounds

Codes == 1..NumCodes
Pairs == {p \in Codes \X Codes : p[1] < p[2]}
NoProblem == 0

ASSUME SimilarityAssumption ==
    /\ NumCodes \in Nat
    /\ CodeProblems \subseteq Nat \ {NoProblem}
    /\ Thresholds \subseteq Nat
    /\ Similarity \in [Pairs -> Nat]
    /\ MaxChecks \in Nat
    /\ MaxBreaks \in Nat

VARIABLES
    problemOf,   \* each submission's problem, once it is created
    records,     \* similarity_records: how many there are of each pair
    check,       \* each checker: its place,
    about,       \*   its problem
    found,       \*   and the pairs it is going to save
    checks, breaks, \* how many checks and failures there have been
    answer,      \* ghost: each problem's pairs, as the last check to store them found them
    mixed        \* ghost: problems whose checks have been at work together, and that none
                 \* has cleared alone since

checkVars == <<problemOf, records, check, about, found, checks, breaks, answer, mixed>>

CheckInit ==
    /\ problemOf = [s \in Codes |-> NoProblem]
    /\ records = [q \in Pairs |-> 0]
    /\ check = [c \in Checkers |-> "idle"]
    /\ about = [c \in Checkers |-> NoProblem]
    /\ found = [c \in Checkers |-> {}]
    /\ checks = 0
    /\ breaks = 0
    /\ answer = [p \in CodeProblems |-> {}]
    /\ mixed = {}

SubmitCode ==
    \E s \in Codes, p \in CodeProblems :
        /\ problemOf[s] = NoProblem
        /\ \A r \in 1..(s - 1) : problemOf[r] # NoProblem
        /\ problemOf' = [problemOf EXCEPT ![s] = p]
        /\ UNCHANGED <<records, check, about, found, checks, breaks, answer, mixed>>

PairsOf(p) == {q \in Pairs : problemOf[q[1]] = p /\ problemOf[q[2]] = p}
Similar(p, bar) == {q \in PairsOf(p) : Similarity[q] >= bar}
AtWork(p) == {c \in Checkers : check[c] # "idle" /\ about[c] = p}

Go(c, place, p, F) ==
    /\ check' = [check EXCEPT ![c] = place]
    /\ about' = [about EXCEPT ![c] = p]
    /\ found' = [found EXCEPT ![c] = F]

\* The problem's submissions are read and compared.
StartCheck(c) ==
    /\ check[c] = "idle"
    /\ checks < MaxChecks
    /\ checks' = checks + 1
    /\ \E p \in CodeProblems, bar \in Thresholds :
        /\ Go(c, "compared", p, Similar(p, bar))
        /\ mixed' = IF AtWork(p) = {} THEN mixed ELSE mixed \union {p}
    /\ UNCHANGED <<problemOf, records, breaks, answer>>

\* Mutated form: nothing is deleted.
DeleteNothing(p) == records

\* DELETE ... WHERE problem_id = p
DeleteByProblem(p) == [q \in Pairs |-> IF q \in PairsOf(p) THEN 0 ELSE records[q]]

DeleteRecords(c) ==
    /\ check[c] = "compared"
    /\ records' = DeleteByProblem(about[c])
    /\ answer' = [answer EXCEPT ![about[c]] = {}]
    /\ mixed' = IF AtWork(about[c]) = {c} THEN mixed \ {about[c]} ELSE mixed
    /\ IF found[c] = {} THEN Go(c, "idle", NoProblem, {})
       ELSE Go(c, "deleted", about[c], found[c])
    /\ UNCHANGED <<problemOf, checks, breaks>>

SaveRecords(c) ==
    /\ check[c] = "deleted"
    /\ records' = [q \in Pairs |-> records[q] + (IF q \in found[c] THEN 1 ELSE 0)]
    /\ answer' = [answer EXCEPT ![about[c]] = found[c]]
    /\ Go(c, "idle", NoProblem, {})
    /\ UNCHANGED <<problemOf, checks, breaks, mixed>>

\* Either statement fails, or the process dies.
CheckFails(c) ==
    /\ check[c] # "idle"
    /\ breaks < MaxBreaks
    /\ breaks' = breaks + 1
    /\ \E F \in {{c}, Checkers} :
        /\ check' = [d \in Checkers |-> IF d \in F THEN "idle" ELSE check[d]]
        /\ about' = [d \in Checkers |-> IF d \in F THEN NoProblem ELSE about[d]]
        /\ found' = [d \in Checkers |-> IF d \in F THEN {} ELSE found[d]]
    /\ UNCHANGED <<problemOf, records, checks, answer, mixed>>

CheckNext ==
    \/ SubmitCode
    \/ \E c \in Checkers : \/ StartCheck(c) \/ DeleteRecords(c)
                           \/ SaveRecords(c) \/ CheckFails(c)

CheckSpec == CheckInit /\ [][CheckNext]_checkVars

(***************************************************************************)
(* The similarity records of a problem are those the last check to store   *)
(* any has found, once each, or none after a check that failed half way,   *)
(* unless checks of the same problem were at work together; a check of     *)
(* another problem never disturbs them (CheckProblem deletes and saves in  *)
(* two statements).                                                        *)
(***************************************************************************)
SimilarityAsChecked ==
    \A p \in CodeProblems \ mixed : \A q \in PairsOf(p) :
        records[q] = IF q \in answer[p] THEN 1 ELSE 0
=============================================================================
