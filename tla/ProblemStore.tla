----------------------------- MODULE ProblemStore -----------------------------
(***************************************************************************)
(* One problem: its row in the database and its directory data/problem/ID  *)
(* with the tests and config.json.  Editors' requests read and write the   *)
(* two in several steps, nothing keeps them apart, and db.Save writes back *)
(* the whole row as it was read, or inserts it again if it was deleted     *)
(* meanwhile.  The ticker shows the problem when its contest has started   *)
(* and its results when the contest is settled.                            *)
(*                                                                         *)
(* A package is the tests of an archive, numbered from 1, and it has all   *)
(* the files it lists; the input and the answer of a test are written in   *)
(* one step.  A limit stands for the time and memory limits.               *)
(***************************************************************************)
EXTENDS Naturals, FiniteSets

CONSTANTS
    Threads,      \* requests that are served at once
    Packages,     \* archives that editors upload
    Size,         \* how many tests each of them has
    NoPackage,
    CustomLimits, \* limits other than the default ones
    Edits,        \* what editors ask of the row: flags to set or clear, a limit
    Creations,    \* problems they make: a package or none, and a limit
    Groupings,    \* lists of tests that editors save by hand
    MaxRequests, MaxFaults    \* bounds

ASSUME StoreAssumption ==
    /\ Size \in [Packages -> Nat \ {0}]
    /\ NoPackage \notin Packages
    /\ CustomLimits \intersect {"default", "unset", "keep"} = {}
    /\ Edits \subseteq [limit : CustomLimits \union {"default", "keep"},
                      visible : {"keep", "show", "hide"}, results : {"keep", "show", "hide"}]
    /\ Creations \subseteq [package : Packages \union {NoPackage},
                          limit : CustomLimits \union {"default"}]
    /\ \A c \in Creations : c.package = NoPackage => c.limit = "default"
    /\ Groupings \subseteq SUBSET UNION {1..Size[p] : p \in Packages}
    /\ MaxRequests \in Nat
    /\ MaxFaults \in Nat

VARIABLES
    row,       \* the problem's row
    dir,       \* its directory exists
    tests,     \* the package each test file comes from
    config,    \* config.json
    contestAt, \* the contest that has the problem: before, running, ended
    settling,  \* its settlement: no, marked, done
    ticker,    \* the ticker: idle, or it has listed the contest
    at, job,   \* each request: its place and what it is to do
    copy, old, \* the row and the config.json it has read
    left,      \* tests it has still to write
    used, faults, \* how many requests and failures there were
    calm, solo, asked \* history: see Alone and NothingShownEarly

files == <<dir, tests, config>>
reveals == <<contestAt, settling, ticker>>
requests == <<at, job, copy, old, left>>
budgets == <<used, faults>>
ghosts == <<calm, solo, asked>>
vars == <<row, files, reveals, requests, budgets, ghosts>>

Limits == CustomLimits \union {"default"}
Sizes == {Size[p] : p \in Packages}
Tests == UNION {1..n : n \in Sizes}

Rows == [exists : BOOLEAN, visible : BOOLEAN, results : BOOLEAN,
         limit : Limits, count : Nat]
NoRow == [exists |-> FALSE, visible |-> FALSE, results |-> FALSE,
          limit |-> "default", count |-> 0]

Configs == [cases : SUBSET Tests, limit : Limits \union {"unset"}]
NoConfig == [cases |-> {}, limit |-> "unset"]

Wishes == {"keep", "show", "hide"}
Kinds == {"none", "update", "groups", "delete", "zip", "tuack", "create", "cdf"}
Jobs == {j \in [kind : Kinds,
                package : Packages \union {NoPackage},
                limit : Limits \union {"keep"},
                visible : Wishes, results : Wishes,
                cases : SUBSET Tests] : j.kind = "cdf" => j.limit # "keep"}
NoJob == [kind |-> "none", package |-> NoPackage, limit |-> "keep",
          visible |-> "keep", results |-> "keep", cases |-> {}]

Places == {"idle", "update", "readlimit", "writelimit", "groups", "remove", "mkdir",
           "clear", "write", "save"}

TypeOK ==
    /\ row \in Rows
    /\ dir \in BOOLEAN
    /\ tests \in [Tests -> Packages \union {NoPackage}]
    /\ config \in Configs
    /\ contestAt \in {"before", "running", "ended"}
    /\ settling \in {"no", "marked", "done"}
    /\ ticker \in {"idle", "listed"}
    /\ at \in [Threads -> Places]
    /\ job \in [Threads -> Jobs]
    /\ \A r \in Threads : /\ at[r] \in {"clear", "write", "save"} => job[r].package \in Packages
                          /\ at[r] \in {"readlimit", "writelimit"} => job[r].limit \in Limits
    /\ copy \in [Threads -> Rows]
    /\ old \in [Threads -> Configs]
    /\ left \in [Threads -> SUBSET Tests]
    /\ used \in 0..MaxRequests
    /\ faults \in 0..MaxFaults
    /\ calm \in BOOLEAN
    /\ solo \subseteq Threads
    /\ asked \subseteq {"visible", "results"}

NoTests == [i \in Tests |-> NoPackage]

Init ==
    /\ row = NoRow
    /\ dir = FALSE
    /\ tests = NoTests
    /\ config = NoConfig
    /\ contestAt = "before"
    /\ settling = "no"
    /\ ticker = "idle"
    /\ at = [r \in Threads |-> "idle"]
    /\ job = [r \in Threads |-> NoJob]
    /\ copy = [r \in Threads |-> NoRow]
    /\ old = [r \in Threads |-> NoConfig]
    /\ left = [r \in Threads |-> {}]
    /\ used = 0
    /\ faults = 0
    /\ calm = TRUE
    /\ solo = {}
    /\ asked = {}

(***************************************************************************)
(* calm: since the start, or since the last import that was alone, no two  *)
(* requests overlapped, none left the tests half written and nobody wrote  *)
(* the groups by hand.  solo: a request that nothing has overlapped.       *)
(***************************************************************************)
Alone(r) == \A q \in Threads \ {r} : at[q] = "idle"

Fault == faults < MaxFaults /\ faults' = faults + 1

GoTo(r, place) == at' = [at EXCEPT ![r] = place]

Begin(r, place, j, read) ==
    /\ at[r] = "idle"
    /\ used < MaxRequests
    /\ used' = used + 1
    /\ GoTo(r, place)
    /\ job' = [job EXCEPT ![r] = j]
    /\ copy' = [copy EXCEPT ![r] = read]
    /\ calm' = (calm /\ Alone(r))
    /\ solo' = IF Alone(r) THEN {r} ELSE {}
    /\ UNCHANGED faults

Finish(r) ==
    /\ GoTo(r, "idle")
    /\ job' = [job EXCEPT ![r] = NoJob]
    /\ copy' = [copy EXCEPT ![r] = NoRow]
    /\ old' = [old EXCEPT ![r] = NoConfig]
    /\ left' = [left EXCEPT ![r] = {}]
    /\ solo' = solo \ {r}

\* The handler returns; ok: it leaves the tests as they were, or all of them written.
Return(r, ok) == Finish(r) /\ calm' = (calm /\ ok)

\* db.Save
Save(new) == row' = [new EXCEPT !.exists = TRUE]

-----------------------------------------------------------------------------
(* UpdateProblemHandler: the row, then the limits in config.json           *)

\* Mutated form: flags that the request does not name are set.
WishOrShow(wish, now) == wish # "hide"

Wish(wish, now) == IF wish = "keep" THEN now ELSE wish = "show"

BeginUpdate(r) ==
    /\ row.exists
    /\ \E e \in Edits :
        /\ Begin(r, "update", [NoJob EXCEPT !.kind = "update", !.limit = e.limit,
                                   !.visible = e.visible, !.results = e.results], row)
        /\ asked' = asked \union (IF e.visible = "show" THEN {"visible"} ELSE {})
                          \union (IF e.results = "show" THEN {"results"} ELSE {})
    /\ UNCHANGED <<row, files, reveals, old, left>>

\* Mutated form: the limit is stored whether or not the request names one.
ChangedAlways(r) ==
    [copy[r] EXCEPT !.visible = Wish(job[r].visible, @),
                    !.results = Wish(job[r].results, @),
                    !.limit = job[r].limit]

Changed(r) ==
    [copy[r] EXCEPT !.visible = Wish(job[r].visible, @),
                    !.results = Wish(job[r].results, @),
                    !.limit = IF job[r].limit = "keep" THEN @ ELSE job[r].limit]

SaveUpdate(r) ==
    /\ at[r] = "update"
    /\ Save(Changed(r))
    /\ IF job[r].limit = "keep" THEN Return(r, TRUE)
       ELSE GoTo(r, "readlimit") /\ UNCHANGED <<job, copy, old, left, calm, solo>>
    /\ UNCHANGED <<files, reveals, budgets, asked>>

ReadLimit(r) ==
    /\ at[r] = "readlimit"
    /\ GoTo(r, "writelimit")
    /\ old' = [old EXCEPT ![r] = config]
    /\ UNCHANGED <<row, files, reveals, job, copy, left, budgets, ghosts>>

\* The error of the write is ignored.
WriteLimit(r) ==
    /\ at[r] = "writelimit"
    /\ config' = IF dir THEN [old[r] EXCEPT !.limit = job[r].limit] ELSE config
    /\ Return(r, TRUE)
    /\ UNCHANGED <<row, dir, tests, reveals, budgets, asked>>

-----------------------------------------------------------------------------
(* SaveTestGroupsHandler                                                   *)

BeginGroups(r) ==
    /\ \E cases \in Groupings :
        Begin(r, "groups", [NoJob EXCEPT !.kind = "groups", !.cases = cases], NoRow)
    /\ old' = [old EXCEPT ![r] = config]
    /\ UNCHANGED <<row, files, reveals, left, asked>>

WriteGroups(r) ==
    /\ at[r] = "groups"
    /\ config' = IF dir THEN [old[r] EXCEPT !.cases = job[r].cases] ELSE config
    /\ Return(r, FALSE)
    /\ UNCHANGED <<row, dir, tests, reveals, budgets, asked>>

-----------------------------------------------------------------------------
(* DeleteProblemHandler: the row, then the directory                       *)

DeleteRow(r) ==
    /\ Begin(r, "remove", [NoJob EXCEPT !.kind = "delete"], NoRow)
    /\ row' = NoRow
    /\ UNCHANGED <<files, reveals, old, left, asked>>

RemoveDirectory(r) ==
    /\ at[r] = "remove"
    /\ dir' = FALSE
    /\ tests' = NoTests
    /\ config' = NoConfig
    /\ Return(r, TRUE)
    /\ UNCHANGED <<row, reveals, budgets, asked>>

-----------------------------------------------------------------------------
(* Imports: ImportDataZipHandler clears the tests first, UpdateTuackPackage *)
(* writes over them; CreateProblemHandler and ImportCDFPackage make a new  *)
(* problem                                                                 *)

Cases(p) == 1..Size[p]

BeginZip(r) ==
    /\ row.exists
    /\ \E p \in Packages : Begin(r, "clear", [NoJob EXCEPT !.kind = "zip", !.package = p], row)
    /\ UNCHANGED <<row, files, reveals, old, left, asked>>

ClearTests(r) ==
    /\ at[r] = "clear"
    /\ IF dir
       THEN /\ tests' = NoTests
            /\ GoTo(r, "write")
            /\ left' = [left EXCEPT ![r] = Cases(job[r].package)]
            /\ UNCHANGED <<job, copy, old, calm, solo>>
       ELSE Return(r, TRUE) /\ UNCHANGED tests
    /\ UNCHANGED <<row, dir, config, reveals, budgets, asked>>

BeginTuack(r) ==
    /\ row.exists
    /\ \E p \in Packages :
        /\ Begin(r, "write", [NoJob EXCEPT !.kind = "tuack", !.package = p], row)
        /\ left' = [left EXCEPT ![r] = Cases(p)]
    /\ UNCHANGED <<row, files, reveals, old, asked>>

NewRow == [NoRow EXCEPT !.exists = TRUE]

\* db.Create gives the problem its number; a number is not given twice.
Create(r, kind, c) ==
    /\ used = 0
    /\ Begin(r, "mkdir", [NoJob EXCEPT !.kind = kind, !.package = c.package, !.limit = c.limit],
             NewRow)
    /\ row' = NewRow
    /\ UNCHANGED <<files, reveals, old, left, asked>>

\* CreateProblemHandler, which takes no limit.
BeginCreate(r) ==
    \E c \in Creations : c.limit = "default" /\ Create(r, "create", c)

\* ImportCDFPackage, for one task.
BeginCDF(r) ==
    \E c \in Creations : c.package # NoPackage /\ Create(r, "cdf", c)

MakeDirectory(r) ==
    /\ at[r] = "mkdir"
    /\ dir' = TRUE
    /\ IF job[r].package = NoPackage THEN Return(r, TRUE)
       ELSE /\ GoTo(r, "write")
            /\ left' = [left EXCEPT ![r] = Cases(job[r].package)]
            /\ UNCHANGED <<job, copy, old, calm, solo>>
    /\ UNCHANGED <<row, tests, config, reveals, budgets, asked>>

\* copyTestData goes through a map, the other imports through a sorted list.
WriteTest(r) ==
    /\ at[r] = "write"
    /\ \E i \in left[r] :
        /\ job[r].kind = "tuack" \/ \A k \in left[r] : i <= k
        /\ IF dir THEN tests' = [tests EXCEPT ![i] = job[r].package] ELSE UNCHANGED tests
        /\ IF dir THEN left' = [left EXCEPT ![r] = @ \ {i}]
                       /\ UNCHANGED <<at, job, copy, old, calm, solo>>
                  ELSE Return(r, FALSE)
    /\ UNCHANGED <<row, dir, config, reveals, budgets, asked>>

\* A package with a test that lacks its input or answer is refused half way, and one
\* without tests when the old ones are gone.
RefusePackage(r) ==
    /\ at[r] = "write"
    /\ job[r].kind = "zip"
    /\ left[r] # {}
    /\ Return(r, FALSE)
    /\ UNCHANGED <<row, files, reveals, budgets, asked>>

LimitWritten(j) == CASE j.kind = "zip" -> "unset"
                     [] j.kind = "cdf" -> j.limit
                     [] OTHER -> "default"

WriteConfig(r) ==
    /\ at[r] = "write"
    /\ left[r] = {}
    /\ config' = IF dir THEN [cases |-> Cases(job[r].package), limit |-> LimitWritten(job[r])]
                        ELSE config
    /\ IF dir THEN GoTo(r, "save") /\ UNCHANGED <<job, copy, old, left, calm, solo>>
              ELSE Return(r, FALSE)
    /\ UNCHANGED <<row, dir, tests, reveals, budgets, asked>>

\* Mutated form: the row keeps the number of tests it had.
SaveUncounted(r) ==
    /\ at[r] = "save"
    /\ Save(copy[r])
    /\ Return(r, TRUE)
    /\ UNCHANGED <<files, reveals, budgets, asked>>

Counted(r) ==
    [copy[r] EXCEPT !.count = Size[job[r].package],
                    !.limit = IF job[r].kind = "cdf" THEN job[r].limit ELSE @]

\* The end of an import; when it was alone the tests are in order again.
SaveCount(r) ==
    /\ at[r] = "save"
    /\ Save(Counted(r))
    /\ Finish(r)
    /\ calm' = (calm \/ r \in solo)
    /\ UNCHANGED <<files, reveals, budgets, asked>>

\* A step fails, or the process stops: what has been done stays.
RequestFails(r) ==
    /\ at[r] # "idle"
    /\ Fault
    /\ IF at[r] = "clear"
       THEN \E kept \in SUBSET Tests :
                /\ tests' = [i \in Tests |-> IF i \in kept THEN tests[i] ELSE NoPackage]
                /\ Return(r, tests' = tests)
       ELSE Return(r, at[r] \notin {"write", "save"}) /\ UNCHANGED tests
    /\ UNCHANGED <<row, dir, config, reveals, used, asked>>

-----------------------------------------------------------------------------
(* The contest, the ticker and the settlement                              *)

ContestStarts ==
    /\ contestAt = "before"
    /\ contestAt' = "running"
    /\ UNCHANGED <<row, files, settling, ticker, requests, budgets, ghosts>>

ContestEnds ==
    /\ contestAt = "running"
    /\ contestAt' = "ended"
    /\ UNCHANGED <<row, files, settling, ticker, requests, budgets, ghosts>>

\* Mutated form: contests that are over are not looked at.
ListHiddenRunning ==
    /\ ticker = "idle"
    /\ contestAt = "running"
    /\ row.exists /\ ~row.visible
    /\ ticker' = "listed"
    /\ UNCHANGED <<row, files, contestAt, settling, requests, budgets, ghosts>>

\* GetStartedContestsWithoutReveal
ListHidden ==
    /\ ticker = "idle"
    /\ contestAt # "before"
    /\ row.exists /\ ~row.visible
    /\ ticker' = "listed"
    /\ UNCHANGED <<row, files, contestAt, settling, requests, budgets, ghosts>>

\* RevealContestProblems updates the column of the problems that still exist.
Reveal ==
    /\ ticker = "listed"
    /\ ticker' = "idle"
    /\ \/ row' = [row EXCEPT !.visible = row.exists] /\ UNCHANGED faults
       \/ Fault /\ UNCHANGED row
    /\ UNCHANGED <<files, contestAt, settling, requests, used, ghosts>>

MarkSettled ==
    /\ contestAt = "ended"
    /\ settling = "no"
    /\ settling' = "marked"
    /\ UNCHANGED <<row, files, contestAt, ticker, requests, budgets, ghosts>>

\* A settlement without players, or one that fails, shows no results.
RevealResults ==
    /\ settling = "marked"
    /\ settling' = "done"
    /\ row' = row \/ row' = [row EXCEPT !.results = row.exists]
    /\ UNCHANGED <<files, contestAt, ticker, requests, budgets, ghosts>>

-----------------------------------------------------------------------------
BeginRequest(r) ==
    \/ BeginUpdate(r)
    \/ BeginGroups(r)
    \/ DeleteRow(r)
    \/ BeginZip(r)
    \/ BeginTuack(r)
    \/ BeginCreate(r)
    \/ BeginCDF(r)

RequestStep(r) ==
    \/ SaveUpdate(r)
    \/ ReadLimit(r)
    \/ WriteLimit(r)
    \/ WriteGroups(r)
    \/ RemoveDirectory(r)
    \/ ClearTests(r)
    \/ MakeDirectory(r)
    \/ WriteTest(r)
    \/ WriteConfig(r)
    \/ SaveCount(r)

Next ==
    \/ \E r \in Threads : BeginRequest(r) \/ RequestStep(r) \/ RefusePackage(r)
                         \/ RequestFails(r)
    \/ ContestStarts \/ ContestEnds
    \/ ListHidden \/ Reveal
    \/ MarkSettled \/ RevealResults

Spec == Init /\ [][Next]_vars

\* Handlers go on, and the ticker ticks every minute.
Fairness ==
    /\ \A r \in Threads : WF_vars(RequestStep(r))
    /\ WF_vars(ListHidden)
    /\ WF_vars(Reveal)

FairSpec == Spec /\ Fairness
=============================================================================
