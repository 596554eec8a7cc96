-------------------------- MODULE ProblemStoreProofs --------------------------
(***************************************************************************)
(* Type correctness of a problem's row and files, that nothing is shown    *)
(* before its time and that tests are in order, for any number of requests *)
(* at once, any packages and any edits.                                    *)
(***************************************************************************)
EXTENDS ProblemStoreProps, TLAPS

\* The tests of a package are tests.
LEMMA CasesAreTests == \A p \in Packages : Cases(p) \subseteq Tests
<1>1. TAKE p \in Packages
<1>2. Size[p] \in Sizes
  BY <1>1 DEF Sizes
<1> QED
  BY <1>2 DEF Cases, Tests

\* Every edit is a request the types allow.
LEMMA EditsTyped ==
    \A e \in Edits :
        [NoJob EXCEPT !.kind = "update", !.limit = e.limit,
                      !.visible = e.visible, !.results = e.results] \in Jobs
<1> SUFFICES ASSUME NEW e \in Edits
             PROVE  [NoJob EXCEPT !.kind = "update", !.limit = e.limit,
                                  !.visible = e.visible, !.results = e.results] \in Jobs
  OBVIOUS
<1>1. /\ e.limit \in CustomLimits \union {"default", "keep"}
      /\ e.visible \in Wishes
      /\ e.results \in Wishes
  BY StoreAssumption DEF Wishes
<1> QED
  BY <1>1 DEF NoJob, Jobs, Kinds, Limits, Wishes

LEMMA RowsTyped == NoRow \in Rows /\ NewRow \in Rows /\ NoConfig \in Configs /\ NoJob \in Jobs
<1>1. NoRow \in Rows /\ NewRow \in Rows
  BY DEF NoRow, NewRow, Rows, Limits
<1>2. NoConfig \in Configs
  BY DEF NoConfig, Configs
<1>3. NoJob \in Jobs
  BY DEF NoJob, Jobs, Kinds, Wishes
<1> QED
  BY <1>1, <1>2, <1>3

-----------------------------------------------------------------------------
(* Types                                                                   *)

\* A request that writes tests has a package, one that writes a limit has a limit.
Fits(place, j) == /\ place \in {"clear", "write", "save"} => j.package \in Packages
                  /\ place \in {"readlimit", "writelimit"} => j.limit \in Limits
Held(thePlaces, theJobs) == \A r \in Threads : Fits(thePlaces[r], theJobs[r])

\* A request begins.
LEMMA BeginTyped ==
    ASSUME TypeOK, NEW r \in Threads, NEW place \in Places, NEW j \in Jobs, NEW read \in Rows,
           Fits(place, j),
           Begin(r, place, j, read)
    PROVE  /\ at' \in [Threads -> Places]
           /\ job' \in [Threads -> Jobs]
           /\ copy' \in [Threads -> Rows]
           /\ Held(at', job')
           /\ used' \in 0..MaxRequests
           /\ faults' \in 0..MaxFaults
           /\ calm' \in BOOLEAN
           /\ solo' \subseteq Threads
<1>1. /\ at' \in [Threads -> Places]
      /\ job' \in [Threads -> Jobs]
      /\ copy' \in [Threads -> Rows]
  BY DEF TypeOK, Begin, GoTo
<1>2. Held(at', job')
  BY DEF TypeOK, Begin, GoTo, Held, Fits
<1>3. used' \in 0..MaxRequests
  BY StoreAssumption DEF TypeOK, Begin
<1>4. faults' \in 0..MaxFaults
  BY DEF TypeOK, Begin
<1>5. calm' \in BOOLEAN
  BY DEF TypeOK, Begin, Alone
<1>6. solo' \subseteq Threads
  BY DEF TypeOK, Begin
<1> QED
  BY <1>1, <1>2, <1>3, <1>4, <1>5, <1>6

\* A request ends.
LEMMA FinishTyped ==
    ASSUME TypeOK, NEW r \in Threads, Finish(r)
    PROVE  /\ at' \in [Threads -> Places]
           /\ job' \in [Threads -> Jobs]
           /\ copy' \in [Threads -> Rows]
           /\ Held(at', job')
           /\ old' \in [Threads -> Configs]
           /\ left' \in [Threads -> SUBSET Tests]
           /\ solo' \subseteq Threads
<1>1. /\ at' \in [Threads -> Places]
      /\ job' \in [Threads -> Jobs]
      /\ copy' \in [Threads -> Rows]
  BY RowsTyped DEF TypeOK, Finish, GoTo, Places
<1>2. Held(at', job')
  BY DEF TypeOK, Finish, GoTo, Held, Fits
<1>3. /\ old' \in [Threads -> Configs]
      /\ left' \in [Threads -> SUBSET Tests]
      /\ solo' \subseteq Threads
  BY RowsTyped DEF TypeOK, Finish
<1> QED
  BY <1>1, <1>2, <1>3

\* A request goes to another place and keeps what it knows.
LEMMA GoToTyped ==
    ASSUME TypeOK, NEW r \in Threads, NEW place \in Places,
           Fits(place, job[r]),
           GoTo(r, place), UNCHANGED job
    PROVE  at' \in [Threads -> Places] /\ Held(at', job')
BY DEF TypeOK, GoTo, Held, Fits

\* The steps that end a request with calm decided by ok are typed.
LEMMA ReturnTyped ==
    ASSUME TypeOK, NEW r \in Threads, NEW ok \in BOOLEAN, Return(r, ok)
    PROVE  calm' \in BOOLEAN /\ Finish(r)
BY DEF TypeOK, Return

\* The rows that are saved are typed.
LEMMA SavedTyped ==
    ASSUME TypeOK, NEW r \in Threads
    PROVE  /\ Changed(r) \in Rows
           /\ job[r].package \in Packages => Counted(r) \in Rows
           /\ \A new \in Rows : Save(new) => row' \in Rows
<1>1. copy[r] \in Rows /\ job[r] \in Jobs
  BY DEF TypeOK
<1>2. Changed(r) \in Rows
  <2>1. Wish(job[r].visible, copy[r].visible) \in BOOLEAN
    BY <1>1 DEF Wish, Rows
  <2>2. Wish(job[r].results, copy[r].results) \in BOOLEAN
    BY <1>1 DEF Wish, Rows
  <2>3. (IF job[r].limit = "keep" THEN copy[r].limit ELSE job[r].limit) \in Limits
    BY <1>1 DEF Jobs, Rows
  <2> QED
    BY <1>1, <2>1, <2>2, <2>3 DEF Changed, Rows
<1>3. job[r].package \in Packages => Counted(r) \in Rows
  <2> SUFFICES ASSUME job[r].package \in Packages PROVE Counted(r) \in Rows
    OBVIOUS
  <2>1. Size[job[r].package] \in Nat
    BY StoreAssumption
  <2>2. (IF job[r].kind = "cdf" THEN job[r].limit ELSE copy[r].limit) \in Limits
    BY <1>1 DEF Jobs, Rows
  <2> QED
    BY <1>1, <2>1, <2>2 DEF Counted, Rows
<1>4. \A new \in Rows : Save(new) => row' \in Rows
  BY DEF Save, Rows
<1> QED
  BY <1>2, <1>3, <1>4

\* Every action keeps the types.
LEMMA TypeStep == TypeOK /\ [Next]_vars => TypeOK'
<1> SUFFICES ASSUME TypeOK, [Next]_vars PROVE TypeOK'
  OBVIOUS
<1> USE DEF reveals, files, requests, budgets, ghosts
<1>1. ASSUME NEW r \in Threads, BeginUpdate(r) PROVE TypeOK'
  <2>1. PICK e \in Edits :
           /\ Begin(r, "update", [NoJob EXCEPT !.kind = "update", !.limit = e.limit,
                                      !.visible = e.visible, !.results = e.results], row)
           /\ asked' = asked \union (IF e.visible = "show" THEN {"visible"} ELSE {})
                             \union (IF e.results = "show" THEN {"results"} ELSE {})
    BY <1>1 DEF BeginUpdate
  <2>2. [NoJob EXCEPT !.kind = "update", !.limit = e.limit,
                      !.visible = e.visible, !.results = e.results] \in Jobs
    BY EditsTyped
  <2>3. asked' \subseteq {"visible", "results"}
    BY <2>1 DEF TypeOK
  <2>4. "update" \in Places /\ row \in Rows
    BY DEF Places, TypeOK
  <2> QED
    BY <1>1, <2>1, <2>2, <2>3, <2>4, BeginTyped DEF TypeOK, BeginUpdate, Held, Fits
<1>2. ASSUME NEW r \in Threads, BeginGroups(r) PROVE TypeOK'
  <2>1. PICK cases \in Groupings :
           Begin(r, "groups", [NoJob EXCEPT !.kind = "groups", !.cases = cases], NoRow)
    BY <1>2 DEF BeginGroups
  <2>2. cases \subseteq Tests
    BY StoreAssumption DEF Tests, Sizes
  <2>3. [NoJob EXCEPT !.kind = "groups", !.cases = cases] \in Jobs
    BY <2>2, RowsTyped DEF Jobs, Kinds
  <2>4. "groups" \in Places /\ NoRow \in Rows
    BY RowsTyped DEF Places
  <2>5. old' \in [Threads -> Configs]
    BY <1>2 DEF BeginGroups, TypeOK
  <2> QED
    BY <1>2, <2>1, <2>3, <2>4, <2>5, BeginTyped DEF TypeOK, BeginGroups, Held, Fits
<1>3. ASSUME NEW r \in Threads, DeleteRow(r) PROVE TypeOK'
  <2>1. [NoJob EXCEPT !.kind = "delete"] \in Jobs
    BY RowsTyped DEF Jobs, Kinds
  <2>2. "remove" \in Places /\ NoRow \in Rows
    BY RowsTyped DEF Places
  <2> QED
    BY <1>3, <2>1, <2>2, BeginTyped DEF TypeOK, DeleteRow, Held, Fits
<1>4. ASSUME NEW r \in Threads, BeginZip(r) PROVE TypeOK'
  <2>1. PICK p \in Packages : Begin(r, "clear", [NoJob EXCEPT !.kind = "zip", !.package = p], row)
    BY <1>4 DEF BeginZip
  <2>2. [NoJob EXCEPT !.kind = "zip", !.package = p] \in Jobs
    BY RowsTyped DEF Jobs, Kinds
  <2>3. "clear" \in Places /\ row \in Rows
    BY DEF Places, TypeOK
  <2>4. Fits("clear", [NoJob EXCEPT !.kind = "zip", !.package = p])
    BY DEF Fits, NoJob
  <2> QED
    BY <1>4, <2>1, <2>2, <2>3, <2>4, BeginTyped DEF TypeOK, BeginZip, Held, Fits
<1>5. ASSUME NEW r \in Threads, BeginTuack(r) PROVE TypeOK'
  <2>1. PICK p \in Packages :
           /\ Begin(r, "write", [NoJob EXCEPT !.kind = "tuack", !.package = p], row)
           /\ left' = [left EXCEPT ![r] = Cases(p)]
    BY <1>5 DEF BeginTuack
  <2>2. [NoJob EXCEPT !.kind = "tuack", !.package = p] \in Jobs
    BY RowsTyped DEF Jobs, Kinds
  <2>3. Fits("write", [NoJob EXCEPT !.kind = "tuack", !.package = p])
    BY DEF Fits, NoJob
  <2>4. "write" \in Places /\ row \in Rows
    BY DEF Places, TypeOK
  <2>5. left' \in [Threads -> SUBSET Tests]
    BY <2>1, CasesAreTests DEF TypeOK
  <2> QED
    BY <1>5, <2>1, <2>2, <2>3, <2>4, <2>5, BeginTyped DEF TypeOK, BeginTuack, Held, Fits
<1>6. ASSUME NEW r \in Threads, BeginCreate(r) \/ BeginCDF(r) PROVE TypeOK'
  <2>1. PICK c \in Creations, kind \in {"create", "cdf"} : Create(r, kind, c)
    BY <1>6 DEF BeginCreate, BeginCDF
  <2>2. /\ c.package \in Packages \union {NoPackage}
        /\ c.limit \in Limits
        /\ c.limit # "keep"
    BY StoreAssumption DEF Limits
  <2> DEFINE j == [NoJob EXCEPT !.kind = kind, !.package = c.package, !.limit = c.limit]
  <2>3. j \in Jobs
    BY <2>2 DEF NoJob, Jobs, Kinds, Wishes, Limits
  <2>4. "mkdir" \in Places /\ NewRow \in Rows /\ Fits("mkdir", j)
    BY RowsTyped DEF Places, Fits
  <2>5. Begin(r, "mkdir", j, NewRow)
    BY <2>1 DEF Create
  <2> HIDE DEF j
  <2> QED
    BY <2>1, <2>3, <2>4, <2>5, BeginTyped DEF TypeOK, Create, Held, Fits
<1>7. ASSUME NEW r \in Threads, SaveUpdate(r) PROVE TypeOK'
  <2>1. row' \in Rows
    BY <1>7, SavedTyped DEF SaveUpdate
  <2>2. CASE Return(r, TRUE)
    BY <1>7, <2>1, <2>2, ReturnTyped, FinishTyped DEF TypeOK, SaveUpdate, Held, Fits
  <2>3. CASE GoTo(r, "readlimit") /\ UNCHANGED <<job, copy, old, left, calm, solo>>
    <3>1. "readlimit" \in Places /\ Fits("readlimit", job[r])
      BY <1>7, <2>3 DEF Places, Fits, SaveUpdate, TypeOK, Jobs, GoTo, Return, Finish
    <3> QED
      BY <1>7, <2>1, <2>3, <3>1, GoToTyped DEF TypeOK, SaveUpdate, Held, Fits
  <2> QED
    BY <1>7, <2>2, <2>3 DEF SaveUpdate
<1>8. ASSUME NEW r \in Threads, ReadLimit(r) PROVE TypeOK'
  <2>1. "writelimit" \in Places /\ Fits("writelimit", job[r])
    BY <1>8 DEF Places, Fits, ReadLimit, TypeOK
  <2>2. at' \in [Threads -> Places] /\ Held(at', job')
    BY <1>8, <2>1, GoToTyped DEF ReadLimit
  <2>3. old' \in [Threads -> Configs]
    BY <1>8 DEF TypeOK, ReadLimit
  <2> QED
    BY <1>8, <2>2, <2>3 DEF TypeOK, ReadLimit, Held, Fits
<1>9. ASSUME NEW r \in Threads, WriteLimit(r) PROVE TypeOK'
  <2>1. Return(r, TRUE)
    BY <1>9 DEF WriteLimit
  <2>2. job[r].limit \in Limits
    BY <1>9 DEF TypeOK, WriteLimit
  <2>3. config' \in Configs
    BY <1>9, <2>2 DEF TypeOK, WriteLimit, Configs
  <2> QED
    BY <1>9, <2>1, <2>3, ReturnTyped, FinishTyped DEF TypeOK, WriteLimit, Held, Fits
<1>10. ASSUME NEW r \in Threads, WriteGroups(r) PROVE TypeOK'
  <2>1. Return(r, FALSE)
    BY <1>10 DEF WriteGroups
  <2>2. config' \in Configs
    BY <1>10 DEF TypeOK, WriteGroups, Configs, Jobs
  <2> QED
    BY <1>10, <2>1, <2>2, ReturnTyped, FinishTyped DEF TypeOK, WriteGroups, Held, Fits
<1>11. ASSUME NEW r \in Threads, RemoveDirectory(r) PROVE TypeOK'
  <2>1. Return(r, TRUE)
    BY <1>11 DEF RemoveDirectory
  <2>2. tests' \in [Tests -> Packages \union {NoPackage}] /\ config' \in Configs
    BY <1>11, RowsTyped DEF RemoveDirectory, NoTests
  <2> QED
    BY <1>11, <2>1, <2>2, ReturnTyped, FinishTyped DEF TypeOK, RemoveDirectory, Held, Fits
<1>12. ASSUME NEW r \in Threads, ClearTests(r) PROVE TypeOK'
  <2>1. CASE dir
    <3>1. "write" \in Places /\ Fits("write", job[r])
      BY <1>12 DEF Places, Fits, ClearTests, TypeOK
    <3>2. left' \in [Threads -> SUBSET Tests]
      BY <1>12, <2>1, CasesAreTests DEF TypeOK, ClearTests
    <3>3. tests' \in [Tests -> Packages \union {NoPackage}]
      BY <1>12, <2>1 DEF ClearTests, NoTests
    <3> QED
      BY <1>12, <2>1, <3>1, <3>2, <3>3, GoToTyped DEF TypeOK, ClearTests, Held, Fits
  <2>2. CASE ~dir
    <3>1. Return(r, TRUE)
      BY <1>12, <2>2 DEF ClearTests
    <3> QED
      BY <1>12, <2>2, <3>1, ReturnTyped, FinishTyped DEF TypeOK, ClearTests, Held, Fits
  <2> QED
    BY <2>1, <2>2
<1>13. ASSUME NEW r \in Threads, MakeDirectory(r) PROVE TypeOK'
  <2>1. CASE job[r].package = NoPackage
    <3>1. Return(r, TRUE)
      BY <1>13, <2>1 DEF MakeDirectory
    <3> QED
      BY <1>13, <3>1, ReturnTyped, FinishTyped DEF TypeOK, MakeDirectory, Held, Fits
  <2>2. CASE job[r].package # NoPackage
    <3>1. job[r].package \in Packages
      BY <2>2 DEF TypeOK, Jobs
    <3>2. "write" \in Places /\ Fits("write", job[r])
      BY <3>1 DEF Places, Fits
    <3>3. left' \in [Threads -> SUBSET Tests]
      BY <1>13, <2>2, <3>1, CasesAreTests DEF TypeOK, MakeDirectory
    <3> QED
      BY <1>13, <2>2, <3>2, <3>3, GoToTyped DEF TypeOK, MakeDirectory, Held, Fits
  <2> QED
    BY <2>1, <2>2
<1>14. ASSUME NEW r \in Threads, WriteTest(r) PROVE TypeOK'
  <2>1. job[r].package \in Packages
    BY <1>14 DEF WriteTest, TypeOK
  <2>2. tests' \in [Tests -> Packages \union {NoPackage}]
    BY <1>14, <2>1 DEF WriteTest, TypeOK
  <2>3. CASE dir
    <3>1. left' \in [Threads -> SUBSET Tests] /\ UNCHANGED <<at, job, copy, old, calm, solo>>
      BY <1>14, <2>3 DEF WriteTest, TypeOK
    <3> QED
      BY <1>14, <2>2, <3>1 DEF TypeOK, WriteTest
  <2>4. CASE ~dir
    <3>1. Return(r, FALSE)
      BY <1>14, <2>4 DEF WriteTest
    <3> QED
      BY <1>14, <2>2, <3>1, ReturnTyped, FinishTyped DEF TypeOK, WriteTest, Held, Fits
  <2> QED
    BY <2>3, <2>4
<1>15. ASSUME NEW r \in Threads, WriteConfig(r) PROVE TypeOK'
  <2>1. job[r].package \in Packages /\ job[r] \in Jobs
    BY <1>15 DEF WriteConfig, TypeOK
  <2>2. config' \in Configs
    <3>1. LimitWritten(job[r]) \in Limits \union {"unset"}
      BY <2>1 DEF LimitWritten, Jobs, Limits
    <3>2. Cases(job[r].package) \subseteq Tests
      BY <2>1, CasesAreTests
    <3> QED
      BY <1>15, <3>1, <3>2 DEF WriteConfig, Configs, TypeOK
  <2>3. CASE dir
    <3>1. "save" \in Places /\ Fits("save", job[r])
      BY <2>1 DEF Places, Fits
    <3> QED
      BY <1>15, <2>2, <2>3, <3>1, GoToTyped DEF TypeOK, WriteConfig, Held, Fits
  <2>4. CASE ~dir
    <3>1. Return(r, FALSE)
      BY <1>15, <2>4 DEF WriteConfig
    <3> QED
      BY <1>15, <2>2, <3>1, ReturnTyped, FinishTyped DEF TypeOK, WriteConfig, Held, Fits
  <2> QED
    BY <2>3, <2>4
<1>16. ASSUME NEW r \in Threads, SaveCount(r) PROVE TypeOK'
  <2>1. row' \in Rows
    BY <1>16, SavedTyped DEF SaveCount, TypeOK
  <2>2. Finish(r) /\ calm' \in BOOLEAN
    BY <1>16 DEF SaveCount, TypeOK
  <2> QED
    BY <1>16, <2>1, <2>2, FinishTyped DEF TypeOK, SaveCount, Held, Fits
<1>17. ASSUME NEW r \in Threads, RefusePackage(r) PROVE TypeOK'
  <2>1. Return(r, FALSE)
    BY <1>17 DEF RefusePackage
  <2> QED
    BY <1>17, <2>1, ReturnTyped, FinishTyped DEF TypeOK, RefusePackage, Held, Fits
<1>18. ASSUME NEW r \in Threads, RequestFails(r) PROVE TypeOK'
  <2>1. tests' \in [Tests -> Packages \union {NoPackage}]
    BY <1>18 DEF RequestFails, TypeOK
  <2>2. faults' \in 0..MaxFaults
    BY <1>18, StoreAssumption DEF RequestFails, Fault, TypeOK
  <2>3. Finish(r) /\ calm' \in BOOLEAN
    <3>1. CASE at[r] = "clear"
      <4>1. Return(r, tests' = tests)
        BY <1>18, <3>1 DEF RequestFails
      <4> QED
        BY <4>1 DEF Return, TypeOK
    <3>2. CASE at[r] # "clear"
      <4>1. Return(r, at[r] \notin {"write", "save"})
        BY <1>18, <3>2 DEF RequestFails
      <4> QED
        BY <4>1 DEF Return, TypeOK
    <3> QED
      BY <3>1, <3>2
  <2> QED
    BY <1>18, <2>1, <2>2, <2>3, FinishTyped DEF TypeOK, RequestFails, Held, Fits
<1>19. ASSUME Reveal PROVE TypeOK'
  <2>1. row' \in Rows
    BY <1>19 DEF Reveal, TypeOK, Rows
  <2>2. faults' \in 0..MaxFaults
    BY <1>19, StoreAssumption DEF Reveal, Fault, TypeOK
  <2> QED
    BY <1>19, <2>1, <2>2 DEF Reveal, TypeOK
<1>20. ASSUME RevealResults PROVE TypeOK'
  <2>1. row' \in Rows
    BY <1>20 DEF RevealResults, TypeOK, Rows
  <2> QED
    BY <1>20, <2>1 DEF RevealResults, TypeOK
<1>21. ASSUME ContestStarts \/ ContestEnds \/ ListHidden \/ MarkSettled PROVE TypeOK'
  BY <1>21 DEF ContestStarts, ContestEnds, ListHidden, MarkSettled, TypeOK
<1>22. ASSUME UNCHANGED vars PROVE TypeOK'
  BY <1>22 DEF vars, TypeOK
<1> QED
  BY <1>1, <1>2, <1>3, <1>4, <1>5, <1>6, <1>7, <1>8, <1>9, <1>10, <1>11, <1>12, <1>13,
     <1>14, <1>15, <1>16, <1>17, <1>18, <1>19, <1>20, <1>21, <1>22
     DEF Next, BeginRequest, RequestStep

(***************************************************************************)
(* Whatever the number of requests, packages, edits and failures, every    *)
(* reachable state is well typed: no request writes tests without a package*)
(* or a limit it was not given.                                            *)
(***************************************************************************)
THEOREM TypeCorrect == Spec => []TypeOK
<1>1. Init => TypeOK
  <2> SUFFICES ASSUME Init PROVE TypeOK
    OBVIOUS
  <2>1. /\ at \in [Threads -> Places]
        /\ \A r \in Threads : at[r] = "idle"
    BY DEF Init, Places
  <2>2. used \in 0..MaxRequests /\ faults \in 0..MaxFaults
    BY StoreAssumption DEF Init
  <2>3. tests \in [Tests -> Packages \union {NoPackage}]
    BY DEF Init, NoTests
  <2> QED
    BY <2>1, <2>2, <2>3, RowsTyped DEF Init, TypeOK
<1>2. TypeOK /\ [Next]_vars => TypeOK'
  BY TypeStep
<1> QED
  BY <1>1, <1>2, PTL DEF Spec

-----------------------------------------------------------------------------
(* Nothing is shown early.  A stale row that is saved late must have been  *)
(* due when it was read and is due ever after, since contests only go on   *)
(* and what was asked stays asked.                                         *)

\* A request that ends shows nothing any more.
LEMMA FinishDue ==
    ASSUME TypeOK, DueInv, NEW r \in Threads, Finish(r), UNCHANGED <<contestAt, asked>>
    PROVE  \A q \in Threads :
              /\ Due(copy[q])'
              /\ (job[q].visible = "show" => "visible" \in asked)'
              /\ (job[q].results = "show" => "results" \in asked)'
<1> TAKE q \in Threads
<1>1. CASE q = r
  BY <1>1 DEF TypeOK, Finish, Due, NoRow, NoJob
<1>2. CASE q # r
  BY <1>2 DEF TypeOK, Finish, DueInv, Due
<1> QED
  BY <1>1, <1>2

\* A request that begins has read a row that is due, and what it shows was asked for.
LEMMA BeginDue ==
    ASSUME TypeOK, DueInv, NEW r \in Threads, NEW place, NEW j, NEW read,
           Begin(r, place, j, read), UNCHANGED contestAt, asked \subseteq asked', Due(read),
           j.visible = "show" => "visible" \in asked',
           j.results = "show" => "results" \in asked'
    PROVE  \A q \in Threads :
              /\ Due(copy[q])'
              /\ (job[q].visible = "show" => "visible" \in asked)'
              /\ (job[q].results = "show" => "results" \in asked)'
<1> TAKE q \in Threads
<1>1. CASE q = r
  BY <1>1 DEF TypeOK, Begin, Due
<1>2. CASE q # r
  BY <1>2 DEF TypeOK, Begin, DueInv, Due
<1> QED
  BY <1>1, <1>2

\* A row that is saved shows what its request read or will show.
LEMMA SavedDue ==
    ASSUME TypeOK, DueInv, NEW r \in Threads
    PROVE  /\ Due(Changed(r))
           /\ Due(Counted(r))
           /\ \A new \in Rows : Save(new) /\ Due(new) /\ UNCHANGED <<contestAt, asked>> => Due(row)'
<1>1. copy[r] \in Rows /\ job[r] \in Jobs
  BY DEF TypeOK
<1>2. Due(Changed(r))
  BY <1>1 DEF Changed, Wish, DueInv, Due, Rows
<1>3. Due(Counted(r))
  BY <1>1 DEF Counted, DueInv, Due, Rows
<1>4. \A new \in Rows : Save(new) /\ Due(new) /\ UNCHANGED <<contestAt, asked>> => Due(row)'
  BY DEF Save, Due, Rows
<1> QED
  BY <1>2, <1>3, <1>4

LEMMA DueStep == TypeOK /\ DueInv /\ [Next]_vars => DueInv'
<1> SUFFICES ASSUME TypeOK, DueInv, [Next]_vars PROVE DueInv'
  OBVIOUS
<1> USE DEF reveals, files, requests, budgets, ghosts
<1>1. ASSUME NEW r \in Threads, BeginUpdate(r) PROVE DueInv'
  <2>1. PICK e \in Edits :
           /\ Begin(r, "update", [NoJob EXCEPT !.kind = "update", !.limit = e.limit,
                                      !.visible = e.visible, !.results = e.results], row)
           /\ asked' = asked \union (IF e.visible = "show" THEN {"visible"} ELSE {})
                             \union (IF e.results = "show" THEN {"results"} ELSE {})
    BY <1>1 DEF BeginUpdate
  <2> DEFINE j == [NoJob EXCEPT !.kind = "update", !.limit = e.limit,
                                !.visible = e.visible, !.results = e.results]
  <2>2. j.visible = e.visible /\ j.results = e.results
    BY DEF NoJob
  <2>3. Begin(r, "update", j, row)
    BY <2>1
  <2>4. Due(row)
    BY DEF DueInv
  <2> HIDE DEF j
  <2>5. \A q \in Threads :
              /\ Due(copy[q])'
              /\ (job[q].visible = "show" => "visible" \in asked)'
              /\ (job[q].results = "show" => "results" \in asked)'
    BY <1>1, <2>1, <2>2, <2>3, <2>4, BeginDue DEF BeginUpdate
  <2> QED
    BY <1>1, <2>1, <2>5 DEF BeginUpdate, DueInv, Due
<1>2. ASSUME NEW r \in Threads, BeginGroups(r) PROVE DueInv'
  <2>1. PICK cases \in Groupings :
           Begin(r, "groups", [NoJob EXCEPT !.kind = "groups", !.cases = cases], NoRow)
    BY <1>2 DEF BeginGroups
  <2> DEFINE j == [NoJob EXCEPT !.kind = "groups", !.cases = cases]
  <2>2. j.visible = "keep" /\ j.results = "keep" /\ Due(NoRow) /\ Begin(r, "groups", j, NoRow)
    BY <2>1 DEF NoJob, NoRow, Due
  <2> HIDE DEF j
  <2> QED
    BY <1>2, <2>2, BeginDue DEF BeginGroups, DueInv, Due
<1>3. ASSUME NEW r \in Threads, DeleteRow(r) PROVE DueInv'
  <2> DEFINE j == [NoJob EXCEPT !.kind = "delete"]
  <2>1. j.visible = "keep" /\ j.results = "keep" /\ Due(NoRow) /\ Begin(r, "remove", j, NoRow)
    BY <1>3 DEF DeleteRow, NoJob, NoRow, Due
  <2>2. Due(row)'
    BY <1>3 DEF DeleteRow, NoRow, Due
  <2> HIDE DEF j
  <2> QED
    BY <1>3, <2>1, <2>2, BeginDue DEF DeleteRow, DueInv
<1>4. ASSUME NEW r \in Threads, BeginZip(r) PROVE DueInv'
  <2>1. PICK p \in Packages : Begin(r, "clear", [NoJob EXCEPT !.kind = "zip", !.package = p], row)
    BY <1>4 DEF BeginZip
  <2> DEFINE j == [NoJob EXCEPT !.kind = "zip", !.package = p]
  <2>2. j.visible = "keep" /\ j.results = "keep" /\ Due(row) /\ Begin(r, "clear", j, row)
    BY <2>1 DEF NoJob, DueInv
  <2> HIDE DEF j
  <2> QED
    BY <1>4, <2>2, BeginDue DEF BeginZip, DueInv, Due
<1>5. ASSUME NEW r \in Threads, BeginTuack(r) PROVE DueInv'
  <2>1. PICK p \in Packages : Begin(r, "write", [NoJob EXCEPT !.kind = "tuack", !.package = p], row)
    BY <1>5 DEF BeginTuack
  <2> DEFINE j == [NoJob EXCEPT !.kind = "tuack", !.package = p]
  <2>2. j.visible = "keep" /\ j.results = "keep" /\ Due(row) /\ Begin(r, "write", j, row)
    BY <2>1 DEF NoJob, DueInv
  <2> HIDE DEF j
  <2> QED
    BY <1>5, <2>2, BeginDue DEF BeginTuack, DueInv, Due
<1>6. ASSUME NEW r \in Threads, BeginCreate(r) \/ BeginCDF(r) PROVE DueInv'
  <2>1. PICK c \in Creations, kind \in {"create", "cdf"} : Create(r, kind, c)
    BY <1>6 DEF BeginCreate, BeginCDF
  <2> DEFINE j == [NoJob EXCEPT !.kind = kind, !.package = c.package, !.limit = c.limit]
  <2>2. j.visible = "keep" /\ j.results = "keep" /\ Due(NewRow) /\ Begin(r, "mkdir", j, NewRow)
    BY <2>1 DEF Create, NoJob, NewRow, NoRow, Due
  <2>3. Due(row)'
    BY <2>1 DEF Create, NewRow, NoRow, Due
  <2> HIDE DEF j
  <2> QED
    BY <2>1, <2>2, <2>3, BeginDue DEF Create, DueInv
<1>7. ASSUME NEW r \in Threads, SaveUpdate(r) PROVE DueInv'
  <2>1. Due(row)'
    BY <1>7, SavedDue, SavedTyped DEF SaveUpdate
  <2>2. CASE Return(r, TRUE)
    BY <1>7, <2>1, <2>2, FinishDue DEF SaveUpdate, Return, DueInv
  <2>3. CASE UNCHANGED <<job, copy>>
    BY <1>7, <2>1, <2>3 DEF SaveUpdate, DueInv, Due
  <2> QED
    BY <1>7, <2>2, <2>3 DEF SaveUpdate
<1>8. ASSUME NEW r \in Threads, SaveCount(r) PROVE DueInv'
  <2>1. Due(row)'
    BY <1>8, SavedDue, SavedTyped DEF SaveCount, TypeOK
  <2> QED
    BY <1>8, <2>1, FinishDue DEF SaveCount, DueInv
<1>9. ASSUME NEW r \in Threads, UNCHANGED <<row, reveals, asked>>,
             Finish(r) \/ UNCHANGED <<job, copy>>
      PROVE  DueInv'
  <2>1. CASE Finish(r)
    BY <1>9, <2>1, FinishDue DEF DueInv, Due
  <2>2. CASE UNCHANGED <<job, copy>>
    BY <1>9, <2>2 DEF DueInv, Due
  <2> QED
    BY <1>9, <2>1, <2>2
<1>10. ASSUME NEW r \in Threads,
              \/ ReadLimit(r) \/ WriteLimit(r) \/ WriteGroups(r) \/ RemoveDirectory(r)
              \/ ClearTests(r) \/ MakeDirectory(r) \/ WriteTest(r) \/ WriteConfig(r)
              \/ RefusePackage(r) \/ RequestFails(r)
       PROVE  DueInv'
  <2>1. UNCHANGED <<row, reveals, asked>>
    BY <1>10 DEF ReadLimit, WriteLimit, WriteGroups, RemoveDirectory, ClearTests, MakeDirectory,
                 WriteTest, WriteConfig, RefusePackage, RequestFails
  <2>2. Finish(r) \/ UNCHANGED <<job, copy>>
    BY <1>10 DEF ReadLimit, WriteLimit, WriteGroups, RemoveDirectory, ClearTests, MakeDirectory,
                 WriteTest, WriteConfig, RefusePackage, RequestFails, Return
  <2> QED
    BY <2>1, <2>2, <1>9
<1>11. ASSUME ContestStarts \/ ContestEnds \/ ListHidden \/ MarkSettled PROVE DueInv'
  BY <1>11 DEF ContestStarts, ContestEnds, ListHidden, MarkSettled, DueInv, Due
<1>12. ASSUME Reveal \/ RevealResults PROVE DueInv'
  <2>1. Due(row)'
    BY <1>12 DEF Reveal, RevealResults, DueInv, Due, TypeOK, Rows
  <2> QED
    BY <1>12, <2>1 DEF Reveal, RevealResults, DueInv, Due
<1>13. ASSUME UNCHANGED vars PROVE DueInv'
  BY <1>13 DEF vars, DueInv, Due
<1> QED
  BY <1>1, <1>2, <1>3, <1>4, <1>5, <1>6, <1>7, <1>8, <1>10, <1>11, <1>12, <1>13
     DEF Next, BeginRequest, RequestStep

(***************************************************************************)
(* However many requests save stale rows, fail or are deleted under, the   *)
(* problem is not shown before its contest starts, nor its results before  *)
(* the contest ends, unless an editor has asked for it.                    *)
(***************************************************************************)
THEOREM NothingShownEarlyAlways == Spec => []NothingShownEarly
<1>1. Init => DueInv
  BY DEF Init, DueInv, Due, NoRow, NoJob
<1>2. DueInv => NothingShownEarly
  BY DEF DueInv, Due, NothingShownEarly
<1> QED
  BY <1>1, <1>2, TypeCorrect, DueStep, PTL DEF Spec

-----------------------------------------------------------------------------
(* The tests are in order.  A request that is alone knows how far the row, *)
(* config.json and the test files agree with what it has read and written. *)

Agrees(r) ==
    /\ at[r] = "update" => row.exists /\ copy[r].count = row.count
    /\ at[r] = "writelimit" => old[r].cases = config.cases
    /\ at[r] = "remove" => ~row.exists
    /\ at[r] = "write" =>
        \A i \in Cases(job[r].package) \ left[r] : tests[i] = job[r].package
    /\ at[r] = "save" =>
        /\ config.cases = Cases(job[r].package)
        /\ \A i \in Cases(job[r].package) : tests[i] = job[r].package

\* A solo request is the only one, and while the store is calm every request is solo.
SoloInv ==
    /\ \A r \in solo : at[r] # "idle" /\ Alone(r)
    /\ calm => \A r \in Threads : at[r] # "idle" => r \in solo

Importing == \E r \in Threads : at[r] \in {"write", "save"}

\* Before the first request there is no config.json, and an import is the only calm time
\* at which the tests may be out of order.
Orderly ==
    /\ used = 0 => AtRest /\ config = NoConfig
    /\ calm /\ ~Importing /\ row.exists => InOrder

OrderInv == SoloInv /\ Orderly /\ \A r \in solo : Agrees(r)

LEMMA SoloBegins ==
    ASSUME TypeOK, SoloInv, NEW r \in Threads, NEW place \in Places \ {"idle"}, NEW j,
           NEW read, Begin(r, place, j, read)
    PROVE  SoloInv' /\ solo' \subseteq {r} /\ (r \in solo' <=> Alone(r))
<1>1. /\ at' = [at EXCEPT ![r] = place]
      /\ solo' = IF Alone(r) THEN {r} ELSE {}
      /\ calm' = (calm /\ Alone(r))
  BY DEF Begin, GoTo
<1>2. Alone(r)' <=> Alone(r)
  BY <1>1 DEF Alone, TypeOK
<1>3. Alone(r) => \A q \in Threads : at'[q] # "idle" => q = r
  BY <1>1 DEF Alone, TypeOK
<1> QED
  BY <1>1, <1>2, <1>3 DEF SoloInv, TypeOK

LEMMA SoloEnds ==
    ASSUME TypeOK, SoloInv, NEW r \in Threads, Finish(r),
           calm' => calm \/ r \in solo
    PROVE  SoloInv' /\ r \notin solo'
<1>1. /\ at' = [at EXCEPT ![r] = "idle"]
      /\ solo' = solo \ {r}
  BY DEF Finish, GoTo
<1>2. ASSUME NEW q \in solo'
      PROVE  at'[q] # "idle" /\ Alone(q)'
  BY <1>1, <1>2 DEF SoloInv, Alone, TypeOK
<1>3. ASSUME calm', NEW q \in Threads, at'[q] # "idle"
      PROVE  q \in solo'
  <2>1. q # r /\ at[q] # "idle"
    BY <1>1, <1>3 DEF TypeOK
  <2>2. r \notin solo
    BY <2>1 DEF SoloInv, Alone
  <2> QED
    BY <1>1, <1>3, <2>1, <2>2 DEF SoloInv
<1> QED
  BY <1>1, <1>2, <1>3 DEF SoloInv

LEMMA SoloGoesOn ==
    ASSUME TypeOK, SoloInv, NEW r \in Threads, at[r] # "idle",
           NEW place \in Places \ {"idle"}, GoTo(r, place) \/ UNCHANGED at,
           UNCHANGED <<calm, solo>>
    PROVE  SoloInv'
<1>1. \A q \in Threads : at'[q] # "idle" <=> at[q] # "idle"
  BY DEF GoTo, TypeOK
<1> QED
  BY <1>1 DEF SoloInv, Alone, TypeOK

\* The order depends on the tests listed, the test files and the number in the row.
LEMMA OrderKept ==
    ASSUME InOrder, config'.cases = config.cases, row'.count = row.count, UNCHANGED tests
    PROVE  InOrder'
  BY DEF InOrder

\* While a request is at work, it is the solo one, or no request is and nothing is calm.
LEMMA OnlySolo ==
    ASSUME SoloInv, NEW r \in Threads, at[r] # "idle"
    PROVE  solo \subseteq {r} /\ (r \notin solo => ~calm)
  BY DEF SoloInv, Alone

\* It is therefore enough to look at a solo request and at what it leaves behind.
LEMMA OrderFromSolo ==
    ASSUME TypeOK, OrderInv, NEW r \in Threads, at[r] # "idle", SoloInv',
           solo' \subseteq solo, calm' => calm \/ r \in solo, UNCHANGED used,
           r \in solo => /\ r \in solo' => Agrees(r)'
                         /\ calm' /\ at'[r] \notin {"write", "save"} /\ row'.exists => InOrder'
    PROVE  OrderInv'
<1>1. solo \subseteq {r} /\ (r \notin solo => ~calm)
  BY OnlySolo DEF OrderInv
<1>2. used' # 0
  BY DEF OrderInv, Orderly, AtRest
<1>3. \A q \in solo' : Agrees(q)'
  BY <1>1
<1>4. calm' /\ ~Importing' /\ row'.exists => InOrder'
  BY <1>1 DEF Importing
<1> QED
  BY <1>2, <1>3, <1>4 DEF OrderInv, Orderly

-----------------------------------------------------------------------------
(* ... requests that begin                                                 *)

\* A request that begins alone finds the tests in order if the store is calm.
LEMMA OrderFromBegin ==
    ASSUME TypeOK, OrderInv, NEW r \in Threads, NEW place \in Places \ {"idle"}, NEW j,
           NEW read, Begin(r, place, j, read), UNCHANGED files,
           Alone(r) => Agrees(r)',
           \/ UNCHANGED row
           \/ row'.exists = FALSE
           \/ config.cases = {} /\ row'.count = 0
    PROVE  OrderInv'
<1>1. SoloInv' /\ solo' \subseteq {r} /\ (r \in solo' <=> Alone(r))
  BY SoloBegins DEF OrderInv
<1>2. used' # 0
  <2>1. used' = used + 1 /\ used \in 0..MaxRequests
    BY DEF Begin, TypeOK
  <2> QED
    BY <2>1, StoreAssumption
<1>3. \A q \in solo' : Agrees(q)'
  BY <1>1
<1>4. ASSUME calm', ~Importing', row'.exists
      PROVE  InOrder'
  <2>1. calm /\ Alone(r) /\ at'[r] = place /\ at[r] = "idle"
    BY <1>4 DEF Begin, GoTo, TypeOK
  <2>3. ~Importing
    BY <2>1 DEF Importing, Alone
  <2>4. UNCHANGED <<tests, config>>
    BY DEF files
  <2>5. CASE UNCHANGED row
    <3>1. InOrder
      BY <1>4, <2>1, <2>3, <2>5 DEF OrderInv, Orderly
    <3> QED
      BY <2>4, <2>5, <3>1, OrderKept
  <2>6. CASE config.cases = {} /\ row'.count = 0
    BY <2>4, <2>6 DEF InOrder
  <2> QED
    BY <1>4, <2>5, <2>6
<1> QED
  BY <1>1, <1>2, <1>3, <1>4 DEF OrderInv, Orderly

LEMMA OrderBegins ==
    ASSUME TypeOK, OrderInv, NEW r \in Threads, BeginRequest(r)
    PROVE  OrderInv'
<1>1. CASE BeginUpdate(r)
  <2>1. PICK j : Begin(r, "update", j, row)
    BY <1>1 DEF BeginUpdate
  <2>2. Agrees(r)'
    BY <1>1, <2>1 DEF BeginUpdate, Begin, GoTo, Agrees, TypeOK
  <2>3. UNCHANGED row /\ UNCHANGED files
    BY <1>1 DEF BeginUpdate
  <2> QED
    BY <2>1, <2>2, <2>3, OrderFromBegin DEF Places
<1>2. CASE BeginGroups(r)
  <2>1. PICK j : Begin(r, "groups", j, NoRow)
    BY <1>2 DEF BeginGroups
  <2>2. Agrees(r)'
    BY <2>1 DEF Begin, GoTo, Agrees, TypeOK
  <2>3. UNCHANGED row /\ UNCHANGED files
    BY <1>2 DEF BeginGroups
  <2> QED
    BY <2>1, <2>2, <2>3, OrderFromBegin DEF Places
<1>3. CASE DeleteRow(r)
  <2>1. PICK j : Begin(r, "remove", j, NoRow)
    BY <1>3 DEF DeleteRow
  <2>2. row'.exists = FALSE
    BY <1>3 DEF DeleteRow, NoRow
  <2>3. Agrees(r)'
    BY <2>1, <2>2 DEF Begin, GoTo, Agrees, TypeOK
  <2> QED
    BY <1>3, <2>1, <2>2, <2>3, OrderFromBegin DEF DeleteRow, Places
<1>4. CASE BeginZip(r)
  <2>1. PICK j : Begin(r, "clear", j, row)
    BY <1>4 DEF BeginZip
  <2>2. Agrees(r)'
    BY <2>1 DEF Begin, GoTo, Agrees, TypeOK
  <2>3. UNCHANGED row /\ UNCHANGED files
    BY <1>4 DEF BeginZip
  <2> QED
    BY <2>1, <2>2, <2>3, OrderFromBegin DEF Places
<1>5. CASE BeginTuack(r)
  <2>1. PICK p \in Packages :
          /\ Begin(r, "write", [NoJob EXCEPT !.kind = "tuack", !.package = p], row)
          /\ left' = [left EXCEPT ![r] = Cases(p)]
    BY <1>5 DEF BeginTuack
  <2>2. job'[r].package = p /\ left'[r] = Cases(p) /\ at'[r] = "write"
    BY <2>1 DEF Begin, GoTo, TypeOK, NoJob
  <2>3. Agrees(r)'
    BY <2>2 DEF Agrees
  <2> QED
    BY <1>5, <2>1, <2>3, OrderFromBegin DEF BeginTuack, Places
<1>6. CASE BeginCreate(r) \/ BeginCDF(r)
  <2>1. PICK c \in Creations, kind \in {"create", "cdf"} : Create(r, kind, c)
    BY <1>6 DEF BeginCreate, BeginCDF
  <2>2. PICK j : Begin(r, "mkdir", j, NewRow)
    BY <2>1 DEF Create
  <2>3. Agrees(r)'
    BY <2>2 DEF Begin, GoTo, Agrees, TypeOK
  <2>4. config.cases = {} /\ row'.count = 0
    BY <2>1 DEF Create, OrderInv, Orderly, NoConfig, NewRow, NoRow
  <2> QED
    BY <2>1, <2>2, <2>3, <2>4, OrderFromBegin DEF Create, Places
<1> QED
  BY <1>1, <1>2, <1>3, <1>4, <1>5, <1>6 DEF BeginRequest

-----------------------------------------------------------------------------
(* ... requests that go on                                                 *)

\* What a request at work that is solo has around it.
LEMMA SoloFinds ==
    ASSUME OrderInv, NEW r \in Threads, r \in solo
    PROVE  /\ Agrees(r)
           /\ calm /\ at[r] \notin {"write", "save"} /\ row.exists => InOrder
<1>1. Importing => at[r] \in {"write", "save"}
  BY DEF OrderInv, SoloInv, Alone, Importing
<1> QED
  BY <1>1 DEF OrderInv, Orderly

\* A request goes to another place.
LEMMA OrderGoesOn ==
    ASSUME TypeOK, OrderInv, NEW r \in Threads, at[r] # "idle",
           NEW place \in Places \ {"idle"}, GoTo(r, place) \/ UNCHANGED at,
           UNCHANGED <<calm, solo, used>>,
           r \in solo => /\ Agrees(r)'
                         /\ calm /\ at'[r] \notin {"write", "save"} /\ row'.exists => InOrder'
    PROVE  OrderInv'
<1>1. SoloInv'
  BY SoloGoesOn DEF OrderInv
<1> QED
  BY <1>1, OrderFromSolo

\* A request ends.
LEMMA OrderEnds ==
    ASSUME TypeOK, OrderInv, NEW r \in Threads, at[r] # "idle",
           Finish(r), UNCHANGED used, calm' => calm \/ r \in solo,
           r \in solo => (calm' /\ row'.exists => InOrder')
    PROVE  OrderInv'
<1>1. SoloInv' /\ r \notin solo'
  BY SoloEnds DEF OrderInv
<1>2. solo' \subseteq solo
  BY DEF Finish
<1> QED
  BY <1>1, <1>2, OrderFromSolo

LEMMA OrderUpdates ==
    ASSUME TypeOK, OrderInv, NEW r \in Threads,
           SaveUpdate(r) \/ ReadLimit(r) \/ WriteLimit(r)
    PROVE  OrderInv'
<1>1. CASE SaveUpdate(r)
  <2>1. at[r] = "update" /\ UNCHANGED <<tests, config, used>>
    BY <1>1 DEF SaveUpdate, files, budgets
  <2>2. row'.count = copy[r].count
    BY <1>1 DEF SaveUpdate, Save, Changed, TypeOK, Rows
  <2>3. r \in solo => (calm => InOrder')
    <3>1. r \in solo => row.exists /\ copy[r].count = row.count /\ (calm => InOrder)
      BY <2>1, SoloFinds DEF Agrees
    <3> QED
      BY <2>1, <2>2, <3>1, OrderKept
  <2>4. CASE Return(r, TRUE)
    BY <2>1, <2>3, <2>4, OrderEnds DEF Return
  <2>5. CASE GoTo(r, "readlimit") /\ UNCHANGED <<calm, solo>>
    <3>1. Agrees(r)'
      BY <2>5 DEF Agrees, GoTo, TypeOK
    <3> QED
      BY <2>1, <2>3, <2>5, <3>1, OrderGoesOn DEF Places
  <2> QED
    BY <1>1, <2>4, <2>5 DEF SaveUpdate
<1>2. CASE ReadLimit(r)
  <2>1. at[r] = "readlimit" /\ UNCHANGED <<row, tests, config, used, calm, solo>>
    BY <1>2 DEF ReadLimit, files, budgets, ghosts
  <2>2. Agrees(r)' /\ GoTo(r, "writelimit")
    BY <1>2, <2>1 DEF ReadLimit, Agrees, GoTo, TypeOK
  <2>3. r \in solo => (calm /\ row.exists => InOrder')
    BY <2>1, SoloFinds, OrderKept
  <2> QED
    BY <2>1, <2>2, <2>3, OrderGoesOn DEF Places
<1>3. CASE WriteLimit(r)
  <2>1. at[r] = "writelimit" /\ UNCHANGED <<row, tests, used>> /\ Return(r, TRUE)
    BY <1>3 DEF WriteLimit, budgets
  <2>2. r \in solo => config'.cases = config.cases
    <3>1. r \in solo => old[r].cases = config.cases
      BY <2>1, SoloFinds DEF Agrees
    <3>2. config'.cases \in {config.cases, old[r].cases}
      BY <1>3 DEF WriteLimit, TypeOK, Configs
    <3> QED
      BY <3>1, <3>2
  <2>3. r \in solo => (calm /\ row.exists => InOrder')
    BY <2>1, <2>2, SoloFinds, OrderKept
  <2> QED
    BY <2>1, <2>3, OrderEnds DEF Return
<1> QED
  BY <1>1, <1>2, <1>3

LEMMA OrderDirectories ==
    ASSUME TypeOK, OrderInv, NEW r \in Threads,
           WriteGroups(r) \/ RemoveDirectory(r) \/ MakeDirectory(r)
    PROVE  OrderInv'
<1>1. CASE WriteGroups(r)
  BY <1>1, OrderEnds DEF WriteGroups, Return, budgets
<1>2. CASE RemoveDirectory(r)
  <2>1. at[r] = "remove" /\ UNCHANGED <<row, used>> /\ Return(r, TRUE)
    BY <1>2 DEF RemoveDirectory, budgets
  <2>2. r \in solo => ~row.exists
    BY <2>1, SoloFinds DEF Agrees
  <2> QED
    BY <2>1, <2>2, OrderEnds DEF Return
<1>3. CASE MakeDirectory(r)
  <2>1. at[r] = "mkdir" /\ UNCHANGED <<row, tests, config, used>>
    BY <1>3 DEF MakeDirectory, budgets
  <2>2. CASE Return(r, TRUE)
    <3>1. r \in solo => (calm /\ row.exists => InOrder')
      BY <2>1, SoloFinds, OrderKept
    <3> QED
      BY <2>1, <2>2, <3>1, OrderEnds DEF Return
  <2>3. CASE GoTo(r, "write") /\ UNCHANGED <<job, calm, solo>>
             /\ left' = [left EXCEPT ![r] = Cases(job[r].package)]
    <3>1. at'[r] = "write" /\ left'[r] = Cases(job[r].package)
      BY <2>3 DEF GoTo, TypeOK
    <3>2. Agrees(r)'
      BY <2>3, <3>1 DEF Agrees
    <3> QED
      BY <2>1, <2>3, <3>1, <3>2, OrderGoesOn DEF Places
  <2> QED
    BY <1>3, <2>2, <2>3 DEF MakeDirectory
<1> QED
  BY <1>1, <1>2, <1>3

LEMMA OrderImports ==
    ASSUME TypeOK, OrderInv, NEW r \in Threads,
           ClearTests(r) \/ WriteTest(r) \/ WriteConfig(r) \/ SaveCount(r)
    PROVE  OrderInv'
<1>1. CASE ClearTests(r)
  <2>1. at[r] = "clear" /\ UNCHANGED <<row, config, used>>
    BY <1>1 DEF ClearTests, budgets
  <2>2. CASE dir
    <3>1. /\ GoTo(r, "write") /\ UNCHANGED <<job, calm, solo>>
          /\ left' = [left EXCEPT ![r] = Cases(job[r].package)]
      BY <1>1, <2>2 DEF ClearTests
    <3>2. at'[r] = "write" /\ left'[r] = Cases(job[r].package)
      BY <3>1 DEF GoTo, TypeOK
    <3>3. Agrees(r)'
      BY <3>1, <3>2 DEF Agrees
    <3> QED
      BY <2>1, <3>1, <3>2, <3>3, OrderGoesOn DEF Places
  <2>3. CASE ~dir
    <3>1. Return(r, TRUE) /\ UNCHANGED tests
      BY <1>1, <2>3 DEF ClearTests
    <3>2. r \in solo => (calm /\ row.exists => InOrder')
      BY <2>1, <3>1, SoloFinds, OrderKept
    <3> QED
      BY <2>1, <3>1, <3>2, OrderEnds DEF Return
  <2> QED
    BY <2>2, <2>3
<1>2. CASE WriteTest(r)
  <2>1. at[r] = "write" /\ UNCHANGED <<row, config, used>>
    BY <1>2 DEF WriteTest, budgets
  <2>2. CASE dir
    <3>1. PICK i \in left[r] : /\ tests' = [tests EXCEPT ![i] = job[r].package]
                               /\ left' = [left EXCEPT ![r] = @ \ {i}]
      BY <1>2, <2>2 DEF WriteTest
    <3>2. UNCHANGED <<at, job, calm, solo>>
      BY <1>2, <2>2 DEF WriteTest
    <3>3. Cases(job[r].package) \subseteq Tests
      BY <2>1, CasesAreTests DEF TypeOK
    <3>4. r \in solo => Agrees(r)'
      <4>1. SUFFICES ASSUME r \in solo, NEW k \in Cases(job[r].package) \ left'[r]
                     PROVE  tests'[k] = job[r].package
        BY <2>1, <3>2 DEF Agrees
      <4>2. CASE k = i
        BY <3>1, <3>3, <4>2 DEF TypeOK
      <4>3. CASE k # i
        <5>1. k \in Cases(job[r].package) \ left[r]
          BY <3>1, <4>3 DEF TypeOK
        <5>2. tests[k] = job[r].package
          BY <2>1, <4>1, <5>1, SoloFinds DEF Agrees
        <5> QED
          BY <3>1, <3>3, <4>3, <5>2 DEF TypeOK
      <4> QED
        BY <4>2, <4>3
    <3> QED
      BY <2>1, <3>2, <3>4, OrderGoesOn DEF Places
  <2>3. CASE ~dir
    <3>1. Return(r, FALSE)
      BY <1>2, <2>3 DEF WriteTest
    <3> QED
      BY <2>1, <3>1, OrderEnds DEF Return
  <2> QED
    BY <2>2, <2>3
<1>3. CASE WriteConfig(r)
  <2>1. at[r] = "write" /\ left[r] = {} /\ UNCHANGED <<row, tests, used>>
    BY <1>3 DEF WriteConfig, budgets
  <2>2. CASE dir
    <3>1. GoTo(r, "save") /\ UNCHANGED <<job, calm, solo>>
      BY <1>3, <2>2 DEF WriteConfig
    <3>2. config'.cases = Cases(job[r].package) /\ at'[r] = "save"
      BY <1>3, <2>2, <3>1 DEF WriteConfig, GoTo, TypeOK
    <3>3. r \in solo => \A i \in Cases(job[r].package) : tests[i] = job[r].package
      BY <2>1, SoloFinds DEF Agrees
    <3>4. r \in solo => Agrees(r)'
      BY <2>1, <3>1, <3>2, <3>3 DEF Agrees
    <3> QED
      BY <2>1, <3>1, <3>2, <3>4, OrderGoesOn DEF Places
  <2>3. CASE ~dir
    <3>1. Return(r, FALSE)
      BY <1>3, <2>3 DEF WriteConfig
    <3> QED
      BY <2>1, <3>1, OrderEnds DEF Return
  <2> QED
    BY <2>2, <2>3
<1>4. CASE SaveCount(r)
  <2>1. /\ at[r] = "save" /\ UNCHANGED <<tests, config, used>>
        /\ Finish(r) /\ calm' = (calm \/ r \in solo)
    BY <1>4 DEF SaveCount, files, budgets
  <2>2. job[r].package \in Packages
    BY <2>1 DEF TypeOK
  <2>3. row'.count = Size[job[r].package]
    BY <1>4 DEF SaveCount, Save, Counted, TypeOK, Rows
  <2>4. r \in solo => InOrder'
    <3>1. SUFFICES ASSUME r \in solo PROVE InOrder'
      OBVIOUS
    <3>2. /\ config.cases = Cases(job[r].package)
          /\ \A i \in Cases(job[r].package) : tests[i] = job[r].package
      BY <2>1, <3>1, SoloFinds DEF Agrees
    <3> QED
      BY <2>1, <2>2, <2>3, <3>2 DEF InOrder, Cases
  <2> QED
    BY <2>1, <2>4, OrderEnds
<1> QED
  BY <1>1, <1>2, <1>3, <1>4

LEMMA OrderFails ==
    ASSUME TypeOK, OrderInv, NEW r \in Threads, RefusePackage(r) \/ RequestFails(r)
    PROVE  OrderInv'
<1>1. CASE RefusePackage(r)
  BY <1>1, OrderEnds DEF RefusePackage, Return, budgets
<1>2. CASE RequestFails(r)
  <2>1. at[r] # "idle" /\ UNCHANGED <<row, config, used>>
    BY <1>2 DEF RequestFails
  <2>2. CASE at[r] = "clear"
    <3>1. Return(r, tests' = tests)
      BY <1>2, <2>2 DEF RequestFails
    <3>2. r \in solo => (calm' /\ row.exists => InOrder')
      BY <2>1, <2>2, <3>1, SoloFinds, OrderKept DEF Return
    <3> QED
      BY <2>1, <3>1, <3>2, OrderEnds DEF Return
  <2>3. CASE at[r] # "clear"
    <3>1. Return(r, at[r] \notin {"write", "save"}) /\ UNCHANGED tests
      BY <1>2, <2>3 DEF RequestFails
    <3>2. r \in solo => (calm' /\ row.exists => InOrder')
      BY <2>1, <3>1, SoloFinds, OrderKept DEF Return
    <3> QED
      BY <2>1, <3>1, <3>2, OrderEnds DEF Return
  <2> QED
    BY <2>2, <2>3
<1> QED
  BY <1>1, <1>2

\* The contest, the ticker and the settlement touch no number, no file and no request.
LEMMA OrderElsewhere ==
    ASSUME TypeOK, OrderInv,
           \/ ContestStarts \/ ContestEnds \/ ListHidden \/ Reveal
           \/ MarkSettled \/ RevealResults \/ UNCHANGED vars
    PROVE  OrderInv'
<1>1. UNCHANGED <<dir, tests, config, at, job, copy, old, left, used, calm, solo>>
  BY DEF ContestStarts, ContestEnds, ListHidden, Reveal, MarkSettled, RevealResults, vars,
         files, requests, budgets, ghosts
<1>2. row'.exists = row.exists /\ row'.count = row.count
  BY DEF ContestStarts, ContestEnds, ListHidden, Reveal, MarkSettled, RevealResults, vars,
         TypeOK, Rows
<1>3. SoloInv'
  BY <1>1 DEF OrderInv, SoloInv, Alone
<1>4. Orderly'
  <2>1. InOrder => InOrder'
    BY <1>1, <1>2, OrderKept
  <2> QED
    BY <1>1, <1>2, <2>1 DEF OrderInv, Orderly, Importing, AtRest
<1>5. \A r \in solo : Agrees(r)'
  BY <1>1, <1>2 DEF OrderInv, Agrees, Cases
<1> QED
  BY <1>1, <1>3, <1>4, <1>5 DEF OrderInv

LEMMA OrderStep == TypeOK /\ OrderInv /\ [Next]_vars => OrderInv'
  BY OrderBegins, OrderUpdates, OrderDirectories, OrderImports, OrderFails, OrderElsewhere
  DEF Next, RequestStep

(***************************************************************************)
(* As long as requests do not overlap, whatever they are, wherever they    *)
(* fail and whatever the ticker does meanwhile, the row, config.json and   *)
(* the test files agree at rest; an import that is alone brings this back  *)
(* from any state, for any packages and any number of requests.            *)
(***************************************************************************)
THEOREM TestsInOrderAlways == Spec => []TestsInOrder
<1>1. Init => OrderInv
  <2> SUFFICES ASSUME Init PROVE OrderInv
    OBVIOUS
  <2>1. SoloInv /\ AtRest /\ config = NoConfig /\ solo = {} /\ ~row.exists
    BY DEF Init, SoloInv, AtRest, NoRow
  <2> QED
    BY <2>1 DEF OrderInv, Orderly
<1>2. OrderInv => TestsInOrder
  BY DEF OrderInv, Orderly, Importing, AtRest, TestsInOrder
<1> QED
  BY <1>1, <1>2, TypeCorrect, OrderStep, PTL DEF Spec
=============================================================================
