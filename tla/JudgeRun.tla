------------------------------- MODULE JudgeRun -------------------------------
(***************************************************************************)
(* One call of runJudge (judge/judge.go): the program is compiled in a     *)
(* container, then one goroutine per test runs it in a container of its    *)
(* own, as many at a time as the semaphore lets in, and when all are done  *)
(* the groups are scored.                                                  *)
(*                                                                         *)
(* The docker daemon runs beside the judge: programs end, containers are   *)
(* removed when they have ended (--rm) and may be killed, a command may    *)
(* fail or never return, and the editor may replace the test files.  What  *)
(* the program does on each test is fixed in advance: its fate.            *)
(***************************************************************************)
EXTENDS Integers, FiniteSets

CONSTANTS
    NumSlots,    \* tests of all groups, in the order of config.json
    Group,       \* the group of each
    PerTask,     \* judge.per_task_concurrency
    Programs,    \* what a submitted program may do, test by test
    MaxFaults, MaxEdits    \* bounds

Slots == 1..NumSlots
Compile == 0
Jobs == {Compile} \union Slots

\* perTask, capped at the number of tests
Limit == IF PerTask < 1 \/ PerTask > NumSlots THEN NumSlots ELSE PerTask

Fates == {"ok", "wrong", "silent", "over", "crash", "hang"}

ASSUME RunAssumption ==
    /\ NumSlots \in Nat \ {0}
    /\ Group \in [Slots -> Nat]
    /\ \A s, t \in Slots : s < t => Group[s] <= Group[t]
    /\ PerTask \in Int
    /\ Programs \subseteq [Slots -> Fates]
    /\ MaxFaults \in Nat
    /\ MaxEdits \in Nat

VARIABLES
    run,       \* how far runJudge has come
    verdict,   \* the status it returns
    slots,     \* the tests that config.json listed when it was read
    place,     \* each job: its place in JudgeTest and runContainerDetached
    ended,     \* what runContainerDetached returned
    container, \* the job's container in the docker daemon
    rc,        \* the file the container's shell writes when the program has ended
    binary,    \* the compiled program is there
    sem,       \* tests that hold the semaphore
    status,    \* results[slot].Status
    credited,  \* the slots that carry their group's score
    tests,     \* the problem's test files: stored, or cleared for an upload
    fate,      \* what the compiler and the program will do
    stuck,     \* history: containers that docker rm failed to remove
    faults, edits

judge == <<run, verdict, slots, place, ended, sem, status, credited>>
daemon == <<container, rc, binary>>
vars == <<judge, daemon, tests, fate, stuck, faults, edits>>

(***************************************************************************)
(* queued: before the semaphore        starting: before docker run         *)
(* polling: docker wait is on its way  waiting: it waits in the daemon     *)
(* removing: before docker rm -f       ran: runContainerDetached returned  *)
(* hung: in a docker run or docker rm that never returns                   *)
(***************************************************************************)
Places == {"queued", "starting", "polling", "waiting", "removing", "hung", "ran", "done"}

Statuses == {"accepted", "wrong_answer", "runtime_error", "limit_exceeded"}

TypeOK ==
    /\ run \in {"new", "compiling", "testing", "returned", "crashed"}
    /\ verdict \in {"", "internal_error", "compile_error", "accepted", "not accepted"}
    /\ slots \subseteq Slots
    /\ place \in [Jobs -> Places]
    /\ ended \in [Jobs -> {"", "ok", "timeout", "error"}]
    /\ container \in [Jobs -> {"none", "running", "exited", "gone"}]
    /\ rc \in [Jobs -> {"none", "zero", "nonzero"}]
    /\ binary \in BOOLEAN
    /\ sem \in 0..Limit
    /\ status \in [Slots -> {""} \union Statuses]
    /\ credited \subseteq Slots
    /\ tests \in {"stored", "cleared"}
    /\ fate \in [Jobs -> Fates]
    /\ stuck \subseteq Jobs
    /\ faults \in 0..MaxFaults
    /\ edits \in 0..MaxEdits

Init ==
    /\ run = "new"
    /\ verdict = ""
    /\ slots \in {{}, Slots}
    /\ place = [j \in Jobs |-> "queued"]
    /\ ended = [j \in Jobs |-> ""]
    /\ container = [j \in Jobs |-> "none"]
    /\ rc = [j \in Jobs |-> "none"]
    /\ binary = FALSE
    /\ sem = 0
    /\ status = [s \in Slots |-> ""]
    /\ credited = {}
    /\ tests = "stored"
    /\ \E p \in Programs, c \in {"ok", "crash", "hang"} :
        fate = [j \in Jobs |-> IF j = Compile THEN c ELSE p[j]]
    /\ stuck = {}
    /\ faults = 0
    /\ edits = 0

Fault == faults < MaxFaults /\ faults' = faults + 1

GoTo(j, p) == place' = [place EXCEPT ![j] = p]

\* The judge's process is there, and the job is at place p.
At(j, p) == run # "crashed" /\ place[j] = p

Return(v) == run' = "returned" /\ verdict' = v

-----------------------------------------------------------------------------
(* runContainerDetached, for the compiler and for every test               *)

DockerRun(j) ==
    /\ At(j, "starting")
    /\ \/ /\ container' = [container EXCEPT ![j] = "running"]
          /\ GoTo(j, "polling")
          /\ UNCHANGED <<ended, faults>>
       \/ /\ Fault
          /\ ended' = [ended EXCEPT ![j] = "error"]
          /\ GoTo(j, "ran")
          /\ UNCHANGED container
    /\ UNCHANGED <<run, verdict, slots, sem, status, credited, rc, binary, tests, fate,
                   stuck, edits>>

\* docker wait reaches the daemon; the container may have ended and be removed by then.
DockerWait(j) ==
    /\ At(j, "polling")
    /\ IF container[j] = "gone"
       THEN ended' = [ended EXCEPT ![j] = "error"] /\ GoTo(j, "removing")
       ELSE GoTo(j, "waiting") /\ UNCHANGED ended
    /\ UNCHANGED <<run, verdict, slots, sem, status, credited, daemon, tests, fate,
                   stuck, faults, edits>>

WaitReturns(j) ==
    /\ At(j, "waiting")
    /\ container[j] # "running"
    /\ ended' = [ended EXCEPT ![j] = "ok"]
    /\ GoTo(j, "removing")
    /\ UNCHANGED <<run, verdict, slots, sem, status, credited, daemon, tests, fate,
                   stuck, faults, edits>>

TimesOut(j) ==
    /\ At(j, "polling") \/ At(j, "waiting")
    /\ ended' = [ended EXCEPT ![j] = "timeout"]
    /\ GoTo(j, "removing")
    /\ UNCHANGED <<run, verdict, slots, sem, status, credited, daemon, tests, fate,
                   stuck, faults, edits>>

\* Mutated form: the container is left to --rm.
LeaveToRm(j) ==
    /\ At(j, "removing")
    /\ GoTo(j, "ran")
    /\ UNCHANGED <<run, verdict, slots, ended, sem, status, credited, daemon, tests, fate,
                   stuck, faults, edits>>

\* docker rm -f, whose failure is ignored
RemoveContainer(j) ==
    /\ At(j, "removing")
    /\ GoTo(j, "ran")
    /\ \/ /\ container' = [container EXCEPT ![j] = "gone"]
          /\ UNCHANGED <<stuck, faults>>
       \/ /\ Fault
          /\ stuck' = stuck \union {j}
          /\ UNCHANGED container
    /\ UNCHANGED <<run, verdict, slots, ended, sem, status, credited, rc, binary, tests,
                   fate, edits>>

\* The daemon does not answer docker run or docker rm, whether it has done what it was
\* asked or not.  Only docker wait has a timeout: the judge waits for the others for ever.
DockerHangs(j) ==
    /\ Fault
    /\ \/ /\ At(j, "starting")
          /\ container' \in {container, [container EXCEPT ![j] = "running"]}
       \/ /\ At(j, "removing")
          /\ container' \in {container, [container EXCEPT ![j] = "gone"]}
    /\ GoTo(j, "hung")
    /\ UNCHANGED <<run, verdict, slots, ended, sem, status, credited, rc, binary, tests,
                   fate, stuck, edits>>

-----------------------------------------------------------------------------
(* The docker daemon                                                       *)

\* Without a binary the shell reports an error at once.
Ends(j) == fate[j] # "hang" \/ (j # Compile /\ ~binary)
Fails(j) == fate[j] = "crash" \/ (j # Compile /\ ~binary)

ProgramEnds(j) ==
    /\ container[j] = "running"
    /\ Ends(j)
    /\ container' = [container EXCEPT ![j] = "exited"]
    /\ rc' = [rc EXCEPT ![j] = IF Fails(j) THEN "nonzero" ELSE "zero"]
    /\ binary' = (binary \/ (j = Compile /\ ~Fails(j)))
    /\ UNCHANGED <<judge, tests, fate, stuck, faults, edits>>

\* The container is killed before its shell has written rc.
ContainerKilled(j) ==
    /\ container[j] = "running"
    /\ Fault
    /\ container' = [container EXCEPT ![j] = "exited"]
    /\ UNCHANGED <<judge, rc, binary, tests, fate, stuck, edits>>

AutoRemove(j) ==
    /\ container[j] = "exited"
    /\ container' = [container EXCEPT ![j] = "gone"]
    /\ UNCHANGED <<judge, rc, binary, tests, fate, stuck, faults, edits>>

-----------------------------------------------------------------------------
(* runJudge                                                                *)

StartCompile ==
    /\ run = "new"
    /\ \/ /\ run' = "compiling"
          /\ GoTo(Compile, "starting")
          /\ UNCHANGED <<verdict, faults>>
       \/ Fault /\ Return("internal_error") /\ UNCHANGED place
    /\ UNCHANGED <<slots, ended, sem, status, credited, daemon, tests, fate, stuck, edits>>

\* Only a nonzero rc stops here; a missing one reads as 0.
FinishCompile ==
    /\ run = "compiling"
    /\ At(Compile, "ran")
    /\ IF ended[Compile] # "ok" \/ rc[Compile] = "nonzero" THEN Return("compile_error")
       ELSE IF slots = {} THEN Return("internal_error")
       ELSE run' = "testing" /\ UNCHANGED verdict
    /\ GoTo(Compile, "done")
    /\ UNCHANGED <<slots, ended, sem, status, credited, daemon, tests, fate, stuck,
                   faults, edits>>

\* Mutated form: a test without input releases what it has not acquired.
ReleaseTwice(s) ==
    /\ run = "testing"
    /\ place[s] = "queued"
    /\ sem < Limit
    /\ \/ /\ tests = "stored"
          /\ sem' = sem + 1
          /\ GoTo(s, "starting")
          /\ UNCHANGED <<status, faults>>
       \/ /\ IF tests = "stored" THEN Fault ELSE UNCHANGED faults
          /\ status' = [status EXCEPT ![s] = "runtime_error"]
          /\ GoTo(s, "done")
          /\ sem' = sem - 1
    /\ UNCHANGED <<run, verdict, slots, ended, credited, daemon, tests, fate, stuck, edits>>

\* Mutated form: no semaphore.
EnterFreely(s) ==
    /\ run = "testing"
    /\ place[s] = "queued"
    /\ tests = "stored"
    /\ GoTo(s, "starting")
    /\ UNCHANGED <<run, verdict, slots, ended, sem, status, credited, daemon, tests, fate,
                   stuck, faults, edits>>

\* The semaphore is acquired and the input copied; an error ends the test and releases it.
EnterTest(s) ==
    /\ run = "testing"
    /\ place[s] = "queued"
    /\ sem < Limit
    /\ \/ /\ tests = "stored"
          /\ sem' = sem + 1
          /\ GoTo(s, "starting")
          /\ UNCHANGED <<status, faults>>
       \/ /\ IF tests = "stored" THEN Fault ELSE UNCHANGED faults
          /\ status' = [status EXCEPT ![s] = "runtime_error"]
          /\ GoTo(s, "done")
          /\ UNCHANGED sem
    /\ UNCHANGED <<run, verdict, slots, ended, credited, daemon, tests, fate, stuck, edits>>

\* A missing answer file reads as an empty answer.
SameTokens(s) == fate[s] = IF tests = "stored" THEN "ok" ELSE "silent"

\* Mutated form: the exit code is looked at on a timeout only.
CompareAnyway(s) ==
    CASE ended[s] = "error" -> "runtime_error"
      [] ended[s] = "timeout" -> "limit_exceeded"
      [] OTHER -> IF SameTokens(s) THEN "accepted" ELSE "wrong_answer"

StatusOf(s) ==
    CASE ended[s] = "error" -> "runtime_error"
      [] ended[s] = "timeout" -> "limit_exceeded"
      [] ended[s] = "ok" /\ rc[s] # "zero" -> "runtime_error"
      [] ended[s] = "ok" /\ rc[s] = "zero" /\ fate[s] = "over" -> "limit_exceeded"
      [] OTHER -> IF SameTokens(s) THEN "accepted" ELSE "wrong_answer"

\* Mutated form: the semaphore is not released.
JudgeWithoutRelease(s) ==
    /\ At(s, "ran")
    /\ status' = [status EXCEPT ![s] = StatusOf(s)]
    /\ GoTo(s, "done")
    /\ UNCHANGED <<run, verdict, slots, ended, sem, credited, daemon, tests, fate, stuck,
                   faults, edits>>

\* The rest of JudgeTest, and the release of the semaphore.
JudgeOutput(s) ==
    /\ At(s, "ran")
    /\ status' = [status EXCEPT ![s] = StatusOf(s)]
    /\ GoTo(s, "done")
    /\ sem' = sem - 1
    /\ UNCHANGED <<run, verdict, slots, ended, credited, daemon, tests, fate, stuck,
                   faults, edits>>

Passed(s) == status[s] = "accepted"
Mates(s) == {t \in Slots : Group[t] = Group[s]}
LastOfGroup(s) == \A t \in Mates(s) : t <= s

\* Mutated form: the groups are scored while tests are still running.
ScoreEarly ==
    /\ run = "testing"
    /\ credited' = {s \in Slots : LastOfGroup(s) /\ \A t \in Mates(s) : Passed(t)}
    /\ Return(IF \A s \in Slots : Passed(s) THEN "accepted" ELSE "not accepted")
    /\ UNCHANGED <<slots, place, ended, sem, status, daemon, tests, fate, stuck, faults,
                   edits>>

\* wg.Wait and the scoring of the groups
ScoreGroups ==
    /\ run = "testing"
    /\ \A s \in Slots : place[s] = "done"
    /\ credited' = {s \in Slots : LastOfGroup(s) /\ \A t \in Mates(s) : Passed(t)}
    /\ Return(IF \A s \in Slots : Passed(s) THEN "accepted" ELSE "not accepted")
    /\ UNCHANGED <<slots, place, ended, sem, status, daemon, tests, fate, stuck, faults,
                   edits>>

\* The judge's process dies; nothing it would have done is done later.
Crash ==
    /\ run \in {"new", "compiling", "testing"}
    /\ Fault
    /\ run' = "crashed"
    /\ UNCHANGED <<verdict, slots, place, ended, sem, status, credited, daemon, tests, fate,
                   stuck, edits>>

-----------------------------------------------------------------------------
(* An import of test data: the files are cleared, and unless it fails      *)
(* written again, here with the same contents.                             *)

ClearTestFiles ==
    /\ tests = "stored"
    /\ edits < MaxEdits
    /\ edits' = edits + 1
    /\ tests' = "cleared"
    /\ UNCHANGED <<judge, daemon, fate, stuck, faults>>

StoreTestFiles ==
    /\ tests = "cleared"
    /\ tests' = "stored"
    /\ UNCHANGED <<judge, daemon, fate, stuck, faults, edits>>

-----------------------------------------------------------------------------
RunContainer(j) ==
    \/ DockerRun(j)
    \/ DockerWait(j)
    \/ WaitReturns(j)
    \/ TimesOut(j)
    \/ RemoveContainer(j)
    \/ DockerHangs(j)

Docker(j) == ProgramEnds(j) \/ ContainerKilled(j) \/ AutoRemove(j)

Edit == ClearTestFiles \/ StoreTestFiles

Next ==
    \/ \E j \in Jobs : RunContainer(j) \/ Docker(j)
    \/ \E s \in Slots : EnterTest(s) \/ JudgeOutput(s)
    \/ StartCompile \/ FinishCompile \/ ScoreGroups
    \/ Crash
    \/ Edit

Spec == Init /\ [][Next]_vars

(***************************************************************************)
(* The judge's own steps go on and the timer of docker wait expires.  A    *)
(* docker run or docker rm returns, with or without success, unless it is  *)
(* one that hangs (DockerHangs).  Nothing else is assumed of the daemon:   *)
(* programs need not end, and docker wait need not answer.                 *)
(***************************************************************************)
Fairness ==
    /\ \A j \in Jobs :
        /\ WF_vars(DockerRun(j))
        /\ WF_vars(TimesOut(j))
        /\ WF_vars(RemoveContainer(j))
    /\ \A s \in Slots : WF_vars(EnterTest(s)) /\ WF_vars(JudgeOutput(s))
    /\ WF_vars(StartCompile) /\ WF_vars(FinishCompile) /\ WF_vars(ScoreGroups)

FairSpec == Spec /\ Fairness
=============================================================================
