---------------------------- MODULE JudgeRunProofs ----------------------------
(***************************************************************************)
(* Theorems on one run of the judge, for every number of tests and groups, *)
(* every setting of the semaphore and every fate of the program.           *)
(***************************************************************************)
EXTENDS JudgeRunProps, FiniteSetTheorems, TLAPS

LEMMA LimitType == Limit \in Nat /\ Limit >= 1
  BY RunAssumption DEF Limit

LEMMA JobsType == Compile \in Jobs /\ Compile \notin Slots /\ Slots \subseteq Jobs
  BY DEF Jobs, Slots, Compile

-----------------------------------------------------------------------------
(* The semaphore counts the tests between docker run and docker rm.        *)

LEMMA HoldersFinite ==
    IsFiniteSet(Slots) /\ IsFiniteSet(Holders) /\ Cardinality(Holders) \in Nat
<1>1. IsFiniteSet(Slots)
  BY RunAssumption, FS_Interval DEF Slots
<1>2. Holders \subseteq Slots
  BY DEF Holders
<1>3. QED
  BY <1>1, <1>2, FS_Subset, FS_CardinalityType

\* A job that moves among the places inside, or among those outside, changes no holder.
LEMMA HoldersSame ==
    ASSUME TypeOK, NEW j \in Jobs, NEW p \in Places, GoTo(j, p),
           j = Compile \/ (place[j] \in Entered <=> p \in Entered)
    PROVE  Holders' = Holders
  BY JobsType DEF Holders, GoTo, TypeOK

LEMMA HolderEnters ==
    ASSUME TypeOK, NEW s \in Slots, place[s] = "queued", GoTo(s, "starting")
    PROVE  Cardinality(Holders)' = Cardinality(Holders) + 1
<1>1. Holders' = Holders \union {s}
  BY JobsType DEF Holders, Entered, GoTo, TypeOK
<1>2. s \notin Holders
  BY DEF Holders, Entered
<1>3. QED
  BY <1>1, <1>2, HoldersFinite, FS_AddElement

LEMMA HolderLeaves ==
    ASSUME TypeOK, NEW s \in Slots, place[s] = "ran", GoTo(s, "done")
    PROVE  Cardinality(Holders)' = Cardinality(Holders) - 1 /\ Cardinality(Holders) >= 1
<1>1. Holders' = Holders \ {s}
  BY JobsType DEF Holders, Entered, GoTo, TypeOK
<1>2. s \in Holders
  BY DEF Holders, Entered
<1>3. Cardinality(Holders)' = Cardinality(Holders) - 1
  BY <1>1, <1>2, HoldersFinite, FS_RemoveElement
<1>4. Holders' \subseteq Slots
  BY <1>1 DEF Holders
<1>5. Cardinality(Holders') \in Nat
  BY <1>4, HoldersFinite, FS_Subset, FS_CardinalityType
<1>6. QED
  BY <1>3, <1>5, HoldersFinite

-----------------------------------------------------------------------------
(* Types                                                                   *)

LEMMA TypeInit == Init => TypeOK
<1> SUFFICES ASSUME Init
             PROVE  TypeOK
  OBVIOUS
<1>1. sem \in 0..Limit /\ faults \in 0..MaxFaults /\ edits \in 0..MaxEdits
  <2>1. sem = 0 /\ faults = 0 /\ edits = 0
    BY DEF Init
  <2>2. Limit \in Nat /\ MaxFaults \in Nat /\ MaxEdits \in Nat
    BY LimitType, RunAssumption
  <2>3. QED
    BY <2>1, <2>2
<1>2. slots \subseteq Slots /\ credited \subseteq Slots /\ stuck \subseteq Jobs
  BY DEF Init
<1>3. /\ place \in [Jobs -> Places]
      /\ ended \in [Jobs -> {"", "ok", "timeout", "error"}]
      /\ container \in [Jobs -> {"none", "running", "exited", "gone"}]
      /\ rc \in [Jobs -> {"none", "zero", "nonzero"}]
      /\ status \in [Slots -> {""} \union Statuses]
  BY DEF Init, Places
<1>6. fate \in [Jobs -> Fates]
  <2>1. PICK p \in Programs, c \in {"ok", "crash", "hang"} :
            fate = [j \in Jobs |-> IF j = Compile THEN c ELSE p[j]]
    BY DEF Init
  <2>2. p \in [Slots -> Fates]
    BY RunAssumption
  <2>3. \A j \in Jobs : (IF j = Compile THEN c ELSE p[j]) \in Fates
    BY <2>2 DEF Jobs, Fates
  <2>4. QED
    BY <2>1, <2>3
<1>4. /\ run = "new" /\ verdict = "" /\ tests = "stored"
      /\ binary = FALSE
  BY DEF Init
<1>5. QED
  BY <1>1, <1>2, <1>3, <1>4, <1>6 DEF TypeOK

\* Counting within a bound.
LEMMA Within ==
    ASSUME NEW m \in Nat, NEW n \in 0..m
    PROVE  (n < m => n + 1 \in 0..m) /\ (n >= 1 => n - 1 \in 0..m)
  OBVIOUS

LEMMA FaultType ==
    ASSUME TypeOK, Fault \/ UNCHANGED faults
    PROVE  faults' \in 0..MaxFaults
<1>1. faults \in 0..MaxFaults /\ MaxFaults \in Nat
  BY RunAssumption DEF TypeOK
<1>2. QED
  BY <1>1, Within DEF Fault

LEMMA TypeStep == TypeOK /\ SemCounts /\ [Next]_vars => TypeOK'
<1> SUFFICES ASSUME TypeOK, SemCounts, [Next]_vars
             PROVE  TypeOK'
  OBVIOUS
<1>0. /\ sem \in 0..Limit
      /\ edits < MaxEdits => edits + 1 \in 0..MaxEdits
      /\ edits \in 0..MaxEdits
  BY Within, RunAssumption DEF TypeOK
<1> USE DEF TypeOK, GoTo, At, Places, daemon
<1>1. ASSUME NEW j \in Jobs, RunContainer(j)
      PROVE  TypeOK'
  <2>1. CASE DockerRun(j)
    <3>1. faults' \in 0..MaxFaults
      BY <2>1, FaultType DEF DockerRun
    <3>2. /\ container' \in [Jobs -> {"none", "running", "exited", "gone"}]
          /\ place' \in [Jobs -> Places]
          /\ ended' \in [Jobs -> {"", "ok", "timeout", "error"}]
      BY <2>1 DEF DockerRun
    <3>3. QED
      BY <2>1, <3>1, <3>2 DEF DockerRun
  <2>2. CASE DockerWait(j)
    BY <2>2 DEF DockerWait
  <2>3. CASE WaitReturns(j)
    BY <2>3 DEF WaitReturns
  <2>4. CASE TimesOut(j)
    BY <2>4 DEF TimesOut
  <2>5. CASE RemoveContainer(j)
    <3>1. faults' \in 0..MaxFaults
      BY <2>5, FaultType DEF RemoveContainer
    <3>2. /\ container' \in [Jobs -> {"none", "running", "exited", "gone"}]
          /\ place' \in [Jobs -> Places]
          /\ stuck' \subseteq Jobs
      BY <2>5 DEF RemoveContainer
    <3>3. QED
      BY <2>5, <3>1, <3>2 DEF RemoveContainer
  <2>6. CASE DockerHangs(j)
    <3>1. faults' \in 0..MaxFaults
      BY <2>6, FaultType DEF DockerHangs
    <3>2. container' \in [Jobs -> {"none", "running", "exited", "gone"}]
      BY <2>6 DEF DockerHangs
    <3>3. QED
      BY <2>6, <3>1, <3>2 DEF DockerHangs
  <2>7. QED
    BY <1>1, <2>1, <2>2, <2>3, <2>4, <2>5, <2>6 DEF RunContainer
<1>2. ASSUME NEW j \in Jobs, Docker(j)
      PROVE  TypeOK'
  <2>1. CASE ProgramEnds(j)
    BY <2>1 DEF ProgramEnds, judge, Fails
  <2>2. CASE ContainerKilled(j)
    <3>1. faults' \in 0..MaxFaults
      BY <2>2, FaultType DEF ContainerKilled
    <3>2. QED
      BY <2>2, <3>1 DEF ContainerKilled, judge
  <2>3. CASE AutoRemove(j)
    BY <2>3 DEF AutoRemove, judge
  <2>4. QED
    BY <1>2, <2>1, <2>2, <2>3 DEF Docker
<1>3. ASSUME NEW s \in Slots, EnterTest(s)
      PROVE  TypeOK'
  <2>1. s \in Jobs
    BY JobsType
  <2>2. sem < Limit => sem + 1 \in 0..Limit
    BY <1>0, LimitType, Within
  <2>3. faults' \in 0..MaxFaults
    BY <1>3, FaultType DEF EnterTest
  <2>4. sem' \in 0..Limit
    BY <1>3, <2>2 DEF EnterTest
  <2>5. place' \in [Jobs -> Places] /\ status' \in [Slots -> {""} \union Statuses]
    BY <1>3, <2>1 DEF EnterTest, Statuses
  <2>6. QED
    BY <1>3, <2>3, <2>4, <2>5 DEF EnterTest
<1>4. ASSUME NEW s \in Slots, JudgeOutput(s)
      PROVE  TypeOK'
  <2>1. Cardinality(Holders) >= 1
    BY <1>4, HolderLeaves DEF JudgeOutput
  <2>2. sem - 1 \in 0..Limit
    BY <1>0, <2>1, LimitType, Within DEF SemCounts
  <2>3. StatusOf(s) \in Statuses
    BY DEF StatusOf, Statuses
  <2>4. s \in Jobs
    BY JobsType
  <2>5. QED
    BY <1>4, <2>2, <2>3, <2>4 DEF JudgeOutput
<1>5. CASE StartCompile
  <2>1. faults' \in 0..MaxFaults
    BY <1>5, FaultType DEF StartCompile
  <2>2. place' \in [Jobs -> Places]
    BY <1>5, JobsType DEF StartCompile
  <2>3. QED
    BY <1>5, <2>1, <2>2 DEF StartCompile, Return
<1>6. CASE FinishCompile
  BY <1>6, JobsType DEF FinishCompile, Return
<1>7. CASE ScoreGroups
  BY <1>7 DEF ScoreGroups, Return
<1>8. CASE Crash
  <2>1. faults' \in 0..MaxFaults
    BY <1>8, FaultType DEF Crash
  <2>2. QED
    BY <1>8, <2>1 DEF Crash
<1>9. CASE Edit
  <2>1. edits' = edits \/ (edits < MaxEdits /\ edits' = edits + 1)
    BY <1>9 DEF Edit, ClearTestFiles, StoreTestFiles
  <2>2. edits' \in 0..MaxEdits
    BY <1>0, <2>1
  <2>3. QED
    BY <1>9, <2>2 DEF Edit, ClearTestFiles, StoreTestFiles, judge
<1>10. CASE UNCHANGED vars
  BY <1>10 DEF vars, judge
<1>11. QED
  BY <1>1, <1>2, <1>3, <1>4, <1>5, <1>6, <1>7, <1>8, <1>9, <1>10 DEF Next

-----------------------------------------------------------------------------
(* The invariant of the run                                                *)

LEMMA SemStep == TypeOK /\ Phases /\ SemCounts /\ [Next]_vars => SemCounts'
<1> SUFFICES ASSUME TypeOK, Phases, SemCounts, [Next]_vars
             PROVE  SemCounts'
  OBVIOUS
<1>1. ASSUME UNCHANGED sem, Holders' = Holders
      PROVE  SemCounts'
  BY <1>1 DEF SemCounts
<1>2. ASSUME UNCHANGED place
      PROVE  Holders' = Holders
  BY <1>2 DEF Holders
<1>3. ASSUME NEW j \in Jobs, RunContainer(j)
      PROVE  SemCounts'
  <2>1. PICK p \in Entered : place[j] \in Entered /\ GoTo(j, p)
    BY <1>3 DEF RunContainer, DockerRun, DockerWait, WaitReturns, TimesOut, RemoveContainer,
                DockerHangs, At, Entered
  <2>2. p \in Places
    BY DEF Entered, Places
  <2>3. Holders' = Holders
    BY <2>1, <2>2, HoldersSame
  <2>4. UNCHANGED sem
    BY <1>3 DEF RunContainer, DockerRun, DockerWait, WaitReturns, TimesOut, RemoveContainer,
                DockerHangs
  <2>5. QED
    BY <1>1, <2>3, <2>4
<1>4. ASSUME NEW s \in Slots, EnterTest(s)
      PROVE  SemCounts'
  <2>1. CASE sem' = sem + 1 /\ GoTo(s, "starting")
    <3>1. Cardinality(Holders)' = Cardinality(Holders) + 1
      BY <1>4, <2>1, HolderEnters DEF EnterTest
    <3>2. QED
      BY <2>1, <3>1 DEF SemCounts
  <2>2. CASE UNCHANGED sem /\ GoTo(s, "done")
    <3>1. Holders' = Holders
      BY <1>4, <2>2, HoldersSame, JobsType DEF EnterTest, Places, Entered
    <3>2. QED
      BY <1>1, <2>2, <3>1
  <2>3. QED
    BY <1>4, <2>1, <2>2 DEF EnterTest
<1>5. ASSUME NEW s \in Slots, JudgeOutput(s)
      PROVE  SemCounts'
  BY <1>5, HolderLeaves DEF JudgeOutput, At, SemCounts
<1>6. CASE StartCompile
  <2>1. Holders' = Holders
    BY <1>2, <1>6, HoldersSame, JobsType DEF StartCompile, Places
  <2>2. QED
    BY <1>1, <1>6, <2>1 DEF StartCompile
<1>7. CASE FinishCompile
  <2>1. Holders' = Holders
    BY <1>7, HoldersSame, JobsType DEF FinishCompile, Places
  <2>2. QED
    BY <1>1, <1>7, <2>1 DEF FinishCompile
<1>8. CASE (\E j \in Jobs : Docker(j)) \/ ScoreGroups \/ Crash \/ Edit \/ UNCHANGED vars
  BY <1>1, <1>2, <1>8 DEF Docker, ProgramEnds, ContainerKilled, AutoRemove, ScoreGroups,
                          Crash, Edit, ClearTestFiles, StoreTestFiles, vars, judge
<1>9. QED
  BY <1>3, <1>4, <1>5, <1>6, <1>7, <1>8 DEF Next

LEMMA PhasesStep == TypeOK /\ Phases /\ [Next]_vars => Phases'
<1> SUFFICES ASSUME TypeOK, Phases, [Next]_vars
             PROVE  Phases'
  OBVIOUS
<1> USE JobsType DEF Phases, GoTo
<1>1. ASSUME NEW j \in Jobs, RunContainer(j)
      PROVE  Phases'
  <2>1. /\ UNCHANGED run
        /\ place[j] \notin {"queued", "done"}
        /\ run # "crashed"
        /\ \A k \in Jobs : k # j => place'[k] = place[k]
    BY <1>1 DEF RunContainer, DockerRun, DockerWait, WaitReturns, TimesOut, RemoveContainer,
                DockerHangs, At, TypeOK
  <2>2. run = "compiling" \/ run = "testing"
    BY <2>1 DEF TypeOK, Jobs
  <2>3. CASE run = "compiling"
    BY <2>1, <2>3
  <2>4. CASE run = "testing"
    BY <2>1, <2>4
  <2>5. QED
    BY <2>2, <2>3, <2>4
<1>2. ASSUME NEW s \in Slots, EnterTest(s) \/ JudgeOutput(s)
      PROVE  Phases'
  <2>1. /\ UNCHANGED run
        /\ run = "testing"
        /\ place'[Compile] = place[Compile]
    BY <1>2 DEF EnterTest, JudgeOutput, At, TypeOK
  <2>2. QED
    BY <2>1
<1>3. CASE StartCompile
  BY <1>3 DEF StartCompile, Return, TypeOK, Jobs
<1>4. CASE FinishCompile
  <2>1. /\ place'[Compile] = "done"
        /\ \A s \in Slots : place'[s] = "queued"
        /\ run' \in {"returned", "testing"}
    BY <1>4 DEF FinishCompile, Return, TypeOK
  <2>2. QED
    BY <2>1 DEF Jobs
<1>5. CASE ScoreGroups
  BY <1>5 DEF ScoreGroups, Return, Jobs
<1>6. CASE Crash
  BY <1>6 DEF Crash
<1>7. CASE (\E j \in Jobs : Docker(j)) \/ Edit \/ UNCHANGED vars
  BY <1>7 DEF Docker, ProgramEnds, ContainerKilled, AutoRemove, Edit, ClearTestFiles,
              StoreTestFiles, vars, judge
<1>8. QED
  BY <1>1, <1>2, <1>3, <1>4, <1>5, <1>6, <1>7 DEF Next

LEMMA ContainedStep == TypeOK /\ Phases /\ Contained /\ [Next]_vars => Contained'
<1> SUFFICES ASSUME TypeOK, Phases, Contained, [Next]_vars
             PROVE  Contained'
  OBVIOUS
<1> USE JobsType DEF GoTo, TypeOK
<1>1. ASSUME NEW j \in Jobs, NEW p \in Places, UNCHANGED <<container, stuck>>, GoTo(j, p),
             \/ p \in {"polling", "waiting", "removing"}
             \/ p = "starting" /\ place[j] = "queued"
             \/ p \in {"ran", "done"} /\ container[j] = "none"
             \/ p \in {"ran", "done"} /\ place[j] \in {"ran", "done"}
      PROVE  Contained'
  BY <1>1 DEF Contained
<1>2. ASSUME NEW j \in Jobs, RunContainer(j)
      PROVE  Contained'
  <2>1. CASE DockerRun(j)
    BY <2>1 DEF DockerRun, At, Contained
  <2>2. CASE DockerWait(j)
    BY <1>1, <2>2 DEF DockerWait, daemon, Places
  <2>3. CASE WaitReturns(j)
    BY <1>1, <2>3 DEF WaitReturns, daemon, Places
  <2>4. CASE TimesOut(j)
    BY <1>1, <2>4 DEF TimesOut, daemon, Places
  <2>5. CASE RemoveContainer(j)
    BY <2>5 DEF RemoveContainer, At, Contained
  <2>6. CASE DockerHangs(j)
    BY <2>6 DEF DockerHangs, Contained
  <2>7. QED
    BY <1>2, <2>1, <2>2, <2>3, <2>4, <2>5, <2>6 DEF RunContainer
<1>3. ASSUME NEW j \in Jobs, Docker(j)
      PROVE  Contained'
  BY <1>3 DEF Docker, ProgramEnds, ContainerKilled, AutoRemove, judge, Contained
<1>4. ASSUME NEW s \in Slots, EnterTest(s)
      PROVE  Contained'
  <2>1. container[s] = "none"
    BY <1>4 DEF EnterTest, Contained
  <2>2. QED
    BY <1>1, <1>4, <2>1 DEF EnterTest, daemon, Places
<1>5. ASSUME NEW s \in Slots, JudgeOutput(s)
      PROVE  Contained'
  BY <1>1, <1>5 DEF JudgeOutput, At, daemon, Places
<1>6. CASE StartCompile
  <2>1. place[Compile] = "queued"
    BY <1>6 DEF StartCompile, Phases
  <2>2. QED
    BY <1>6, <2>1 DEF StartCompile, daemon, Contained
<1>7. CASE FinishCompile
  BY <1>1, <1>7 DEF FinishCompile, At, daemon, Places
<1>8. CASE ScoreGroups \/ Crash \/ Edit \/ UNCHANGED vars
  BY <1>8 DEF ScoreGroups, Crash, Edit, ClearTestFiles, StoreTestFiles, vars, judge, daemon,
              Contained
<1>9. QED
  BY <1>2, <1>3, <1>4, <1>5, <1>6, <1>7, <1>8 DEF Next

LEMMA RunInit == Init => RunInv
<1> SUFFICES ASSUME Init
             PROVE  RunInv
  OBVIOUS
<1>1. Phases /\ Contained
  BY JobsType DEF Init, Phases, Contained
<1>2. Holders = {}
  BY JobsType DEF Init, Holders, Entered
<1>3. SemCounts
  BY <1>2, FS_EmptySet DEF Init, SemCounts
<1>4. QED
  BY <1>1, <1>3 DEF RunInv

LEMMA RunStep == TypeOK /\ RunInv /\ [Next]_vars => (TypeOK /\ RunInv)'
  BY TypeStep, SemStep, PhasesStep, ContainedStep DEF RunInv

LEMMA RunAlways == Spec => [](TypeOK /\ RunInv)
<1>1. Init => TypeOK /\ RunInv
  BY TypeInit, RunInit
<1>2. QED
  BY <1>1, RunStep, PTL DEF Spec

(***************************************************************************)
(* Every reachable state is well typed; in particular the semaphore never  *)
(* holds more than its capacity and is never released below 0.             *)
(***************************************************************************)
THEOREM TypeCorrect == Spec => []TypeOK
  BY RunAlways, PTL

(***************************************************************************)
(* When runJudge has returned, no container is left that docker did not    *)
(* fail to remove.                                                         *)
(***************************************************************************)
THEOREM NothingLeftBehindAlways == Spec => []NothingLeftBehind
<1>1. RunInv => NothingLeftBehind
  BY DEF RunInv, Phases, Contained, NothingLeftBehind
<1>2. QED
  BY <1>1, RunAlways, PTL

(***************************************************************************)
(* A submission never has more containers running than the semaphore       *)
(* allows, not counting those that docker failed to remove.                *)
(***************************************************************************)
THEOREM ContainersBoundedAlways == Spec => []ContainersBounded
<1>1. TypeOK /\ RunInv => ContainersBounded
  <2> SUFFICES ASSUME TypeOK, RunInv, run # "crashed"
               PROVE  Cardinality(Running \ stuck) <= Limit
    BY DEF ContainersBounded
  <2>1. \A j \in Running \ stuck : place[j] \in {"polling", "waiting", "removing", "hung"}
    BY DEF Running, RunInv, Contained, TypeOK, Places
  <2>2. CASE run = "testing"
    <3>1. Running \ stuck \subseteq Holders
      BY <2>1, <2>2 DEF Running, Holders, Entered, RunInv, Phases, Jobs
    <3>2. Cardinality(Running \ stuck) <= Cardinality(Holders)
      BY <3>1, HoldersFinite, FS_Subset
    <3>3. Cardinality(Running \ stuck) \in Nat
      BY <3>1, HoldersFinite, FS_Subset, FS_CardinalityType
    <3>4. sem \in 0..Limit /\ sem = Cardinality(Holders)
      BY DEF TypeOK, RunInv, SemCounts
    <3>5. QED
      BY <3>2, <3>3, <3>4, LimitType
  <2>3. CASE run = "compiling"
    <3>1. Running \ stuck \subseteq {Compile}
      BY <2>1, <2>3 DEF Running, RunInv, Phases, Jobs
    <3>2. Cardinality(Running \ stuck) <= Cardinality({Compile})
      BY <3>1, FS_Singleton, FS_Subset
    <3>3. Cardinality(Running \ stuck) \in Nat
      BY <3>1, FS_Singleton, FS_Subset, FS_CardinalityType
    <3>4. Cardinality({Compile}) = 1
      BY FS_Singleton
    <3>5. QED
      BY <3>2, <3>3, <3>4, LimitType
  <2>4. CASE run \in {"new", "returned"}
    <3>1. Running \ stuck = {}
      BY <2>1, <2>4 DEF Running, RunInv, Phases, Jobs
    <3>2. QED
      BY <3>1, FS_EmptySet, LimitType
  <2>5. QED
    BY <2>2, <2>3, <2>4 DEF TypeOK
<1>2. QED
  BY <1>1, RunAlways, PTL

-----------------------------------------------------------------------------
(* What the results say of the program                                     *)

LEMMA EditsNat == TypeOK => edits \in Nat
<1>1. TypeOK => edits \in 0..MaxEdits
  BY DEF TypeOK
<1>2. QED
  BY <1>1, RunAssumption

LEMMA EvidenceInit == Init => Evidence
<1> SUFFICES ASSUME Init
             PROVE  Evidence
  OBVIOUS
<1>1. SoundResults
  BY DEF Init, SoundResults
<1>2. QED
  BY <1>1, JobsType DEF Init, Evidence

\* The results stay sound as long as they, and what they say of the program, stay.
LEMMA SoundSame ==
    ASSUME SoundResults, UNCHANGED <<status, fate>>, edits' = 0 => edits = 0,
           \A s \in Slots : rc[s] = "zero" => rc'[s] = "zero",
           verdict' = "accepted" => verdict = "accepted"
    PROVE  SoundResults'
  BY DEF SoundResults

LEMMA EvidenceDocker ==
    ASSUME TypeOK, Evidence, NEW j \in Jobs, Docker(j)
    PROVE  Evidence'
<1>1. UNCHANGED <<judge, tests, fate, edits>>
  BY DEF Docker, ProgramEnds, ContainerKilled, AutoRemove
<1>2. UNCHANGED <<run, verdict, place, ended, status>>
  BY <1>1 DEF judge
<1>3. CASE ProgramEnds(j)
  <2>1. container[j] = "running" /\ rc[j] = "none"
    BY <1>3 DEF ProgramEnds, Evidence, TypeOK
  <2>2. binary' => fate[Compile] = "ok"
    BY <1>3 DEF ProgramEnds, Evidence, Ends, Fails
  <2>3. \A k \in Jobs : rc'[k] # "none" => container'[k] \in {"exited", "gone"}
    BY <1>3 DEF ProgramEnds, Evidence, TypeOK
  <2>4. \A s \in Slots : rc'[s] = "zero" => binary' /\ fate[s] \notin {"crash", "hang"}
    <3> SUFFICES ASSUME NEW s \in Slots, rc'[s] = "zero"
                 PROVE  binary' /\ fate[s] \notin {"crash", "hang"}
      OBVIOUS
    <3>1. CASE s = j
      BY <1>3, <3>1, JobsType DEF ProgramEnds, TypeOK, Ends, Fails
    <3>2. CASE s # j
      BY <1>3, <3>2, JobsType DEF ProgramEnds, TypeOK, Evidence
    <3>3. QED
      BY <3>1, <3>2
  <2>5. \A s \in Slots : rc[s] = "zero" => rc'[s] = "zero"
    BY <1>3, <2>1, JobsType DEF ProgramEnds, TypeOK
  <2>6. SoundResults'
    BY <1>1, <1>2, <2>5, SoundSame DEF Evidence
  <2>7. QED
    BY <1>1, <1>2, <2>2, <2>3, <2>4, <2>6 DEF Evidence, Passed
<1>4. CASE ContainerKilled(j) \/ AutoRemove(j)
  <2>1. UNCHANGED <<rc, binary>>
    BY <1>4 DEF ContainerKilled, AutoRemove
  <2>2. \A k \in Jobs : rc[k] # "none" => container'[k] \in {"exited", "gone"}
    BY <1>4 DEF ContainerKilled, AutoRemove, Evidence, TypeOK
  <2>3. SoundResults'
    BY <1>1, <1>2, <2>1, SoundSame DEF Evidence
  <2>4. QED
    BY <1>1, <1>2, <2>1, <2>2, <2>3 DEF Evidence, Passed
<1>5. QED
  BY <1>3, <1>4 DEF Docker

LEMMA EvidenceContainer ==
    ASSUME TypeOK, Contained, Evidence, NEW j \in Jobs, RunContainer(j)
    PROVE  Evidence'
<1>1. UNCHANGED <<run, verdict, status, rc, binary, tests, fate, edits>>
  BY DEF RunContainer, DockerRun, DockerWait, WaitReturns, TimesOut, RemoveContainer,
         DockerHangs, daemon
<1>2. SoundResults'
  BY <1>1, SoundSame DEF Evidence
<1>3. \A k \in Jobs : rc[k] # "none" => container'[k] \in {"exited", "gone"}
  <2>1. CASE DockerRun(j)
    <3>1. container[j] = "none"
      BY <2>1 DEF DockerRun, At, Contained
    <3>2. rc[j] = "none"
      BY <3>1 DEF Evidence, TypeOK
    <3>3. QED
      BY <2>1, <3>2 DEF DockerRun, Evidence, TypeOK
  <2>2. CASE DockerWait(j) \/ WaitReturns(j) \/ TimesOut(j)
    BY <2>2 DEF DockerWait, WaitReturns, TimesOut, daemon, Evidence
  <2>3. CASE RemoveContainer(j)
    BY <2>3 DEF RemoveContainer, Evidence, TypeOK
  <2>4. CASE DockerHangs(j)
    <3>1. place[j] = "starting" => container[j] = "none"
      BY DEF Contained
    <3>2. At(j, "starting") => rc[j] = "none"
      BY <3>1 DEF At, Evidence, TypeOK
    <3>3. QED
      BY <2>4, <3>2 DEF DockerHangs, Evidence, TypeOK
  <2>5. QED
    BY <2>1, <2>2, <2>3, <2>4 DEF RunContainer
<1>4. \A k \in Jobs : place'[k] \in {"removing", "ran"} => ended'[k] # ""
  <2>1. CASE DockerRun(j)
    BY <2>1 DEF DockerRun, GoTo, Evidence, TypeOK
  <2>2. CASE DockerWait(j) \/ WaitReturns(j) \/ TimesOut(j)
    BY <2>2 DEF DockerWait, WaitReturns, TimesOut, GoTo, Evidence, TypeOK
  <2>3. CASE RemoveContainer(j)
    BY <2>3 DEF RemoveContainer, At, GoTo, Evidence, TypeOK
  <2>4. CASE DockerHangs(j)
    BY <2>4 DEF DockerHangs, GoTo, Evidence, TypeOK
  <2>5. QED
    BY <2>1, <2>2, <2>3, <2>4 DEF RunContainer
<1>5. QED
  BY <1>1, <1>2, <1>3, <1>4 DEF Evidence, Passed

LEMMA EvidenceEnter ==
    ASSUME TypeOK, Evidence, NEW s \in Slots, EnterTest(s)
    PROVE  Evidence'
<1>1. UNCHANGED <<run, verdict, ended, daemon, tests, fate, edits>>
  BY DEF EnterTest
<1>2. UNCHANGED <<container, rc, binary>>
  BY <1>1 DEF daemon
<1>3. status' = status \/ status' = [status EXCEPT ![s] = "runtime_error"]
  BY DEF EnterTest
<1>4. \A t \in Slots : status'[t] = status[t] \/ status'[t] = "runtime_error"
  BY <1>3 DEF TypeOK
<1>5. SoundResults'
  BY <1>1, <1>2, <1>4 DEF Evidence, SoundResults
<1>6. verdict # "accepted"
  BY DEF EnterTest, Evidence
<1>7. \A k \in Jobs : place'[k] \in {"removing", "ran"} => ended[k] # ""
  BY DEF EnterTest, GoTo, Evidence, TypeOK
<1>8. QED
  BY <1>1, <1>2, <1>5, <1>6, <1>7 DEF Evidence

LEMMA EvidenceJudge ==
    ASSUME TypeOK, Phases, Evidence, NEW s \in Slots, JudgeOutput(s)
    PROVE  Evidence'
<1>1. UNCHANGED <<run, verdict, ended, daemon, tests, fate, edits>>
  BY DEF JudgeOutput
<1>2. UNCHANGED <<container, rc, binary>>
  BY <1>1 DEF daemon
<1>3. s \in Jobs /\ place[s] = "ran"
  BY JobsType DEF JudgeOutput, At
<1>4. ended[s] \in {"ok", "timeout", "error"}
  BY <1>3 DEF Evidence, TypeOK
<1>5. run # "returned"
  BY <1>3 DEF Phases
<1>6. verdict # "accepted"
  BY <1>5 DEF Evidence
<1>7. ASSUME edits = 0
      PROVE  /\ StatusOf(s) = "accepted" => fate[s] = "ok" /\ rc[s] = "zero"
             /\ StatusOf(s) = "wrong_answer" => fate[s] \in {"wrong", "silent"}
  <2>1. tests = "stored"
    <3>1. tests = "cleared" => edits > 0
      BY DEF Evidence
    <3>2. tests # "cleared"
      BY <1>7, <3>1
    <3>3. QED
      BY <3>2 DEF TypeOK
  <2>2. SameTokens(s) <=> fate[s] = "ok"
    BY <2>1 DEF SameTokens
  <2>3. fate[s] \in {"ok", "wrong", "silent", "over", "crash", "hang"}
    BY DEF TypeOK, Jobs, Fates
  <2>4. CASE ended[s] # "ok"
    BY <1>4, <2>4 DEF StatusOf
  <2>5. CASE ended[s] = "ok" /\ rc[s] # "zero"
    BY <2>5 DEF StatusOf
  <2>6. CASE ended[s] = "ok" /\ rc[s] = "zero"
    <3>1. fate[s] \notin {"crash", "hang"}
      BY <2>6 DEF Evidence
    <3>2. CASE fate[s] = "over"
      BY <2>6, <3>2 DEF StatusOf
    <3>3. CASE fate[s] # "over"
      <4>1. StatusOf(s) = IF SameTokens(s) THEN "accepted" ELSE "wrong_answer"
        BY <2>6, <3>3 DEF StatusOf
      <4>2. QED
        BY <2>2, <2>3, <2>6, <3>1, <3>3, <4>1
    <3>4. QED
      BY <3>2, <3>3
  <2>7. QED
    BY <2>4, <2>5, <2>6
<1>8. /\ status'[s] = StatusOf(s)
      /\ \A t \in Slots : t # s => status'[t] = status[t]
  BY DEF JudgeOutput, TypeOK
<1>9. SoundResults'
  <2>1. ASSUME edits = 0, NEW t \in Slots
        PROVE  /\ status'[t] = "accepted" => fate[t] = "ok" /\ rc[t] = "zero"
               /\ status'[t] = "wrong_answer" => fate[t] \in {"wrong", "silent"}
    <3>1. CASE t = s
      BY <1>7, <1>8, <2>1, <3>1
    <3>2. CASE t # s
      BY <1>8, <2>1, <3>2 DEF Evidence, SoundResults
    <3>3. QED
      BY <3>1, <3>2
  <2>2. QED
    BY <1>1, <1>2, <1>6, <2>1 DEF SoundResults
<1>10. \A k \in Jobs : place'[k] \in {"removing", "ran"} => ended[k] # ""
  BY DEF JudgeOutput, GoTo, Evidence, TypeOK
<1>11. QED
  BY <1>1, <1>2, <1>6, <1>9, <1>10 DEF Evidence

LEMMA EvidenceScore ==
    ASSUME TypeOK, Evidence, ScoreGroups
    PROVE  Evidence'
<1>1. UNCHANGED <<place, ended, status, daemon, tests, fate, edits>> /\ run' = "returned"
  BY DEF ScoreGroups, Return
<1>2. UNCHANGED <<container, rc, binary>>
  BY <1>1 DEF daemon
<1>3. verdict' = "accepted" => \A s \in Slots : Passed(s)
  BY DEF ScoreGroups, Return
<1>4. ASSUME edits = 0, verdict' = "accepted"
      PROVE  \A j \in Jobs : fate[j] = "ok"
  <2>1. \A s \in Slots : fate[s] = "ok" /\ rc[s] = "zero"
    BY <1>3, <1>4 DEF Passed, Evidence, SoundResults
  <2>2. 1 \in Slots
    BY RunAssumption DEF Slots
  <2>3. fate[Compile] = "ok"
    BY <2>1, <2>2 DEF Evidence
  <2>4. QED
    BY <2>1, <2>3 DEF Jobs
<1>5. SoundResults'
  BY <1>1, <1>2, <1>4 DEF Evidence, SoundResults
<1>6. QED
  BY <1>1, <1>2, <1>3, <1>5 DEF Evidence, Passed

LEMMA EvidenceStep == TypeOK /\ RunInv /\ Evidence /\ [Next]_vars => Evidence'
<1> SUFFICES ASSUME TypeOK, Phases, Contained, Evidence, [Next]_vars
             PROVE  Evidence'
  BY DEF RunInv
<1>1. ASSUME NEW j \in Jobs, RunContainer(j) \/ Docker(j)
      PROVE  Evidence'
  BY <1>1, EvidenceContainer, EvidenceDocker
<1>2. ASSUME NEW s \in Slots, EnterTest(s) \/ JudgeOutput(s)
      PROVE  Evidence'
  BY <1>2, EvidenceEnter, EvidenceJudge
<1>3. CASE StartCompile \/ FinishCompile \/ Crash
  <2>1. UNCHANGED <<ended, status, daemon, tests, fate, edits>>
    BY <1>3 DEF StartCompile, FinishCompile, Crash
  <2>2. UNCHANGED <<container, rc, binary>>
    BY <2>1 DEF daemon
  <2>3. verdict # "accepted" /\ verdict' # "accepted"
    BY <1>3 DEF StartCompile, FinishCompile, Crash, Return, Evidence
  <2>4. SoundResults'
    BY <2>1, <2>2, <2>3, SoundSame DEF Evidence
  <2>5. \A k \in Jobs : place'[k] \in {"removing", "ran"} => ended[k] # ""
    BY <1>3 DEF StartCompile, FinishCompile, Crash, GoTo, Evidence, TypeOK
  <2>6. QED
    BY <2>1, <2>2, <2>3, <2>4, <2>5 DEF Evidence
<1>4. CASE ScoreGroups
  BY <1>4, EvidenceScore
<1>5. CASE Edit
  <2>1. UNCHANGED <<judge, daemon, fate>> /\ (edits' = 0 => edits = 0)
    BY <1>5, EditsNat DEF Edit, ClearTestFiles, StoreTestFiles
  <2>2. UNCHANGED <<run, verdict, place, ended, status, container, rc, binary, fate>>
    BY <2>1 DEF judge, daemon
  <2>3. SoundResults'
    BY <2>1, <2>2, SoundSame DEF Evidence
  <2>4. tests' = "cleared" => edits' > 0
    BY <1>5, EditsNat DEF Edit, ClearTestFiles, StoreTestFiles
  <2>5. QED
    BY <2>2, <2>3, <2>4 DEF Evidence, Passed
<1>6. CASE UNCHANGED vars
  <2>1. UNCHANGED <<run, verdict, place, ended, status, container, rc, binary, tests, fate,
                    edits>>
    BY <1>6 DEF vars, judge, daemon
  <2>2. SoundResults'
    BY <2>1, SoundSame DEF Evidence
  <2>3. QED
    BY <2>1, <2>2 DEF Evidence, Passed
<1>7. QED
  BY <1>1, <1>2, <1>3, <1>4, <1>5, <1>6 DEF Next

(***************************************************************************)
(* While nobody replaces the tests, results are sound: what is accepted    *)
(* was solved, what is a wrong answer was answered wrongly, and a program  *)
(* is accepted only if it compiles and solves every test.                  *)
(***************************************************************************)
THEOREM SoundResultsAlways == Spec => []SoundResults
<1>1. TypeOK /\ RunInv /\ Evidence /\ [Next]_vars => (TypeOK /\ RunInv /\ Evidence)'
  BY RunStep, EvidenceStep
<1>2. Init => TypeOK /\ RunInv /\ Evidence
  BY TypeInit, RunInit, EvidenceInit
<1>3. Evidence => SoundResults
  BY DEF Evidence
<1>4. QED
  BY <1>1, <1>2, <1>3, PTL DEF Spec

-----------------------------------------------------------------------------
(* The groups' scores                                                      *)

\* Of the sets of what is later than a member of S, one has none of the others inside it.
LEMMA LastSlot ==
    ASSUME NEW S \in SUBSET Slots, S # {}
    PROVE  \E m \in S : \A t \in S : t <= m
<1> DEFINE Later(x) == {y \in S : y > x}
           T == {Later(x) : x \in S}
<1>1. Slots \subseteq Nat /\ IsFiniteSet(Slots)
  BY RunAssumption, FS_Interval DEF Slots
<1>2. T \subseteq FiniteSubsetsOf(Slots) /\ T # {}
  <2>1. \A x \in S : Later(x) \in SUBSET Slots
    OBVIOUS
  <2>2. T \subseteq SUBSET Slots
    BY <2>1
  <2>3. T # {}
    OBVIOUS
  <2>4. FiniteSubsetsOf(Slots) = SUBSET Slots
    BY <1>1, FS_FiniteSubsetsOfFinite
  <2> QED
    BY <2>2, <2>3, <2>4
<1>3. PICK X \in T : \A Y \in T : <<Y, X>> \notin StrictSubsetOrdering(Slots)
  BY <1>2, FS_StrictSubsetOrderingWellFounded, WFMin
<1>4. PICK m \in S : X = Later(m)
  OBVIOUS
<1>5. ASSUME NEW t \in S, ~(t <= m)
      PROVE  FALSE
  <2>1. m \in Nat /\ t \in Nat /\ t > m
    BY <1>1, <1>5
  <2>2. ASSUME NEW z \in Later(t) PROVE z \in Later(m)
    BY <1>1, <2>1
  <2>3. t \in Later(m) /\ t \notin Later(t)
    BY <2>1
  <2>4. <<Later(t), Later(m)>> \in StrictSubsetOrdering(Slots)
    BY <2>2, <2>3 DEF StrictSubsetOrdering
  <2> QED
    BY <2>4, <1>3, <1>4
<1> QED
  BY <1>5

\* Every group has one last test.
LEMMA OneLast ==
    ASSUME NEW s \in Slots
    PROVE  \E m \in Slots : {t \in Mates(s) : LastOfGroup(t)} = {m}
<1>1. Mates(s) \in SUBSET Slots /\ s \in Mates(s)
  BY DEF Mates
<1>2. PICK m \in Mates(s) : \A t \in Mates(s) : t <= m
  BY <1>1, LastSlot
<1>3. \A t \in Mates(s) : Mates(t) = Mates(s)
  BY DEF Mates
<1>4. LastOfGroup(m)
  BY <1>2, <1>3 DEF LastOfGroup
<1>5. ASSUME NEW t \in Mates(s), LastOfGroup(t)
      PROVE  t = m
  <2>1. m <= t /\ t <= m
    BY <1>2, <1>3, <1>5 DEF LastOfGroup
  <2>2. m \in Nat /\ t \in Nat
    BY <1>1 DEF Slots
  <2> QED
    BY <2>1, <2>2
<1>6. {t \in Mates(s) : LastOfGroup(t)} = {m}
  BY <1>2, <1>4, <1>5
<1> QED
  BY <1>1, <1>6

\* What ScoreGroups has written is still what it computed, because nothing is at work
\* when the run has returned.
Scored ==
    verdict \in {"accepted", "not accepted"} =>
        /\ run = "returned"
        /\ verdict = "accepted" <=> \A s \in Slots : Passed(s)
        /\ credited = {s \in Slots : LastOfGroup(s) /\ \A t \in Mates(s) : Passed(t)}

LEMMA ScoredStep == TypeOK /\ RunInv /\ Scored /\ [Next]_vars => Scored'
<1> SUFFICES ASSUME TypeOK, Phases, Scored, [Next]_vars
             PROVE  Scored'
  BY DEF RunInv
<1>1. CASE run = "returned"
  <2>1. \A j \in Jobs : place[j] \in {"queued", "done"}
    BY <1>1 DEF Phases
  <2>2. ASSUME NEW j \in Jobs
        PROVE  ~RunContainer(j)
    BY <2>1
    DEF RunContainer, DockerRun, DockerWait, WaitReturns, TimesOut, RemoveContainer,
        DockerHangs, At
  <2>3. ASSUME NEW s \in Slots
        PROVE  ~EnterTest(s) /\ ~JudgeOutput(s)
    BY <1>1, <2>1, JobsType DEF EnterTest, JudgeOutput, At
  <2>4. UNCHANGED judge
    BY <1>1, <2>2, <2>3
    DEF Next, Docker, ProgramEnds, ContainerKilled, AutoRemove, StartCompile,
        FinishCompile, ScoreGroups, Crash, Edit, ClearTestFiles, StoreTestFiles, vars
  <2> QED
    BY <2>4 DEF judge, Scored, Passed
<1>2. CASE run # "returned"
  <2>1. verdict \notin {"accepted", "not accepted"}
    BY <1>2 DEF Scored
  <2>2. CASE ScoreGroups
    <3>1. UNCHANGED status /\ run' = "returned"
      BY <2>2 DEF ScoreGroups, Return
    <3>2. \A s \in Slots : Passed(s)' = Passed(s)
      BY <3>1 DEF Passed
    <3>3. \A s \in Slots : Mates(s) \subseteq Slots
      BY DEF Mates
    <3>4. credited' = {s \in Slots : LastOfGroup(s) /\ \A t \in Mates(s) : Passed(t)'}
      BY <2>2, <3>2, <3>3 DEF ScoreGroups
    <3>5. verdict' = IF \A s \in Slots : Passed(s)' THEN "accepted" ELSE "not accepted"
      BY <2>2, <3>2 DEF ScoreGroups, Return
    <3> QED
      BY <3>1, <3>4, <3>5 DEF Scored, Passed
  <2>3. CASE ~ScoreGroups
    <3>1. verdict' \notin {"accepted", "not accepted"}
      BY <2>1, <2>3
      DEF Next, RunContainer, DockerRun, DockerWait, WaitReturns, TimesOut,
          RemoveContainer, DockerHangs, Docker, ProgramEnds, ContainerKilled, AutoRemove,
          EnterTest, JudgeOutput, StartCompile, FinishCompile, Return, Crash, Edit, ClearTestFiles,
          StoreTestFiles, vars, judge
    <3> QED
      BY <3>1 DEF Scored
  <2> QED
    BY <2>2, <2>3
<1> QED
  BY <1>1, <1>2

LEMMA ScoredMatches == ASSUME Scored PROVE PointsMatchResults
<1> SUFFICES ASSUME verdict \in {"accepted", "not accepted"}, NEW s \in Slots
             PROVE  Cardinality(credited \intersect Mates(s)) =
                        IF \A t \in Mates(s) : Passed(t) THEN 1 ELSE 0
  BY DEF Scored, PointsMatchResults
<1>1. \A t \in Mates(s) : Mates(t) = Mates(s) /\ t \in Slots
  BY DEF Mates
<1>2. credited \intersect Mates(s) =
          {t \in Mates(s) : LastOfGroup(t) /\ \A u \in Mates(s) : Passed(u)}
  BY <1>1 DEF Scored
<1>3. CASE \A t \in Mates(s) : Passed(t)
  <2>1. PICK m \in Slots : {t \in Mates(s) : LastOfGroup(t)} = {m}
    BY OneLast
  <2>2. credited \intersect Mates(s) = {m}
    BY <1>2, <1>3, <2>1
  <2> QED
    BY <1>3, <2>2, FS_Singleton
<1>4. CASE ~\A t \in Mates(s) : Passed(t)
  <2>1. credited \intersect Mates(s) = {}
    BY <1>2, <1>4
  <2> QED
    BY <1>4, <2>1, FS_EmptySet
<1> QED
  BY <1>3, <1>4

(***************************************************************************)
(* The verdict and the points that runJudge returns agree with the results *)
(* it stored: every group that passed is credited, and once, and no other, *)
(* for every number of tests and every division into groups.               *)
(***************************************************************************)
THEOREM PointsMatchResultsAlways == Spec => []PointsMatchResults
<1>1. Init => Scored
  BY DEF Init, Scored
<1>2. Scored => PointsMatchResults
  BY ScoredMatches
<1>3. QED
  BY <1>1, <1>2, ScoredStep, RunAlways, PTL DEF Spec
=============================================================================
