---------------------------- MODULE ContestsProofs ----------------------------
(***************************************************************************)
(* The standings of a contest that is judged stand, ranks are fair, and    *)
(* the history is what the leaderboard shows, for any number of            *)
(* submissions, users and problems.                                        *)
(***************************************************************************)
EXTENDS ContestsProps, FiniteSetTheorems, TLAPS

\* What the steps need of the types: the judge has a submission that was made.
Sound ==
    /\ StoreTypeOK
    /\ clock \in {"before", "running", "ended"}
    /\ entry \in [Subs -> (Users \X Problems) \union {<<>>}]
    /\ sent \in [Subs -> {"none", "before", "running", "ended"}]
    /\ judge \in {"idle", "judging", "checked"}
    /\ judge # "idle" => task \in Made
    /\ edits \in Nat

-----------------------------------------------------------------------------
(* The latest of some submissions is one of them                           *)

\* Of the sets of what is later than a member, one has none of the others inside it.
LEMMA LatestIsOne ==
    ASSUME NEW S \in SUBSET Subs, S # {}
    PROVE  Max(S) \in S
<1> DEFINE Later(x) == {y \in S : y > x}
           T == {Later(x) : x \in S}
<1>1. Subs \subseteq Nat /\ IsFiniteSet(Subs)
  BY StoreAssumption, FS_Interval DEF Subs
<1>2. T \subseteq FiniteSubsetsOf(Subs) /\ T # {}
  <2>1. \A x \in S : Later(x) \in SUBSET Subs
    OBVIOUS
  <2>2. T \subseteq SUBSET Subs
    BY <2>1
  <2>3. T # {}
    OBVIOUS
  <2>4. FiniteSubsetsOf(Subs) = SUBSET Subs
    BY <1>1, FS_FiniteSubsetsOfFinite
  <2> QED
    BY <2>2, <2>3, <2>4
<1>3. PICK X \in T : \A Y \in T : <<Y, X>> \notin StrictSubsetOrdering(Subs)
  BY <1>2, FS_StrictSubsetOrderingWellFounded, WFMin
<1>4. PICK x \in S : X = Later(x)
  OBVIOUS
<1>5. \A y \in S : x >= y
  <2> SUFFICES ASSUME NEW y \in S, ~(x >= y) PROVE FALSE
    OBVIOUS
  <2>1. x \in Nat /\ y \in Nat /\ y > x
    BY <1>1
  <2>2. ASSUME NEW z \in Later(y) PROVE z \in Later(x)
    <3>1. z \in S /\ z \in Nat /\ z > y
      BY <1>1
    <3> QED
      BY <2>1, <3>1
  <2>3. y \in Later(x) /\ y \notin Later(y)
    BY <2>1
  <2>4. <<Later(y), Later(x)>> \in StrictSubsetOrdering(Subs)
    BY <2>2, <2>3 DEF StrictSubsetOrdering
  <2> QED
    BY <2>4, <1>3, <1>4
<1> QED
  BY <1>5 DEF Max

-----------------------------------------------------------------------------
(* Types                                                                   *)

LEMMA InitSound == Init => Sound
BY StoreAssumption DEF Init, StoreInit, Sound, StoreTypeOK, Status, ResultsCap

\* A statement on rows that are there leaves them there.
LEMMA StatementsSound ==
    ASSUME StoreTypeOK
    PROVE  /\ \A s \in Subs : CreateSubmission(s) => StoreTypeOK' /\ Made' = Made \union {s}
           /\ \A s \in Made : SetRunning(s) => StoreTypeOK' /\ Made' = Made
           /\ \A s \in Made, p \in Points : StoreResult(s, p) => StoreTypeOK' /\ Made' = Made
           /\ \A s \in Made : CancelEvaluation(s) => StoreTypeOK' /\ Made' = Made
           /\ \A s \in Made : CancelScore(s) => StoreTypeOK' /\ Made' = Made
           /\ \A s \in Made : RestoreScore(s) => StoreTypeOK' /\ Made' = Made
           /\ \A S \in SUBSET Made : RejudgeRows(S) => StoreTypeOK' /\ Made' = Made
<1> USE DEF StoreTypeOK, Made, Status, ResultsCap
<1>1. ASSUME NEW s \in Subs, CreateSubmission(s) PROVE StoreTypeOK' /\ Made' = Made \union {s}
  BY <1>1 DEF CreateSubmission
<1>2. ASSUME NEW s \in Made, SetRunning(s) PROVE StoreTypeOK' /\ Made' = Made
  BY <1>2 DEF SetRunning
<1>3. ASSUME NEW s \in Made, NEW p \in Points, StoreResult(s, p)
      PROVE  StoreTypeOK' /\ Made' = Made
  BY <1>3 DEF StoreResult
<1>4. ASSUME NEW s \in Made, CancelEvaluation(s) PROVE StoreTypeOK' /\ Made' = Made
  BY <1>4 DEF CancelEvaluation
<1>5. ASSUME NEW s \in Made, CancelScore(s) PROVE StoreTypeOK' /\ Made' = Made
  BY <1>5 DEF CancelScore
<1>6. ASSUME NEW s \in Made, RestoreScore(s) PROVE StoreTypeOK' /\ Made' = Made
  BY <1>6 DEF RestoreScore
<1>7. ASSUME NEW S \in SUBSET Made, RejudgeRows(S) PROVE StoreTypeOK' /\ Made' = Made
  BY <1>7 DEF RejudgeRows
<1> QED
  BY <1>1, <1>2, <1>3, <1>4, <1>5, <1>6, <1>7

LEMMA NextSound == Sound /\ [Next]_vars => Sound'
<1> SUFFICES ASSUME Sound, [Next]_vars PROVE Sound'
  OBVIOUS
<1> USE DEF Sound
<1>0. Queued \subseteq Made
  BY DEF Queued, Made
<1>1. CASE ContestStarts \/ ContestEnds \/ CreateContest
  <2>1. UNCHANGED <<rows, entry, sent, judge, task, edits>> /\ clock' \in {"before", "running", "ended"}
    BY <1>1 DEF ContestStarts, ContestEnds, CreateContest, judgeVars
  <2> QED
    BY <2>1 DEF rows, StoreTypeOK, Made
<1>2. CASE Submit
  <2>1. PICK s \in Subs, u \in Users, p \in Problems :
          /\ CreateSubmission(s)
          /\ entry' = [entry EXCEPT ![s] = <<u, p>>]
          /\ sent' = [sent EXCEPT ![s] = clock]
          /\ UNCHANGED <<clock, judge, task, edits>>
    BY <1>2 DEF Submit, judgeVars
  <2>2. StoreTypeOK' /\ Made' = Made \union {s}
    BY <2>1, StatementsSound
  <2> QED
    BY <2>1, <2>2
<1>3. CASE PopQueuedSubmission
  <2>1. PICK s \in Subs : IsOldestQueued(s) /\ SetRunning(s) /\ Judge("judging", s)
    BY <1>3 DEF PopQueuedSubmission
  <2>2. s \in Made
    BY <2>1, <1>0 DEF IsOldestQueued
  <2>3. StoreTypeOK' /\ Made' = Made
    BY <2>1, <2>2, StatementsSound
  <2> QED
    BY <1>3, <2>1, <2>2, <2>3 DEF PopQueuedSubmission, Judge, contestVars
<1>4. CASE CheckCancelled \/ UpdateFails
  <2>1. \/ judge' = "idle"
        \/ judge' = "checked" /\ task' = task /\ judge # "idle"
    BY <1>4 DEF CheckCancelled, UpdateFails, Judge
  <2>2. UNCHANGED <<rows, clock, entry, sent, edits>>
    BY <1>4 DEF CheckCancelled, UpdateFails, contestVars
  <2> QED
    BY <2>1, <2>2 DEF rows, StoreTypeOK, Made
<1>5. CASE UpdateSubmissionResult
  <2>1. PICK p \in Points : StoreResult(task, p)
    BY <1>5 DEF UpdateSubmissionResult
  <2>2. StoreTypeOK' /\ Made' = Made
    BY <1>5, <2>1, StatementsSound DEF UpdateSubmissionResult
  <2> QED
    BY <1>5, <2>2 DEF UpdateSubmissionResult, Judge, contestVars
<1>6. CASE MarkSettled \/ ReadLeaderboard \/ SaveHistory \/ SettlementFails
  BY <1>6 DEF MarkSettled, ReadLeaderboard, SaveHistory, SettlementFails, rows, contestVars,
              judgeVars, StoreTypeOK, Made
<1>7. CASE AdminCancelEvaluation \/ AdminCancelScore \/ AdminRestoreScore \/ Rejudge
  <2>1. StoreTypeOK' /\ Made' = Made
    <3>1. CASE AdminCancelEvaluation
      BY <3>1, StatementsSound DEF AdminCancelEvaluation
    <3>2. CASE AdminCancelScore
      BY <3>2, StatementsSound DEF AdminCancelScore
    <3>3. CASE AdminRestoreScore
      BY <3>3, StatementsSound DEF AdminRestoreScore
    <3>4. CASE Rejudge
      BY <3>4, StatementsSound DEF Rejudge, Of
    <3> QED
      BY <1>7, <3>1, <3>2, <3>3, <3>4
  <2>2. Edit
    BY <1>7 DEF AdminCancelEvaluation, AdminCancelScore, AdminRestoreScore, Rejudge
  <2> QED
    BY <2>1, <2>2 DEF Edit, contestVars, judgeVars
<1>8. CASE Crash
  BY <1>8 DEF Crash, Judge, rows, contestVars, StoreTypeOK
<1>9. CASE UNCHANGED vars
  BY <1>9 DEF vars, rows, contestVars, judgeVars, StoreTypeOK, Made
<1> QED
  BY <1>1, <1>2, <1>3, <1>4, <1>5, <1>6, <1>7, <1>8, <1>9 DEF Next

-----------------------------------------------------------------------------
(* The leaderboard                                                         *)

\* What the leaderboard reads of the submissions
Counts(s) == s \in Made /\ InWindow(s) /\ entry[s][2] \in linked

LEMMA SameLeaderboard ==
    ASSUME linked' = linked,
           \A s \in Subs : s \in Made' /\ InWindow(s)' <=> s \in Made /\ InWindow(s),
           \A s \in Made : InWindow(s) => entry'[s] = entry[s],
           \A s \in Subs : Counts(s) => score'[s] = score[s]
    PROVE  Leaderboard' = Leaderboard
<1>1. \A u, p : Entered(u, p)' = Entered(u, p)
  BY DEF Entered, Made
<1>2. \A u : Tried(u)' = Tried(u)
  BY <1>1 DEF Tried
<1>3. Contestants' = Contestants
  BY <1>2 DEF Contestants
<1>4. ASSUME NEW u, NEW p \in Tried(u)
      PROVE  score'[Max(Entered(u, p))] = score[Max(Entered(u, p))]
  <2>1. Entered(u, p) # {} /\ p \in linked /\ Entered(u, p) \subseteq Subs
    BY DEF Tried, Entered, Made
  <2>2. Max(Entered(u, p)) \in Entered(u, p)
    BY <2>1, LatestIsOne
  <2>3. \A s \in Entered(u, p) : s \in Subs /\ Counts(s)
    BY <2>1 DEF Entered, Counts
  <2> QED
    BY <2>2, <2>3
<1>5. \A u : Scores(u)' = Scores(u)
  <2> SUFFICES ASSUME NEW u PROVE Scores(u)' = Scores(u)
    OBVIOUS
  <2>1. Scores(u)' = [p \in Tried(u) |-> score'[Max(Entered(u, p))]]
    BY <1>1, <1>2 DEF Scores
  <2> QED
    BY <2>1, <1>4 DEF Scores
<1> QED
  BY <1>3, <1>5 DEF Leaderboard

\* A step that leaves rows and window alone
LEMMA RowsKept ==
    ASSUME UNCHANGED <<rows, linked, entry, sent>>
    PROVE  Leaderboard' = Leaderboard
<1>1. Made' = Made /\ score' = score
  BY DEF rows, Made
<1>2. \A s : InWindow(s)' = InWindow(s)
  BY DEF InWindow
<1> QED
  BY <1>1, <1>2, SameLeaderboard

LEMMA StandingStep ==
    ASSUME Sound, [Next]_vars, clock = "ended", created, AllDecided, edits' = edits
    PROVE  Leaderboard' = Leaderboard
<1> USE DEF Sound
<1>1. CASE ContestStarts \/ ContestEnds \/ CreateContest
  BY <1>1 DEF ContestStarts, ContestEnds, CreateContest
<1>2. CASE Submit
  <2>1. PICK s \in Subs, u \in Users, p \in Problems :
          /\ CreateSubmission(s)
          /\ entry' = [entry EXCEPT ![s] = <<u, p>>]
          /\ sent' = [sent EXCEPT ![s] = clock]
          /\ UNCHANGED linked
    BY <1>2 DEF Submit
  <2>2. /\ Made' = Made \union {s} /\ s \notin Made
        /\ score' = score
    BY <2>1, StatementsSound DEF CreateSubmission, Made
  <2>3. \A r \in Subs : r # s => sent'[r] = sent[r] /\ entry'[r] = entry[r]
    BY <2>1
  <2>4. sent'[s] = "ended"
    BY <2>1
  <2>5. \A r \in Subs : r \in Made' /\ InWindow(r)' <=> r \in Made /\ InWindow(r)
    BY <2>2, <2>3, <2>4 DEF InWindow
  <2>6. \A r \in Made : entry'[r] = entry[r]
    BY <2>2, <2>3 DEF Made
  <2> QED
    BY <2>1, <2>2, <2>5, <2>6, SameLeaderboard
<1>3. CASE PopQueuedSubmission
  <2>1. PICK s \in Subs : IsOldestQueued(s) /\ SetRunning(s)
    BY <1>3 DEF PopQueuedSubmission
  <2>2. s \in Made
    BY <2>1 DEF IsOldestQueued, Queued, Made
  <2>3. Made' = Made /\ score' = score
    BY <2>1, <2>2, StatementsSound DEF SetRunning
  <2>4. \A r \in Subs : InWindow(r)' = InWindow(r)
    BY <1>3 DEF PopQueuedSubmission, contestVars, InWindow
  <2> QED
    BY <1>3, <2>3, <2>4, SameLeaderboard DEF PopQueuedSubmission, contestVars
<1>4. CASE UpdateSubmissionResult
  <2>1. PICK p \in Points : StoreResult(task, p)
    BY <1>4 DEF UpdateSubmissionResult
  <2>2. UNCHANGED contestVars /\ task \in Made
    BY <1>4 DEF UpdateSubmissionResult
  <2>3. Made' = Made /\ score' = [score EXCEPT ![task] = p]
    BY <2>1, <2>2, StatementsSound DEF StoreResult
  <2>4. ~Counts(task)
    BY DEF AllDecided, Decided, Counts
  <2>5. \A r \in Subs : Counts(r) => score'[r] = score[r]
    BY <2>3, <2>4 DEF StoreTypeOK
  <2>6. \A r \in Subs : InWindow(r)' = InWindow(r)
    BY <2>2 DEF contestVars, InWindow
  <2> QED
    BY <2>2, <2>3, <2>5, <2>6, SameLeaderboard DEF contestVars
<1>5. CASE \/ CheckCancelled \/ UpdateFails \/ MarkSettled \/ ReadLeaderboard \/ SaveHistory
           \/ SettlementFails \/ Crash
  BY <1>5, RowsKept DEF CheckCancelled, UpdateFails, MarkSettled, ReadLeaderboard, SaveHistory,
                        SettlementFails, Crash, contestVars
<1>6. CASE AdminCancelEvaluation \/ AdminCancelScore \/ AdminRestoreScore \/ Rejudge
  <2>1. Edit
    BY <1>6 DEF AdminCancelEvaluation, AdminCancelScore, AdminRestoreScore, Rejudge
  <2> QED
    BY <2>1 DEF Edit
<1>7. CASE UNCHANGED vars
  BY <1>7, RowsKept DEF vars, contestVars
<1> QED
  BY <1>1, <1>2, <1>3, <1>4, <1>5, <1>6, <1>7 DEF Next

-----------------------------------------------------------------------------

(***************************************************************************)
(* Once a contest has ended and what was entered in it is judged, its      *)
(* leaderboard stays as it is until an administrator changes a submission  *)
(* (GetContestLeaderboard).                                                *)
(***************************************************************************)
THEOREM StandingsFinalAlways == Spec => StandingsFinal
<1>1. Sound /\ [Next]_vars =>
        [clock = "ended" /\ created /\ AllDecided /\ edits' = edits
         => Leaderboard' = Leaderboard]_vars
  BY StandingStep
<1> QED
  BY <1>1, InitSound, NextSound, PTL DEF Spec, StandingsFinal

-----------------------------------------------------------------------------
(* The order of the contestants                                            *)

\* The contestants in front of u
Before(u) == {v \in DOMAIN board : Ahead(v, u)}

\* The rows of a leaderboard
BoardOK ==
    /\ DOMAIN board \subseteq Users
    /\ board \in [DOMAIN board -> Nat]

LEMMA BoardFinite ==
    ASSUME BoardOK
    PROVE  /\ DOMAIN board \subseteq Nat
           /\ \A u \in DOMAIN board : board[u] \in Nat
           /\ IsFiniteSet(DOMAIN board)
           /\ Cardinality(DOMAIN board) \in 0..NumUsers
           /\ \A S \in SUBSET DOMAIN board :
                IsFiniteSet(S) /\ Cardinality(S) \in 0..Cardinality(DOMAIN board)
<1>1. IsFiniteSet(Users) /\ Cardinality(Users) = NumUsers /\ Users \subseteq Nat
  BY ContestsAssumption, FS_Interval DEF Users
<1>2. /\ IsFiniteSet(DOMAIN board)
      /\ Cardinality(DOMAIN board) <= NumUsers
      /\ Cardinality(DOMAIN board) \in Nat
  BY <1>1, FS_Subset, FS_CardinalityType DEF BoardOK
<1>3. ASSUME NEW S \in SUBSET DOMAIN board
      PROVE  IsFiniteSet(S) /\ Cardinality(S) \in 0..Cardinality(DOMAIN board)
  BY <1>2, FS_Subset, FS_CardinalityType
<1> QED
  BY <1>1, <1>2, <1>3, ContestsAssumption DEF BoardOK

LEMMA AheadOrders ==
    ASSUME BoardOK
    PROVE  /\ \A u \in DOMAIN board : ~Ahead(u, u)
           /\ \A u, v \in DOMAIN board : u # v => Ahead(u, v) \/ Ahead(v, u)
           /\ \A u, v, w \in DOMAIN board : Ahead(u, v) /\ Ahead(v, w) => Ahead(u, w)
BY BoardFinite DEF Ahead

LEMMA BeforeGrows ==
    ASSUME BoardOK, NEW u \in DOMAIN board, NEW v \in DOMAIN board, Ahead(u, v)
    PROVE  Cardinality(Before(u)) < Cardinality(Before(v))
<1>1. Before(u) \subseteq Before(v) /\ u \in Before(v) /\ u \notin Before(u)
  BY AheadOrders DEF Before
<1>2. Before(v) \in SUBSET DOMAIN board
  BY DEF Before
<1>3. IsFiniteSet(Before(v)) /\ Cardinality(Before(v)) \in Nat /\ Cardinality(Before(u)) \in Nat
  BY <1>1, <1>2, BoardFinite
<1>4. /\ Cardinality(Before(u)) <= Cardinality(Before(v))
      /\ Cardinality(Before(u)) # Cardinality(Before(v))
  BY <1>1, <1>3, FS_Subset
<1> QED
  BY <1>3, <1>4

\* s lists the contestants, those ahead first.
Lists(s) ==
    /\ s \in [1..Cardinality(DOMAIN board) -> DOMAIN board]
    /\ \A i, j \in DOMAIN s : i < j => Ahead(s[i], s[j])

\* There is such a list: everybody's place is one after those in front.
LEMMA ListExists ==
    ASSUME BoardOK
    PROVE  \E s : Lists(s)
<1> DEFINE D == DOMAIN board
           n == Cardinality(D)
           f == [u \in D |-> Cardinality(Before(u)) + 1]
<1>1. n \in Nat /\ IsFiniteSet(D)
  BY BoardFinite
<1>2. ASSUME NEW u \in D PROVE Cardinality(Before(u)) + 1 \in 1..n
  <2>1. Before(u) \in SUBSET (D \ {u})
    BY AheadOrders DEF Before
  <2>2. IsFiniteSet(D \ {u}) /\ Cardinality(D \ {u}) = n - 1
    BY <1>1, FS_RemoveElement
  <2>3. Cardinality(Before(u)) <= n - 1
    BY <2>1, <2>2, FS_Subset
  <2>4. Cardinality(Before(u)) \in Nat
    BY <2>1, BoardFinite
  <2> QED
    BY <1>1, <2>3, <2>4
<1>3. ASSUME NEW u \in D, NEW v \in D, u # v PROVE f[u] # f[v]
  <2>1. Cardinality(Before(u)) # Cardinality(Before(v))
    <3>1. Cardinality(Before(u)) \in Nat /\ Cardinality(Before(v)) \in Nat
      BY BoardFinite DEF Before
    <3> QED
      BY <1>3, <3>1, AheadOrders, BeforeGrows
  <2>2. Cardinality(Before(u)) \in Nat /\ Cardinality(Before(v)) \in Nat
    BY BoardFinite DEF Before
  <2> QED
    BY <2>1, <2>2
<1>4. f \in Injection(D, 1..n)
  BY <1>2, <1>3 DEF Injection, IsInjective
<1>5. f \in Surjection(D, 1..n)
  <2>1. IsFiniteSet(1..n) /\ Cardinality(1..n) = n
    BY <1>1, FS_Interval
  <2> HIDE DEF f, n, D
  <2>2. n = Cardinality(D)
    BY DEF n, D
  <2> QED
    BY <1>4, <2>1, <2>2, FS_Injection
<1>6. \A i \in 1..n : \E u \in D : f[u] = i
  <2> HIDE DEF f, n, D
  <2> QED
    BY <1>5 DEF Surjection
<1> DEFINE s == [i \in 1..n |-> CHOOSE u \in D : f[u] = i]
<1>7. \A i \in 1..n : s[i] \in D /\ f[s[i]] = i
  <2> HIDE DEF f, n, D
  <2> QED
    BY <1>6
<1>8. ASSUME NEW i \in 1..n, NEW j \in 1..n, i < j PROVE Ahead(s[i], s[j])
  <2>1. s[i] # s[j]
    BY <1>7, <1>8
  <2>2. CASE Ahead(s[j], s[i])
    <3> HIDE DEF s
    <3>1. Cardinality(Before(s[j])) < Cardinality(Before(s[i]))
      BY <1>7, <2>2, BeforeGrows
    <3>2. Cardinality(Before(s[i])) + 1 = i /\ Cardinality(Before(s[j])) + 1 = j
      BY <1>7
    <3>3. Cardinality(Before(s[j])) \in Nat /\ Cardinality(Before(s[i])) \in Nat
      BY BoardFinite DEF Before
    <3> QED
      BY <1>8, <3>1, <3>2, <3>3
  <2> QED
    BY <1>7, <2>1, <2>2, AheadOrders
<1>9. Lists(s)
  <2> HIDE DEF f
  <2>1. s \in [1..n -> D] /\ DOMAIN s = 1..n
    BY <1>7
  <2> HIDE DEF s
  <2> QED
    BY <1>8, <2>1 DEF Lists
<1> QED
  BY <1>9

\* Sorted has every contestant once.
LEMMA SortedLists ==
    ASSUME BoardOK
    PROVE  /\ Lists(Sorted)
           /\ \A i, j \in DOMAIN Sorted : Sorted[i] = Sorted[j] => i = j
           /\ \A u \in DOMAIN board : \E i \in DOMAIN Sorted : Sorted[i] = u
<1> DEFINE D == DOMAIN board
           n == Cardinality(D)
<1>1. Lists(Sorted)
  BY ListExists DEF Lists, Sorted
<1>2. Sorted \in [1..n -> D] /\ n \in Nat /\ IsFiniteSet(D)
  BY <1>1, BoardFinite DEF Lists
<1>3. ASSUME NEW i \in 1..n, NEW j \in 1..n, i # j PROVE Sorted[i] # Sorted[j]
  <2>1. i < j \/ j < i
    BY <1>3
  <2> QED
    BY <1>1, <1>2, <2>1, AheadOrders DEF Lists
<1>4. Sorted \in Injection(1..n, D)
  BY <1>2, <1>3 DEF Injection, IsInjective
<1>5. Cardinality(1..n) = n
  BY <1>2, FS_Interval
<1>6. Sorted \in Surjection(1..n, D)
  <2> HIDE DEF n, D
  <2>1. n = Cardinality(D)
    BY DEF n
  <2> QED
    BY <1>2, <1>4, <1>5, <2>1, FS_Injection
<1>7. \A u \in D : \E i \in 1..n : Sorted[i] = u
  <2> HIDE DEF n, D
  <2> QED
    BY <1>6 DEF Surjection
<1> QED
  BY <1>1, <1>2, <1>3, <1>7

-----------------------------------------------------------------------------
(* Sums of points                                                          *)

\* Induction over the numbers, for a set of them
LEMMA Counting ==
    ASSUME NEW T \in SUBSET Nat, 0 \in T, \A n \in T : n + 1 \in T
    PROVE  T = Nat
<1> SUFFICES ASSUME Nat \ T # {} PROVE FALSE
  OBVIOUS
<1> DEFINE R == {p \in Nat \X Nat : p[1] < p[2]}
<1>0. IsWellFoundedOn(R, Nat)
  BY NatLessThanWellFounded DEF OpToRel
<1>a. Nat \ T \subseteq Nat
  OBVIOUS
<1> HIDE DEF R
<1>1. PICK x \in Nat \ T : \A y \in Nat \ T : <<y, x>> \notin R
  BY <1>0, <1>a, WFMin
<1>2. x - 1 \in T /\ x \in Nat
  <2>1. x \in Nat /\ x # 0
    OBVIOUS
  <2>2. x - 1 \in Nat /\ <<x - 1, x>> \in R
    BY <2>1 DEF R
  <2> QED
    BY <2>1, <2>2, <1>1
<1> QED
  BY <1>2, <1>1

\* One step of SumFunction: the points of one problem, and the sum over the others
Adding(c, it, s) ==
    IF s = {} THEN 0
    ELSE c[CHOOSE x \in s : TRUE] + it[s \ {CHOOSE x \in s : TRUE}]

\* The function it has the sum for each part of D.
Sums(c, D, it) == it = [s \in SUBSET D |-> Adding(c, it, s)]

\* The recursion of the fold ends: there is a function that it defines.
LEMMA AddingEnds ==
    ASSUME NEW D, IsFiniteSet(D), NEW c
    PROVE  \E it : Sums(c, D, it)
<1> DEFINE B(n) == {s \in SUBSET D : Cardinality(s) <= n}
           T == {n \in Nat : \E f : f = [s \in B(n) |-> Adding(c, f, s)]}
<1>0. \A s \in SUBSET D : IsFiniteSet(s) /\ Cardinality(s) \in Nat
  BY FS_Subset, FS_CardinalityType
<1>1. 0 \in T
  <2>1. \A s \in B(0) : s = {}
    BY <1>0, FS_EmptySet
  <2>2. \A f : [s \in B(0) |-> 0] = [s \in B(0) |-> Adding(c, f, s)]
    BY <2>1 DEF Adding
  <2> QED
    BY <2>2
<1>2. ASSUME NEW n \in T PROVE n + 1 \in T
  <2>1. PICK f : f = [s \in B(n) |-> Adding(c, f, s)]
    OBVIOUS
  <2> DEFINE g == [s \in B(n + 1) |-> Adding(c, f, s)]
  <2>2. \A s \in B(n) : s \in B(n + 1) /\ g[s] = f[s]
    BY <1>0, <2>1
  <2>3. ASSUME NEW s \in B(n + 1) PROVE Adding(c, f, s) = Adding(c, g, s)
    <3>1. CASE s = {}
      BY <3>1 DEF Adding
    <3>2. CASE s # {}
      <4> DEFINE e == CHOOSE x \in s : TRUE
      <4>1. e \in s
        BY <3>2
      <4>2. s \ {e} \in B(n)
        <5>1. s \ {e} \in SUBSET D /\ Cardinality(s) <= n + 1 /\ n \in Nat
          OBVIOUS
        <5>2. IsFiniteSet(s) /\ Cardinality(s) \in Nat
          BY <1>0
        <5>3. Cardinality(s \ {e}) = Cardinality(s) - 1
          BY <4>1, <5>2, FS_RemoveElement
        <5> QED
          BY <5>1, <5>2, <5>3
      <4>3. f[s \ {e}] = g[s \ {e}]
        BY <2>2, <4>2
      <4> QED
        BY <4>3 DEF Adding
    <3> QED
      BY <3>1, <3>2
  <2>4. g = [s \in B(n + 1) |-> Adding(c, g, s)]
    BY <2>3
  <2> HIDE DEF g
  <2>5. n + 1 \in Nat
    OBVIOUS
  <2> QED
    BY <2>4, <2>5
<1>3. T = Nat
  <2> HIDE DEF T
  <2>1. T \subseteq Nat
    BY DEF T
  <2> QED
    BY <1>1, <1>2, <2>1, Counting
<1>4. Cardinality(D) \in T
  BY <1>3, FS_CardinalityType
<1>5. B(Cardinality(D)) = SUBSET D
  BY FS_Subset
<1> QED
  BY <1>4, <1>5 DEF Sums

\* Points that are natural numbers add up to one.
LEMMA SumNatural ==
    ASSUME NEW D, IsFiniteSet(D), NEW f \in [D -> Nat]
    PROVE  SumFunction(f) \in Nat
<1> DEFINE Sum == CHOOSE it : Sums(f, D, it)
           T == {n \in Nat : \A s \in SUBSET D : Cardinality(s) = n => Sum[s] \in Nat}
<1>1. SumFunction(f) = Sum[D]
  BY DEF SumFunction, SumFunctionOnSet, FoldFunctionOnSet, MapThenFoldSet, Adding, Sums
<1>2. Sums(f, D, Sum)
  BY AddingEnds
<1> HIDE DEF Sum
<1>3. \A s \in SUBSET D : IsFiniteSet(s) /\ Cardinality(s) \in Nat /\ Sum[s] = Adding(f, Sum, s)
  BY <1>2, FS_Subset, FS_CardinalityType DEF Sums
<1>4. 0 \in T
  <2> SUFFICES ASSUME NEW s \in SUBSET D, Cardinality(s) = 0 PROVE Sum[s] \in Nat
    OBVIOUS
  <2>1. s = {}
    BY <1>3, FS_EmptySet
  <2> QED
    BY <1>3, <2>1 DEF Adding
<1>5. ASSUME NEW n \in T, NEW s \in SUBSET D, Cardinality(s) = n + 1 PROVE Sum[s] \in Nat
  <2> DEFINE e == CHOOSE x \in s : TRUE
  <2>1. s # {} /\ n \in Nat /\ IsFiniteSet(s)
    BY <1>3, <1>5, FS_EmptySet
  <2>2. e \in s
    BY <2>1
  <2>3. Sum[s] = f[e] + Sum[s \ {e}]
    BY <1>3, <2>1 DEF Adding
  <2> HIDE DEF e
  <2>4. Cardinality(s \ {e}) = Cardinality(s) - 1
    BY <2>1, <2>2, FS_RemoveElement
  <2>5. Sum[s \ {e}] \in Nat
    BY <1>5, <2>1, <2>4
  <2> QED
    BY <2>2, <2>3, <2>5
<1>6. ASSUME NEW n \in T PROVE n + 1 \in T
  BY <1>5
<1>7. T = Nat
  <2> HIDE DEF T
  <2>1. T \subseteq Nat
    BY DEF T
  <2> QED
    BY <1>4, <1>6, <2>1, Counting
<1> QED
  BY <1>1, <1>3, <1>7

\* Every contestant has a total.
LEMMA LeaderboardType ==
    ASSUME Sound
    PROVE  /\ Leaderboard \in [Contestants -> Nat]
           /\ Contestants \subseteq Users
<1>1. ASSUME NEW u \in Contestants PROVE SumFunction(Scores(u)) \in Nat
  <2>1. IsFiniteSet(Tried(u))
    <3> DEFINE S == {s \in Made : \E p \in Tried(u) : entry[s] = <<u, p>>}
               g == [s \in S |-> entry[s][2]]
    <3>1. IsFiniteSet(S)
      <4>1. IsFiniteSet(Subs) /\ S \in SUBSET Subs
        BY StoreAssumption, FS_Interval DEF Subs, Made
      <4> QED
        BY <4>1, FS_Subset
    <3>2. \A s \in S : g[s] \in Tried(u)
      OBVIOUS
    <3>3. \A p \in Tried(u) : \E s \in S : g[s] = p
      BY DEF Tried, Entered
    <3>4. g \in Surjection(S, Tried(u))
      BY <3>2, <3>3 DEF Surjection
    <3> HIDE DEF S, g
    <3> QED
      BY <3>1, <3>4, FS_Surjection
  <2>2. Scores(u) \in [Tried(u) -> Nat]
    <3> SUFFICES ASSUME NEW p \in Tried(u) PROVE score[Max(Entered(u, p))] \in Nat
      BY DEF Scores
    <3>1. Entered(u, p) \in SUBSET Subs /\ Entered(u, p) # {}
      BY DEF Tried, Entered, Made
    <3>2. Max(Entered(u, p)) \in Subs
      BY <3>1, LatestIsOne
    <3>3. score[Max(Entered(u, p))] \in Points \union {0}
      BY <3>2 DEF Sound, StoreTypeOK
    <3>4. Points \union {0} \subseteq Nat
      BY StoreAssumption
    <3> QED
      BY <3>3, <3>4
  <2> QED
    BY <2>1, <2>2, SumNatural
<1> QED
  BY <1>1 DEF Leaderboard, Contestants

-----------------------------------------------------------------------------
(* Ranks                                                                   *)

\* One step of the pass over the sorted rows
Rank(f, i) == IF i > 1 /\ board[Sorted[i]] = board[Sorted[i - 1]] THEN f[i - 1] ELSE i

LEMMA RanksExist ==
    ASSUME BoardOK
    PROVE  \E f : f = [i \in DOMAIN Sorted |-> Rank(f, i)]
<1> DEFINE n == Cardinality(DOMAIN board)
           B(k) == (1..n) \intersect (0..k)
           T == {k \in Nat : \E f : f = [i \in B(k) |-> Rank(f, i)]}
<1>0. n \in Nat /\ DOMAIN Sorted = 1..n
  BY SortedLists, BoardFinite DEF Lists
<1> HIDE DEF n
<1>1. 0 \in T
  <2>1. B(0) = {}
    BY <1>0
  <2>2. \A f : [i \in B(0) |-> 0] = [i \in B(0) |-> Rank(f, i)]
    BY <2>1
  <2> QED
    BY <2>2
<1>2. ASSUME NEW k \in T PROVE k + 1 \in T
  <2>1. PICK f : f = [i \in B(k) |-> Rank(f, i)]
    OBVIOUS
  <2> DEFINE g == [i \in B(k + 1) |-> Rank(f, i)]
  <2>2. \A i \in B(k) : g[i] = f[i]
    BY <2>1
  <2>3. ASSUME NEW i \in B(k + 1) PROVE Rank(f, i) = Rank(g, i)
    <3>1. i > 1 => i - 1 \in B(k)
      BY <1>0
    <3> HIDE DEF g, B
    <3> QED
      BY <2>2, <3>1 DEF Rank
  <2>4. g = [i \in B(k + 1) |-> Rank(g, i)]
    BY <2>3
  <2> HIDE DEF g
  <2>5. k + 1 \in Nat
    OBVIOUS
  <2> QED
    BY <2>4, <2>5
<1>3. T = Nat
  <2> HIDE DEF T
  <2>1. T \subseteq Nat
    BY DEF T
  <2> QED
    BY <1>1, <1>2, <2>1, Counting
<1>4. B(n) = DOMAIN Sorted
  BY <1>0
<1> QED
  BY <1>0, <1>3, <1>4

LEMMA RankingsPass ==
    ASSUME BoardOK
    PROVE  /\ DOMAIN Rankings = DOMAIN Sorted
           /\ \A i \in DOMAIN Sorted : Rankings[i] = Rank(Rankings, i)
<1> DEFINE P(f) == f = [i \in DOMAIN Sorted |-> Rank(f, i)]
<1>1. Rankings = CHOOSE f : P(f)
  BY DEF Rankings, Rank
<1>2. \E f : P(f)
  BY RanksExist
<1>3. P(Rankings)
  <2> HIDE DEF P
  <2> QED
    BY <1>1, <1>2
<1> QED
  BY <1>3

\* Those with more points than u
Above(u) == {v \in DOMAIN board : board[v] > board[u]}

LEMMA RankIsFair ==
    ASSUME BoardOK, NEW i \in DOMAIN Sorted
    PROVE  /\ Rankings[i] = 1 + Cardinality(Above(Sorted[i]))
           /\ Rankings[i] \in 1..NumUsers
<1> DEFINE n == Cardinality(DOMAIN board)
           R(k) == Rankings[k] = 1 + Cardinality(Above(Sorted[k]))
           T == {k \in Nat : k + 1 \in 1..n => R(k + 1)}
<1>0. /\ n \in 0..NumUsers /\ DOMAIN Sorted = 1..n
      /\ \A k \in 1..n : Sorted[k] \in DOMAIN board /\ board[Sorted[k]] \in Nat
      /\ \A j, k \in 1..n : j < k => board[Sorted[j]] >= board[Sorted[k]]
  <2>1. Lists(Sorted) /\ n \in 0..NumUsers
    BY SortedLists, BoardFinite
  <2>2. DOMAIN Sorted = 1..n /\ \A k \in 1..n : Sorted[k] \in DOMAIN board /\ board[Sorted[k]] \in Nat
    BY <2>1, BoardFinite DEF Lists
  <2>3. \A j, k \in 1..n : j < k => Ahead(Sorted[j], Sorted[k])
    BY <2>1, <2>2 DEF Lists
  <2> HIDE DEF n
  <2> QED
    BY <2>1, <2>2, <2>3 DEF Ahead
<1> HIDE DEF n
\* A row whose points are not those of the row before has all the rows before above it.
<1>1. ASSUME NEW k \in 1..n, k > 1 => board[Sorted[k]] # board[Sorted[k - 1]]
      PROVE  Cardinality(Above(Sorted[k])) = k - 1
  <2> DEFINE h == [j \in 1..(k - 1) |-> Sorted[j]]
  <2>0. k \in Nat /\ n \in Nat
    BY <1>0
  <2>1. ASSUME NEW j \in 1..(k - 1) PROVE Sorted[j] \in Above(Sorted[k])
    <3>1. j \in 1..n /\ k - 1 \in 1..n /\ k > 1 /\ j <= k - 1 /\ j < k
      BY <2>0
    <3>2. board[Sorted[j]] >= board[Sorted[k - 1]]
      <4>1. CASE j = k - 1
        BY <1>0, <3>1, <4>1
      <4>2. CASE j < k - 1
        BY <1>0, <3>1, <4>2
      <4> QED
        BY <2>0, <3>1, <4>1, <4>2
    <3>3. board[Sorted[k - 1]] >= board[Sorted[k]]
      BY <1>0, <2>0, <3>1
    <3>4. board[Sorted[k - 1]] # board[Sorted[k]]
      BY <1>1, <3>1
    <3> QED
      BY <1>0, <3>1, <3>2, <3>3, <3>4 DEF Above
  <2>2. ASSUME NEW v \in Above(Sorted[k]) PROVE \E j \in 1..(k - 1) : h[j] = v
    <3>1. PICK j \in 1..n : Sorted[j] = v
      BY <1>0, SortedLists DEF Above
    <3>2. board[Sorted[j]] > board[Sorted[k]]
      BY <3>1 DEF Above
    <3>3. j < k
      <4>1. j # k
        BY <1>0, <3>2
      <4>2. ~(k < j)
        BY <1>0, <3>2
      <4> QED
        BY <2>0, <4>1, <4>2
    <3> QED
      BY <2>0, <3>1, <3>3
  <2>3. h \in Surjection(1..(k - 1), Above(Sorted[k]))
    BY <2>1, <2>2 DEF Surjection
  <2>4. h \in Injection(1..(k - 1), Above(Sorted[k]))
    <3>1. \A a, b \in 1..(k - 1) : a \in 1..n /\ b \in 1..n /\ h[a] = Sorted[a] /\ h[b] = Sorted[b]
      BY <2>0
    <3>2. \A a, b \in 1..(k - 1) : h[a] = h[b] => a = b
      BY <1>0, <3>1, SortedLists
    <3> QED
      BY <2>1, <3>2 DEF Injection, IsInjective
  <2>5. IsFiniteSet(1..(k - 1)) /\ Cardinality(1..(k - 1)) = k - 1
    BY <2>0, FS_Interval
  <2> HIDE DEF h
  <2> QED
    BY <2>3, <2>4, <2>5, FS_Surjection
<1>2. ASSUME NEW k \in 1..n, k = 1 \/ R(k - 1) PROVE R(k)
  <2>0. k \in Nat /\ k - 1 \in Nat
    BY <1>0
  <2>1. Rankings[k] = Rank(Rankings, k)
    BY <1>0, RankingsPass
  <2>2. CASE k > 1 /\ board[Sorted[k]] = board[Sorted[k - 1]]
    <3>1. Above(Sorted[k]) = Above(Sorted[k - 1])
      BY <2>2 DEF Above
    <3>2. Rankings[k] = Rankings[k - 1]
      BY <2>1, <2>2 DEF Rank
    <3> QED
      BY <1>2, <2>0, <2>2, <3>1, <3>2
  <2>3. CASE ~(k > 1 /\ board[Sorted[k]] = board[Sorted[k - 1]])
    <3>1. Rankings[k] = k
      BY <2>1, <2>3 DEF Rank
    <3>2. Cardinality(Above(Sorted[k])) = k - 1
      BY <1>1, <2>3
    <3> QED
      BY <2>0, <3>1, <3>2
  <2> QED
    BY <2>2, <2>3
<1>3. 0 \in T
  BY <1>2
<1>4. ASSUME NEW k \in T PROVE k + 1 \in T
  <2>1. k \in Nat /\ (k + 1) + 1 - 1 = k + 1 /\ (k + 1 + 1 \in 1..n => k + 1 \in 1..n)
    BY <1>0
  <2> HIDE DEF R
  <2>2. (k + 1) + 1 \in 1..n => R((k + 1) + 1)
    BY <1>2, <2>1
  <2> QED
    BY <2>1, <2>2
<1>5. T = Nat
  <2> HIDE DEF T
  <2>1. T \subseteq Nat
    BY DEF T
  <2> QED
    BY <1>3, <1>4, <2>1, Counting
<1>6. R(i)
  <2>1. i - 1 \in Nat /\ (i - 1) + 1 = i /\ i \in 1..n
    BY <1>0
  <2> HIDE DEF R
  <2>2. i - 1 \in T
    BY <1>5, <2>1
  <2> QED
    BY <2>1, <2>2
<1>7. Cardinality(Above(Sorted[i])) \in 0..(n - 1)
  <2>1. Above(Sorted[i]) \in SUBSET (DOMAIN board \ {Sorted[i]})
    BY <1>0 DEF Above
  <2>2. IsFiniteSet(DOMAIN board \ {Sorted[i]}) /\ Cardinality(DOMAIN board \ {Sorted[i]}) = n - 1
    BY <1>0, BoardFinite, FS_RemoveElement DEF n
  <2>3. Cardinality(Above(Sorted[i])) \in Nat
    BY <2>1, BoardFinite
  <2> QED
    BY <1>0, <2>1, <2>2, <2>3, FS_Subset
<1> HIDE DEF R
<1>8. Rankings[i] = 1 + Cardinality(Above(Sorted[i]))
  BY <1>6 DEF R
<1>9. n \in Nat /\ NumUsers \in Nat /\ n <= NumUsers
  BY <1>0, ContestsAssumption
<1> QED
  BY <1>7, <1>8, <1>9

-----------------------------------------------------------------------------
(* The settlement                                                          *)

\* A row tells who entered it, where and when, from the statement that makes it.
Entries ==
    \A s \in Subs : IF s \in Made
                    THEN entry[s] \in Users \X Problems /\ sent[s] # "none"
                    ELSE entry[s] = <<>> /\ sent[s] = "none"

\* The history that is saved of a leaderboard
Saved == {h \in Placed : h.user \in Members}

\* Until the settlement is over there is no history, and then it is that of the leaderboard
\* that was read.
Read ==
    /\ settlement \in {"due", "marked", "read", "over"}
    /\ BoardOK
    /\ settlement = "read" => DOMAIN board # {}
    /\ settlement # "over" => history = {}
    /\ history # {} => history = Saved

\* Of a settlement that began when everything was judged, the leaderboard is still the same.
Undisturbed ==
    quiet /\ settlement # "due" =>
        /\ clock = "ended" /\ created /\ AllDecided
        /\ settlement = "read" \/ history # {} => board = Leaderboard

SettleInv ==
    /\ Sound
    /\ linked \subseteq Problems /\ created \in BOOLEAN
    /\ judge = "idle" => task = 0
    /\ Entries
    /\ Read
    /\ Undisturbed

LEMMA InitSettle == Init => SettleInv
<1> SUFFICES ASSUME Init PROVE SettleInv
  OBVIOUS
<1>1. Entries
  BY DEF Init, StoreInit, Entries, Made
<1>2. Read
  BY DEF Init, Read, BoardOK, Empty
<1>3. Undisturbed
  BY DEF Init, Undisturbed
<1> QED
  BY <1>1, <1>2, <1>3, InitSound DEF Init, SettleInv

LEMMA EntriesStep ==
    ASSUME Sound, Entries, linked \subseteq Problems, created \in BOOLEAN,
           judge = "idle" => task = 0, [Next]_vars
    PROVE  /\ linked' \subseteq Problems /\ created' \in BOOLEAN
           /\ judge' = "idle" => task' = 0
           /\ Entries'
<1> USE DEF Sound
<1>0. Queued \subseteq Made
  BY DEF Queued, Made
<1>1. CASE Submit
  <2>1. PICK s \in Subs, u \in Users, p \in Problems :
          /\ CreateSubmission(s)
          /\ entry' = [entry EXCEPT ![s] = <<u, p>>]
          /\ sent' = [sent EXCEPT ![s] = clock]
          /\ UNCHANGED <<judge, task, linked, created>>
    BY <1>1 DEF Submit, judgeVars
  <2>2. Made' = Made \union {s}
    BY <2>1, StatementsSound
  <2>3. ASSUME NEW r \in Subs
        PROVE  IF r \in Made'
               THEN entry'[r] \in Users \X Problems /\ sent'[r] # "none"
               ELSE entry'[r] = <<>> /\ sent'[r] = "none"
    <3>1. CASE r = s
      BY <2>1, <2>2, <3>1
    <3>2. CASE r # s
      BY <2>1, <2>2, <3>2 DEF Entries
    <3> QED
      BY <3>1, <3>2
  <2> QED
    BY <2>1, <2>3 DEF Entries
<1>2. CASE ~Submit
  <2>1. Made' = Made
    <3>1. CASE PopQueuedSubmission
      BY <1>0, <3>1, StatementsSound DEF PopQueuedSubmission, IsOldestQueued
    <3>2. CASE UpdateSubmissionResult
      <4>1. task \in Made
        BY <3>2 DEF UpdateSubmissionResult
      <4> QED
        BY <3>2, <4>1, StatementsSound DEF UpdateSubmissionResult
    <3>3. CASE AdminCancelEvaluation
      BY <3>3, StatementsSound DEF AdminCancelEvaluation
    <3>4. CASE AdminCancelScore
      BY <3>4, StatementsSound DEF AdminCancelScore
    <3>5. CASE AdminRestoreScore
      BY <3>5, StatementsSound DEF AdminRestoreScore
    <3>6. CASE Rejudge
      BY <3>6, StatementsSound DEF Rejudge, Of
    <3>7. CASE \/ ContestStarts \/ ContestEnds \/ CreateContest \/ CheckCancelled \/ UpdateFails
               \/ MarkSettled \/ ReadLeaderboard \/ SaveHistory \/ SettlementFails \/ Crash
               \/ UNCHANGED vars
      <4>1. UNCHANGED rows
        BY <3>7 DEF ContestStarts, ContestEnds, CreateContest, CheckCancelled, UpdateFails,
                    MarkSettled, ReadLeaderboard, SaveHistory, SettlementFails, Crash, vars
      <4> QED
        BY <4>1 DEF rows, Made
    <3> QED
      BY <1>2, <3>1, <3>2, <3>3, <3>4, <3>5, <3>6, <3>7 DEF Next
  <2>2. UNCHANGED <<entry, sent>>
    BY <1>2 DEF Next, vars, contestVars, ContestStarts, ContestEnds, CreateContest,
                PopQueuedSubmission, CheckCancelled, UpdateSubmissionResult, UpdateFails,
                MarkSettled, ReadLeaderboard, SaveHistory, SettlementFails, Edit,
                AdminCancelEvaluation, AdminCancelScore, AdminRestoreScore, Rejudge, Crash
  <2>3. linked' \subseteq Problems /\ created' \in BOOLEAN
    <3>1. CASE CreateContest
      BY <3>1, ContestsAssumption DEF CreateContest
    <3>2. CASE ~CreateContest
      <4>1. UNCHANGED <<linked, created>>
        BY <1>2, <3>2 DEF Next, vars, contestVars, ContestStarts, ContestEnds,
                PopQueuedSubmission, CheckCancelled, UpdateSubmissionResult, UpdateFails,
                MarkSettled, ReadLeaderboard, SaveHistory, SettlementFails, Edit,
                AdminCancelEvaluation, AdminCancelScore, AdminRestoreScore, Rejudge, Crash
      <4> QED
        BY <4>1
    <3> QED
      BY <3>1, <3>2
  <2>4. judge' = "idle" => task' = 0
    BY <1>2 DEF Next, vars, judgeVars, ContestStarts, ContestEnds, CreateContest, Judge,
                PopQueuedSubmission, CheckCancelled, UpdateSubmissionResult, UpdateFails,
                MarkSettled, ReadLeaderboard, SaveHistory, SettlementFails, Edit,
                AdminCancelEvaluation, AdminCancelScore, AdminRestoreScore, Rejudge, Crash
  <2> QED
    BY <2>1, <2>2, <2>3, <2>4 DEF Entries
<1> QED
  BY <1>1, <1>2

\* What is judged when a contest has ended stays judged until an administrator changes it.
LEMMA DecidedStep ==
    ASSUME Sound, [Next]_vars, clock = "ended", created, AllDecided, edits' = edits
    PROVE  clock' = "ended" /\ created' /\ AllDecided'
<1> USE DEF Sound
<1>0. \A s \in Subs : Counts(s) => Decided(s)
  BY DEF AllDecided, Counts
<1>a. ASSUME UNCHANGED <<linked, entry, sent>>,
             \A s \in Subs : Counts(s) =>
                /\ status'[s] = status[s] \/ status'[s] = "judged"
                /\ task' = task \/ task' # s
             , Made' = Made
      PROVE  AllDecided'
  <2> SUFFICES ASSUME NEW s \in Made', InWindow(s)', entry'[s][2] \in linked' PROVE Decided(s)'
    BY DEF AllDecided
  <2>1. s \in Subs /\ Counts(s)
    BY <1>a DEF Counts, InWindow, Made
  <2> QED
    BY <1>0, <1>a, <2>1 DEF Decided
<1>1. ~ContestStarts /\ ~ContestEnds /\ ~CreateContest
  BY DEF ContestStarts, ContestEnds, CreateContest
<1>2. CASE Submit
  <2>1. PICK s \in Subs, u \in Users, p \in Problems :
          /\ CreateSubmission(s)
          /\ entry' = [entry EXCEPT ![s] = <<u, p>>]
          /\ sent' = [sent EXCEPT ![s] = clock]
          /\ UNCHANGED <<clock, created, linked, task>>
    BY <1>2 DEF Submit, judgeVars
  <2>2. Made' = Made \union {s} /\ s \notin Made
    BY <2>1, StatementsSound DEF CreateSubmission, Made
  <2>3. ASSUME NEW r \in Made', InWindow(r)', entry'[r][2] \in linked' PROVE Decided(r)'
    <3>1. r # s
      BY <2>1, <2>3 DEF InWindow
    <3>2. r \in Subs /\ r \in Made
      BY <2>2, <3>1 DEF Made
    <3>3. Counts(r)
      BY <2>1, <2>3, <3>1, <3>2 DEF Counts, InWindow
    <3>4. status'[r] = status[r]
      BY <2>1, <3>1, <3>2 DEF CreateSubmission, StoreTypeOK
    <3> QED
      BY <1>0, <2>1, <3>2, <3>3, <3>4 DEF Decided
  <2> QED
    BY <2>1, <2>3 DEF AllDecided
<1>3. CASE PopQueuedSubmission
  <2>1. PICK s \in Subs : IsOldestQueued(s) /\ SetRunning(s) /\ task' = s
    BY <1>3 DEF PopQueuedSubmission, Judge
  <2>2. s \in Made /\ status[s] = "queued"
    BY <2>1 DEF IsOldestQueued, Queued, Made
  <2>3. Made' = Made
    BY <2>1, <2>2, StatementsSound
  <2>4. ~Counts(s)
    BY <1>0, <2>2 DEF Decided
  <2>5. \A r \in Subs : r # s => status'[r] = status[r]
    BY <2>1 DEF SetRunning, StoreTypeOK
  <2>6. UNCHANGED <<clock, created, linked, entry, sent>>
    BY <1>3 DEF PopQueuedSubmission, contestVars
  <2>7. \A r \in Subs : Counts(r) =>
                /\ status'[r] = status[r] \/ status'[r] = "judged"
                /\ task' = task \/ task' # r
    BY <2>1, <2>4, <2>5
  <2> QED
    BY <1>a, <2>3, <2>6, <2>7
<1>4. CASE UpdateSubmissionResult
  <2>1. PICK p \in Points : StoreResult(task, p)
    BY <1>4 DEF UpdateSubmissionResult
  <2>2. UNCHANGED <<clock, created, linked, entry, sent>> /\ task' = 0 /\ task \in Made
    BY <1>4 DEF UpdateSubmissionResult, contestVars, Judge
  <2>3. Made' = Made
    BY <2>1, <2>2, StatementsSound
  <2>4. \A r \in Subs : r # 0 /\ (status'[r] = status[r] \/ status'[r] = "judged")
    BY <2>1 DEF StoreResult, StoreTypeOK, Subs
  <2> QED
    BY <1>a, <2>2, <2>3, <2>4
<1>5. CASE \/ CheckCancelled \/ UpdateFails \/ MarkSettled \/ ReadLeaderboard \/ SaveHistory
           \/ SettlementFails \/ Crash \/ UNCHANGED vars
  <2>1. UNCHANGED <<rows, clock, created, linked, entry, sent>> /\ (task' = task \/ task' = 0)
    BY <1>5 DEF CheckCancelled, UpdateFails, MarkSettled, ReadLeaderboard, SaveHistory,
                SettlementFails, Crash, contestVars, judgeVars, Judge, vars
  <2>2. Made' = Made /\ \A r \in Subs : r # 0 /\ status'[r] = status[r]
    BY <2>1 DEF rows, Made, Subs
  <2> QED
    BY <1>a, <2>1, <2>2
<1>6. CASE AdminCancelEvaluation \/ AdminCancelScore \/ AdminRestoreScore \/ Rejudge
  <2>1. Edit
    BY <1>6 DEF AdminCancelEvaluation, AdminCancelScore, AdminRestoreScore, Rejudge
  <2> QED
    BY <2>1 DEF Edit
<1> QED
  BY <1>1, <1>2, <1>3, <1>4, <1>5, <1>6 DEF Next

\* What is saved depends on the leaderboard that was read alone.
LEMMA SavedKept == board' = board => Saved' = Saved
BY DEF Saved, Placed, Rankings, Sorted, Ahead

\* A step that leaves the settlement where it is, or ends it
LEMMA SettleQuiet ==
    ASSUME SettleInv, [Next]_vars, edits' = edits, UNCHANGED <<board, history, quiet>>,
           settlement' = settlement \/ (settlement # "due" /\ settlement' = "over")
    PROVE  Read' /\ Undisturbed'
<1>1. Read'
  BY SavedKept DEF SettleInv, Read, BoardOK
<1>2. CASE quiet /\ settlement # "due"
  <2>1. /\ clock = "ended" /\ created /\ AllDecided
        /\ settlement = "read" \/ history # {} => board = Leaderboard
    BY <1>2 DEF SettleInv, Undisturbed
  <2>2. clock' = "ended" /\ created' /\ AllDecided' /\ Leaderboard' = Leaderboard
    BY <2>1, DecidedStep, StandingStep DEF SettleInv
  <2> HIDE DEF SettleInv
  <2>3. settlement' = "read" \/ history' # {} => board' = Leaderboard'
    BY <2>1, <2>2
  <2> QED
    BY <1>1, <2>2, <2>3 DEF Undisturbed
<1>3. CASE ~(quiet /\ settlement # "due")
  BY <1>1, <1>3 DEF Undisturbed
<1> QED
  BY <1>2, <1>3

LEMMA SettleStep ==
    ASSUME SettleInv, [Next]_vars
    PROVE  Read' /\ Undisturbed'
<1>1. CASE \/ ContestStarts \/ ContestEnds \/ CreateContest \/ Submit \/ PopQueuedSubmission
           \/ CheckCancelled \/ UpdateSubmissionResult \/ UpdateFails \/ UNCHANGED vars
  <2>1. UNCHANGED <<settlement, board, history, quiet, edits>>
    BY <1>1 DEF ContestStarts, ContestEnds, CreateContest, Submit, PopQueuedSubmission,
                CheckCancelled, UpdateSubmissionResult, UpdateFails, settleVars, vars
  <2> QED
    BY <2>1, SettleQuiet
<1>2. CASE MarkSettled
  <2>1. /\ settlement = "due" /\ settlement' = "marked" /\ quiet' = AllDecided
        /\ created /\ clock = "ended"
        /\ UNCHANGED <<board, history, edits, clock, created>>
    BY <1>2 DEF MarkSettled, contestVars
  <2>2. history' = {} /\ Read'
    BY <2>1, SavedKept DEF SettleInv, Read, BoardOK
  <2>3. quiet' => AllDecided'
    BY <2>1, DecidedStep DEF SettleInv
  <2> QED
    BY <2>1, <2>2, <2>3 DEF Undisturbed
<1>3. CASE ReadLeaderboard
  <2>1. /\ settlement = "marked" /\ board' = Leaderboard
        /\ settlement' = IF Contestants = {} THEN "over" ELSE "read"
        /\ UNCHANGED <<history, quiet, edits>>
    BY <1>3 DEF ReadLeaderboard
  <2>2. history' = {}
    BY <2>1 DEF SettleInv, Read
  <2>3. Leaderboard \in [Contestants -> Nat] /\ Contestants \subseteq Users
    BY LeaderboardType DEF SettleInv
  <2>4. Leaderboard' = Leaderboard
    BY <1>3, RowsKept DEF ReadLeaderboard, contestVars
  <2>5. BoardOK' /\ (settlement' = "read" => DOMAIN board' # {})
    BY <2>1, <2>3 DEF BoardOK
  <2>6. Read'
    BY <2>1, <2>2, <2>5 DEF Read
  <2>7. quiet' => clock' = "ended" /\ created' /\ AllDecided'
    BY <2>1, DecidedStep DEF SettleInv, Undisturbed
  <2> QED
    BY <2>1, <2>4, <2>6, <2>7 DEF Undisturbed
<1>4. CASE SaveHistory
  <2>1. /\ settlement = "read" /\ history' = Saved /\ settlement' = "over"
        /\ UNCHANGED <<board, quiet, edits>>
    BY <1>4 DEF SaveHistory, Saved
  <2>2. Read'
    BY <2>1, SavedKept DEF SettleInv, Read, BoardOK
  <2>3. Leaderboard' = Leaderboard
    BY <1>4, RowsKept DEF SaveHistory, contestVars
  <2>4. quiet' => clock' = "ended" /\ created' /\ AllDecided'
    BY <2>1, DecidedStep DEF SettleInv, Undisturbed
  <2>5. quiet' => board' = Leaderboard'
    BY <2>1, <2>3 DEF SettleInv, Undisturbed
  <2> QED
    BY <2>2, <2>4, <2>5 DEF Undisturbed
<1>5. CASE SettlementFails \/ Crash
  <2>1. /\ UNCHANGED <<board, history, quiet, edits>>
        /\ settlement' = settlement \/ (settlement # "due" /\ settlement' = "over")
    BY <1>5 DEF SettlementFails, Crash
  <2> QED
    BY <2>1, SettleQuiet
<1>6. CASE AdminCancelEvaluation \/ AdminCancelScore \/ AdminRestoreScore \/ Rejudge
  <2>1. Edit
    BY <1>6 DEF AdminCancelEvaluation, AdminCancelScore, AdminRestoreScore, Rejudge
  <2>2. UNCHANGED <<settlement, board, history>> /\ (quiet' => settlement' = "due")
    BY <2>1 DEF Edit, settleVars
  <2>3. Read'
    BY <2>2, SavedKept DEF SettleInv, Read, BoardOK
  <2> QED
    BY <2>2, <2>3 DEF Undisturbed
<1> QED
  BY <1>1, <1>2, <1>3, <1>4, <1>5, <1>6 DEF Next

LEMMA SettleInvHolds == Spec => []SettleInv
<1>1. SettleInv /\ [Next]_vars => SettleInv'
  BY NextSound, EntriesStep, SettleStep DEF SettleInv
<1> QED
  BY <1>1, InitSettle, PTL DEF Spec

-----------------------------------------------------------------------------

\* The row of a contestant in the history
LEMMA HistoryRow ==
    ASSUME Read, NEW h \in history
    PROVE  /\ BoardOK
           /\ \E i \in DOMAIN Sorted :
                /\ h = [user |-> Sorted[i], rank |-> Rankings[i], total |-> board[Sorted[i]]]
                /\ Sorted[i] \in Members /\ Sorted[i] \in DOMAIN board
<1>1. h \in Saved /\ BoardOK
  BY DEF Read
<1>2. PICK i \in DOMAIN Sorted :
          h = [user |-> Sorted[i], rank |-> Rankings[i], total |-> board[Sorted[i]]]
  BY <1>1 DEF Saved, Placed
<1>3. Sorted[i] \in DOMAIN board
  BY <1>1, SortedLists DEF Lists
<1> QED
  BY <1>1, <1>2, <1>3 DEF Saved

(***************************************************************************)
(* A contest and its settlement have the shape their statements give them; *)
(* ranks are those of the contestants and totals are natural numbers.      *)
(***************************************************************************)
THEOREM TypeCorrect == Spec => []TypeOK
<1>1. ASSUME SettleInv PROVE TypeOK
  <2>1. Sound /\ Entries /\ Read
    BY <1>1 DEF SettleInv
  <2>2. ASSUME NEW h \in history PROVE h \in [user : Members, rank : 1..NumUsers, total : Nat]
    <3>1. PICK i \in DOMAIN Sorted :
            /\ h = [user |-> Sorted[i], rank |-> Rankings[i], total |-> board[Sorted[i]]]
            /\ Sorted[i] \in Members /\ Sorted[i] \in DOMAIN board
      BY <2>1, HistoryRow
    <3>2. BoardOK
      BY <2>1 DEF Read
    <3>3. Rankings[i] \in 1..NumUsers
      BY <3>2, RankIsFair
    <3>4. board[Sorted[i]] \in Nat
      BY <3>1, <3>2, BoardFinite
    <3> QED
      BY <3>1, <3>3, <3>4
  <2>3. history \subseteq [user : Members, rank : 1..NumUsers, total : Nat]
    BY <2>2
  <2>4. DOMAIN board \subseteq Users /\ (settlement = "read" => DOMAIN board # {})
    BY <2>1 DEF Read, BoardOK
  <2>5. settlement \in {"due", "marked", "read", "over"}
    BY <2>1 DEF Read
  <2>6. IF judge = "idle" THEN task = 0 ELSE judge \in {"judging", "checked"} /\ task \in Made
    BY <1>1 DEF SettleInv, Sound
  <2> QED
    BY <1>1, <2>1, <2>3, <2>4, <2>5, <2>6 DEF TypeOK, Sound, Entries, SettleInv
<1> QED
  BY <1>1, SettleInvHolds, PTL

(***************************************************************************)
(* Ranks are shared by equal totals and leave the gaps, for any number of  *)
(* contestants: one more than those with a greater total, whether these    *)
(* have an account or not (CalculateContestRating).                        *)
(***************************************************************************)
THEOREM RanksFairAlways == Spec => []RanksFair
<1>1. ASSUME SettleInv PROVE RanksFair
  <2> SUFFICES ASSUME NEW h \in history
               PROVE  h.rank = 1 + Cardinality({u \in DOMAIN board : board[u] > h.total})
    BY DEF RanksFair
  <2>1. Read /\ BoardOK
    BY <1>1 DEF SettleInv, Read
  <2>2. PICK i \in DOMAIN Sorted :
            h = [user |-> Sorted[i], rank |-> Rankings[i], total |-> board[Sorted[i]]]
    BY <2>1, HistoryRow
  <2>3. Rankings[i] = 1 + Cardinality(Above(Sorted[i]))
    BY <2>1, RankIsFair
  <2>4. h.rank = Rankings[i] /\ h.total = board[Sorted[i]]
    BY <2>2
  <2> QED
    BY <2>3, <2>4 DEF Above
<1> QED
  BY <1>1, SettleInvHolds, PTL

(***************************************************************************)
(* A settlement that begins when everything is judged records what the     *)
(* leaderboard still shows, for every contestant with an account, unless   *)
(* an administrator has changed a submission (CalculateContestRating).     *)
(***************************************************************************)
THEOREM SettledAsShownAlways == Spec => []SettledAsShown
<1>1. ASSUME SettleInv PROVE SettledAsShown
  <2> SUFFICES ASSUME quiet, history # {}
               PROVE  {<<h.user, h.total>> : h \in history}
                        = {<<u, Leaderboard[u]>> : u \in Contestants \intersect Members}
    BY DEF SettledAsShown
  <2>1. Read /\ BoardOK /\ history = Saved /\ settlement = "over"
    BY <1>1 DEF SettleInv, Read
  <2>2. board = Leaderboard /\ DOMAIN board = Contestants
    BY <1>1, <2>1 DEF SettleInv, Undisturbed, Leaderboard
  <2>3. ASSUME NEW h \in history
        PROVE  h.user \in Contestants \intersect Members /\ h.total = Leaderboard[h.user]
    BY <2>1, <2>2, HistoryRow
  <2>4. ASSUME NEW u \in Contestants \intersect Members
        PROVE  \E h \in history : h.user = u /\ h.total = Leaderboard[u]
    <3>1. PICK i \in DOMAIN Sorted : Sorted[i] = u
      BY <2>1, <2>2, SortedLists
    <3> DEFINE h == [user |-> Sorted[i], rank |-> Rankings[i], total |-> board[Sorted[i]]]
    <3>2. h \in Placed /\ h.user = u /\ h.total = Leaderboard[u]
      BY <2>2, <3>1 DEF Placed
    <3>3. h \in history
      BY <2>1, <3>2 DEF Saved
    <3> QED
      BY <3>2, <3>3
  <2> QED
    BY <2>3, <2>4
<1> QED
  BY <1>1, SettleInvHolds, PTL
=============================================================================
