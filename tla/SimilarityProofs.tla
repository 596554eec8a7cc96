--------------------------- MODULE SimilarityProofs ---------------------------
(***************************************************************************)
(* Checks of one problem that do not overlap leave what the last of them   *)
(* has found, for any number of submissions, problems and checkers.        *)
(***************************************************************************)
EXTENDS SimilarityCheck, TLAPS

Stages == {"idle", "compared", "deleted"}

CheckTypeOK ==
    /\ problemOf \in [Codes -> CodeProblems \union {NoProblem}]
    /\ records \in [Pairs -> Nat]
    /\ check \in [Checkers -> Stages]
    /\ about \in [Checkers -> CodeProblems \union {NoProblem}]
    /\ found \in [Checkers -> SUBSET Pairs]
    /\ checks \in 0..MaxChecks
    /\ breaks \in 0..MaxBreaks
    /\ answer \in [CodeProblems -> SUBSET Pairs]
    /\ mixed \subseteq CodeProblems

\* A checker at work has a problem, and finds pairs of it only.
Occupied ==
    \A c \in Checkers : check[c] # "idle" =>
        about[c] \in CodeProblems /\ found[c] \subseteq PairsOf(about[c])

\* Nothing is recorded of a submission that is still to be made.
OfMade ==
    \A q \in Pairs :
        problemOf[q[1]] = NoProblem \/ problemOf[q[2]] = NoProblem =>
            records[q] = 0 /\ \A p \in CodeProblems : q \notin answer[p]

\* Where checks do not overlap one is at work at most,
Alone ==
    \A p \in CodeProblems \ mixed : \A c, d \in AtWork(p) : c = d

\* and when it has deleted the records there are none.
Cleared ==
    \A c \in Checkers :
        check[c] = "deleted" /\ about[c] \notin mixed => answer[about[c]] = {}

CheckInv ==
    CheckTypeOK /\ Occupied /\ OfMade /\ Alone /\ Cleared /\ SimilarityAsChecked

-----------------------------------------------------------------------------
(* The pairs of a problem                                                  *)

LEMMA PairParts ==
    ASSUME NEW q \in Pairs
    PROVE  q[1] \in Codes /\ q[2] \in Codes
BY DEF Pairs

LEMMA OneProblem ==
    ASSUME NEW q, NEW p, NEW r, q \in PairsOf(p), q \in PairsOf(r)
    PROVE  p = r
BY DEF PairsOf

LEMMA RealProblem == CodeProblems \subseteq Nat /\ NoProblem \notin CodeProblems
BY SimilarityAssumption

LEMMA InitCheckInv == CheckInit => CheckInv
<1> SUFFICES ASSUME CheckInit PROVE CheckInv
  OBVIOUS
<1> USE DEF CheckInit
<1>1. CheckTypeOK
  BY SimilarityAssumption DEF CheckTypeOK, Stages
<1>2. Occupied /\ Cleared /\ Alone
  BY DEF Occupied, Cleared, Alone, AtWork
<1>3. OfMade
  BY DEF OfMade
<1>4. SimilarityAsChecked
  BY DEF SimilarityAsChecked, PairsOf
<1> QED
  BY <1>1, <1>2, <1>3, <1>4 DEF CheckInv

-----------------------------------------------------------------------------
(* The steps                                                               *)

\* A new submission makes new pairs, of which nothing is recorded yet.
LEMMA SubmitCodeInv == CheckInv /\ SubmitCode => CheckInv'
<1> SUFFICES ASSUME CheckInv, SubmitCode PROVE CheckInv'
  OBVIOUS
<1> USE DEF CheckInv
<1>1. PICK s \in Codes, p \in CodeProblems :
        /\ problemOf[s] = NoProblem
        /\ problemOf' = [problemOf EXCEPT ![s] = p]
        /\ UNCHANGED <<records, check, about, found, checks, breaks, answer, mixed>>
  BY DEF SubmitCode
<1>2. CheckTypeOK'
  BY <1>1 DEF CheckTypeOK
<1>3. \A c \in Codes : problemOf[c] # NoProblem => problemOf'[c] = problemOf[c]
  BY <1>1 DEF CheckTypeOK
<1>4. ASSUME NEW r \in CodeProblems PROVE PairsOf(r) \subseteq PairsOf(r)'
  <2> SUFFICES ASSUME NEW q \in PairsOf(r) PROVE q \in PairsOf(r)'
    OBVIOUS
  <2>1. q \in Pairs /\ problemOf[q[1]] = r /\ problemOf[q[2]] = r
    BY DEF PairsOf
  <2>2. problemOf'[q[1]] = r /\ problemOf'[q[2]] = r
    BY <2>1, <1>3, PairParts, RealProblem
  <2> QED
    BY <2>1, <2>2 DEF PairsOf
<1>5. Occupied'
  BY <1>1, <1>4 DEF Occupied
<1>6. OfMade'
  <2> SUFFICES ASSUME NEW q \in Pairs,
                      problemOf'[q[1]] = NoProblem \/ problemOf'[q[2]] = NoProblem
               PROVE  records'[q] = 0 /\ \A r \in CodeProblems : q \notin answer'[r]
    BY DEF OfMade
  <2>1. problemOf[q[1]] = NoProblem \/ problemOf[q[2]] = NoProblem
    BY <1>3, PairParts
  <2> QED
    BY <1>1, <2>1 DEF OfMade
<1>7. Alone'
  BY <1>1 DEF Alone, AtWork
<1>8. Cleared'
  BY <1>1 DEF Cleared
<1>9. SimilarityAsChecked'
  <2> SUFFICES ASSUME NEW r \in CodeProblems \ mixed, NEW q \in PairsOf(r)'
               PROVE  records[q] = IF q \in answer[r] THEN 1 ELSE 0
    BY <1>1 DEF SimilarityAsChecked
  <2>1. q \in Pairs
    BY DEF PairsOf
  <2>2. CASE problemOf[q[1]] = NoProblem \/ problemOf[q[2]] = NoProblem
    BY <2>1, <2>2 DEF OfMade
  <2>3. CASE problemOf[q[1]] # NoProblem /\ problemOf[q[2]] # NoProblem
    <3>1. q \in PairsOf(r)
      BY <2>1, <2>3, <1>3, PairParts DEF PairsOf
    <3> QED
      BY <3>1 DEF SimilarityAsChecked
  <2> QED
    BY <2>2, <2>3
<1> QED
  BY <1>2, <1>5, <1>6, <1>7, <1>8, <1>9

\* A check that joins another of its problem is noted.
LEMMA StartCheckInv ==
    ASSUME NEW c \in Checkers
    PROVE  CheckInv /\ StartCheck(c) => CheckInv'
<1> SUFFICES ASSUME CheckInv, StartCheck(c) PROVE CheckInv'
  OBVIOUS
<1> USE DEF CheckInv
<1>1. PICK p \in CodeProblems, bar \in Thresholds :
        /\ Go(c, "compared", p, Similar(p, bar))
        /\ mixed' = IF AtWork(p) = {} THEN mixed ELSE mixed \union {p}
  BY DEF StartCheck
<1>2. /\ check[c] = "idle" /\ checks < MaxChecks /\ checks' = checks + 1
      /\ UNCHANGED <<problemOf, records, breaks, answer>>
  BY DEF StartCheck
<1>3. Similar(p, bar) \subseteq PairsOf(p) /\ PairsOf(p) \subseteq Pairs
  BY DEF Similar, PairsOf
<1>4. CheckTypeOK'
  BY <1>1, <1>2, <1>3, SimilarityAssumption DEF CheckTypeOK, Go, Stages
<1>5. \A r : PairsOf(r)' = PairsOf(r)
  BY <1>2 DEF PairsOf
<1>6. Occupied'
  BY <1>1, <1>3, <1>5 DEF Occupied, Go, CheckTypeOK
<1>7. OfMade'
  BY <1>2 DEF OfMade
<1>8. mixed \subseteq mixed'
  BY <1>1
<1>9. Alone'
  <2> SUFFICES ASSUME NEW r \in CodeProblems \ mixed', NEW d \in AtWork(r)', NEW e \in AtWork(r)'
               PROVE  d = e
    BY DEF Alone
  <2>1. CASE r = p
    <3>1. AtWork(p) = {}
      BY <1>1, <2>1
    <3>2. \A o \in AtWork(p)' : o = c
      BY <1>1, <3>1 DEF AtWork, Go, CheckTypeOK
    <3> QED
      BY <2>1, <3>2
  <2>2. CASE r # p
    <3>1. d \in AtWork(r) /\ e \in AtWork(r)
      BY <1>1, <2>2 DEF AtWork, Go, CheckTypeOK
    <3> QED
      BY <3>1, <1>8 DEF Alone
  <2> QED
    BY <2>1, <2>2
<1>10. Cleared'
  BY <1>1, <1>2, <1>8 DEF Cleared, Go, CheckTypeOK
<1>11. SimilarityAsChecked'
  BY <1>2, <1>5, <1>8 DEF SimilarityAsChecked
<1> QED
  BY <1>4, <1>6, <1>7, <1>9, <1>10, <1>11

\* What one checker does to its place leaves the others as they are.
LEMMA GoOn ==
    ASSUME CheckTypeOK, NEW c \in Checkers, NEW place \in Stages,
           NEW p \in CodeProblems \union {NoProblem}, NEW F \in SUBSET Pairs,
           Go(c, place, p, F)
    PROVE  /\ check' \in [Checkers -> Stages]
           /\ about' \in [Checkers -> CodeProblems \union {NoProblem}]
           /\ found' \in [Checkers -> SUBSET Pairs]
           /\ check'[c] = place /\ about'[c] = p /\ found'[c] = F
           /\ \A d \in Checkers \ {c} :
                check'[d] = check[d] /\ about'[d] = about[d] /\ found'[d] = found[d]
BY DEF CheckTypeOK, Go

\* A check alone clears its problem for good.
LEMMA DeleteRecordsInv ==
    ASSUME NEW c \in Checkers
    PROVE  CheckInv /\ DeleteRecords(c) => CheckInv'
<1> SUFFICES ASSUME CheckInv, DeleteRecords(c) PROVE CheckInv'
  OBVIOUS
<1> USE DEF CheckInv
<1> DEFINE p == about[c]
<1>1. /\ check[c] = "compared"
      /\ records' = [q \in Pairs |-> IF q \in PairsOf(p) THEN 0 ELSE records[q]]
      /\ answer' = [answer EXCEPT ![p] = {}]
      /\ mixed' = IF AtWork(p) = {c} THEN mixed \ {p} ELSE mixed
      /\ UNCHANGED <<problemOf, checks, breaks>>
  BY DEF DeleteRecords, DeleteByProblem
<1>2. p \in CodeProblems /\ found[c] \subseteq PairsOf(p) /\ c \in AtWork(p)
  BY <1>1 DEF Occupied, AtWork
<1>3. \/ Go(c, "idle", NoProblem, {})
      \/ Go(c, "deleted", p, found[c])
  BY DEF DeleteRecords
<1>4. /\ check' \in [Checkers -> Stages]
      /\ about' \in [Checkers -> CodeProblems \union {NoProblem}]
      /\ found' \in [Checkers -> SUBSET Pairs]
      /\ \/ check'[c] = "idle"
         \/ check'[c] = "deleted" /\ about'[c] = p /\ found'[c] = found[c]
      /\ \A d \in Checkers \ {c} :
           check'[d] = check[d] /\ about'[d] = about[d] /\ found'[d] = found[d]
  <2>1. CASE Go(c, "idle", NoProblem, {})
    BY <2>1, GoOn DEF Stages
  <2>2. CASE Go(c, "deleted", p, found[c])
    <3>1. found[c] \in SUBSET Pairs /\ "deleted" \in Stages
      BY DEF CheckTypeOK, Stages
    <3> QED
      BY <2>2, <3>1, <1>2, GoOn
  <2> QED
    BY <1>3, <2>1, <2>2
<1>5. CheckTypeOK'
  BY <1>1, <1>2, <1>4 DEF CheckTypeOK
<1>6. \A r : PairsOf(r)' = PairsOf(r)
  BY <1>1 DEF PairsOf
<1>7. Occupied'
  <2> SUFFICES ASSUME NEW d \in Checkers, check'[d] # "idle"
               PROVE  about'[d] \in CodeProblems /\ found'[d] \subseteq PairsOf(about'[d])
    BY <1>6 DEF Occupied
  <2> QED
    BY <1>2, <1>4 DEF Occupied
<1>8. OfMade'
  BY <1>1, <1>2 DEF OfMade, CheckTypeOK
<1>9. \A r \in CodeProblems : AtWork(r)' \subseteq AtWork(r)
  BY <1>1, <1>4 DEF AtWork
<1>10. ASSUME p \notin mixed' PROVE AtWork(p) = {c}
  BY <1>1, <1>2, <1>10 DEF Alone
<1>11. Alone'
  <2> SUFFICES ASSUME NEW r \in CodeProblems \ mixed', NEW d \in AtWork(r)', NEW e \in AtWork(r)'
               PROVE  d = e
    BY DEF Alone
  <2>1. d \in AtWork(r) /\ e \in AtWork(r)
    BY <1>9
  <2>2. CASE r = p
    BY <2>1, <2>2, <1>10
  <2>3. CASE r # p
    BY <2>1, <2>3, <1>1 DEF Alone
  <2> QED
    BY <2>2, <2>3
<1>12. Cleared'
  <2> SUFFICES ASSUME NEW d \in Checkers, check'[d] = "deleted", about'[d] \notin mixed'
               PROVE  answer'[about'[d]] = {}
    BY DEF Cleared
  <2>1. about'[d] \in CodeProblems
    BY <1>7 DEF Occupied
  <2>2. CASE about'[d] = p
    BY <2>2, <1>1, <1>2 DEF CheckTypeOK
  <2>3. CASE about'[d] # p
    <3>1. d # c /\ check[d] = "deleted" /\ about[d] = about'[d] /\ about[d] \notin mixed
      BY <2>3, <1>1, <1>4
    <3> QED
      BY <3>1, <2>1, <2>3, <1>1 DEF Cleared, CheckTypeOK
  <2> QED
    BY <2>2, <2>3
<1>13. SimilarityAsChecked'
  <2> SUFFICES ASSUME NEW r \in CodeProblems \ mixed', NEW q \in PairsOf(r)
               PROVE  records'[q] = IF q \in answer'[r] THEN 1 ELSE 0
    BY <1>6 DEF SimilarityAsChecked
  <2>1. q \in Pairs
    BY DEF PairsOf
  <2>2. CASE r = p
    BY <2>1, <2>2, <1>1, <1>2 DEF CheckTypeOK
  <2>3. CASE r # p
    <3>1. q \notin PairsOf(p)
      BY <2>3, OneProblem
    <3>2. r \notin mixed /\ answer'[r] = answer[r]
      BY <2>3, <1>1 DEF CheckTypeOK
    <3> QED
      BY <2>1, <3>1, <3>2, <1>1 DEF SimilarityAsChecked
  <2> QED
    BY <2>2, <2>3
<1> QED
  BY <1>5, <1>7, <1>8, <1>11, <1>12, <1>13

\* What a check alone has found is saved where nothing is.
LEMMA SaveRecordsInv ==
    ASSUME NEW c \in Checkers
    PROVE  CheckInv /\ SaveRecords(c) => CheckInv'
<1> SUFFICES ASSUME CheckInv, SaveRecords(c) PROVE CheckInv'
  OBVIOUS
<1> USE DEF CheckInv
<1> DEFINE p == about[c]
<1>1. /\ check[c] = "deleted"
      /\ records' = [q \in Pairs |-> records[q] + (IF q \in found[c] THEN 1 ELSE 0)]
      /\ answer' = [answer EXCEPT ![p] = found[c]]
      /\ Go(c, "idle", NoProblem, {})
      /\ UNCHANGED <<problemOf, checks, breaks, mixed>>
  BY DEF SaveRecords
<1>2. p \in CodeProblems /\ found[c] \subseteq PairsOf(p) /\ c \in AtWork(p)
  BY <1>1 DEF Occupied, AtWork
<1>3. /\ check' \in [Checkers -> Stages]
      /\ about' \in [Checkers -> CodeProblems \union {NoProblem}]
      /\ found' \in [Checkers -> SUBSET Pairs]
      /\ check'[c] = "idle"
      /\ \A d \in Checkers \ {c} :
           check'[d] = check[d] /\ about'[d] = about[d] /\ found'[d] = found[d]
  BY <1>1, GoOn DEF Stages
<1>4. \A q \in Pairs : records[q] \in Nat /\ records'[q] = records[q] + (IF q \in found[c] THEN 1 ELSE 0)
  BY <1>1 DEF CheckTypeOK
<1>5. CheckTypeOK'
  <2>1. records' \in [Pairs -> Nat]
    BY <1>1, <1>4
  <2>2. answer' \in [CodeProblems -> SUBSET Pairs]
    BY <1>1 DEF CheckTypeOK
  <2> QED
    BY <2>1, <2>2, <1>1, <1>3 DEF CheckTypeOK
<1>6. \A r : PairsOf(r)' = PairsOf(r)
  BY <1>1 DEF PairsOf
<1>7. Occupied'
  BY <1>3, <1>6 DEF Occupied
<1>8. OfMade'
  <2> SUFFICES ASSUME NEW q \in Pairs,
                      problemOf[q[1]] = NoProblem \/ problemOf[q[2]] = NoProblem
               PROVE  records'[q] = 0 /\ \A r \in CodeProblems : q \notin answer'[r]
    BY <1>1 DEF OfMade
  <2>1. q \notin found[c]
    BY <1>2, RealProblem DEF PairsOf
  <2>2. records'[q] = 0
    BY <2>1, <1>4 DEF OfMade
  <2>3. \A r \in CodeProblems : q \notin answer'[r]
    BY <2>1, <1>1 DEF OfMade, CheckTypeOK
  <2> QED
    BY <2>2, <2>3
<1>9. \A r \in CodeProblems : AtWork(r)' \subseteq AtWork(r) \ {c}
  BY <1>3 DEF AtWork
<1>10. Alone'
  BY <1>1, <1>9 DEF Alone
<1>11. Cleared'
  <2> SUFFICES ASSUME NEW d \in Checkers, check'[d] = "deleted", about'[d] \notin mixed
               PROVE  answer'[about'[d]] = {}
    BY <1>1 DEF Cleared
  <2>1. d # c /\ check[d] = "deleted" /\ about[d] = about'[d] /\ about[d] \in CodeProblems
    BY <1>3 DEF Occupied
  <2>2. about[d] # p
    BY <2>1, <1>2 DEF Alone, AtWork
  <2> QED
    BY <2>1, <2>2, <1>1 DEF Cleared, CheckTypeOK
<1>12. SimilarityAsChecked'
  <2> SUFFICES ASSUME NEW r \in CodeProblems \ mixed, NEW q \in PairsOf(r)
               PROVE  records'[q] = IF q \in answer'[r] THEN 1 ELSE 0
    BY <1>1, <1>6 DEF SimilarityAsChecked
  <2>1. q \in Pairs
    BY DEF PairsOf
  <2>2. CASE r = p
    <3>1. answer[p] = {}
      BY <2>2, <1>1 DEF Cleared
    <3>2. records[q] = 0
      BY <2>2, <3>1 DEF SimilarityAsChecked
    <3>3. answer'[r] = found[c]
      BY <2>2, <1>1, <1>2 DEF CheckTypeOK
    <3> QED
      BY <2>1, <3>2, <3>3, <1>4
  <2>3. CASE r # p
    <3>1. q \notin found[c]
      BY <2>3, <1>2, OneProblem
    <3>2. answer'[r] = answer[r]
      BY <2>3, <1>1 DEF CheckTypeOK
    <3>3. records[q] = IF q \in answer[r] THEN 1 ELSE 0
      BY DEF SimilarityAsChecked
    <3> QED
      BY <2>1, <3>1, <3>2, <3>3, <1>4
  <2> QED
    BY <2>2, <2>3
<1> QED
  BY <1>5, <1>7, <1>8, <1>10, <1>11, <1>12

LEMMA CheckFailsInv ==
    ASSUME NEW c \in Checkers
    PROVE  CheckInv /\ CheckFails(c) => CheckInv'
<1> SUFFICES ASSUME CheckInv, CheckFails(c) PROVE CheckInv'
  OBVIOUS
<1> USE DEF CheckInv
<1>1. PICK F \in {{c}, Checkers} :
        /\ check' = [d \in Checkers |-> IF d \in F THEN "idle" ELSE check[d]]
        /\ about' = [d \in Checkers |-> IF d \in F THEN NoProblem ELSE about[d]]
        /\ found' = [d \in Checkers |-> IF d \in F THEN {} ELSE found[d]]
  BY DEF CheckFails
<1>2. /\ breaks < MaxBreaks /\ breaks' = breaks + 1
      /\ UNCHANGED <<problemOf, records, checks, answer, mixed>>
  BY DEF CheckFails
<1>3. CheckTypeOK'
  BY <1>1, <1>2, SimilarityAssumption DEF CheckTypeOK, Stages
<1>4. \A d \in Checkers : check'[d] # "idle" =>
        check'[d] = check[d] /\ about'[d] = about[d] /\ found'[d] = found[d]
  BY <1>1
<1>5. \A r : PairsOf(r)' = PairsOf(r)
  BY <1>2 DEF PairsOf
<1>6. Occupied'
  BY <1>4, <1>5 DEF Occupied
<1>7. OfMade'
  BY <1>2 DEF OfMade
<1>8. \A r : AtWork(r)' \subseteq AtWork(r)
  BY <1>4 DEF AtWork
<1>9. Alone'
  BY <1>2, <1>8 DEF Alone
<1>10. Cleared'
  BY <1>2, <1>4 DEF Cleared
<1>11. SimilarityAsChecked'
  BY <1>2, <1>5 DEF SimilarityAsChecked
<1> QED
  BY <1>3, <1>6, <1>7, <1>9, <1>10, <1>11

LEMMA StutterCheckInv == CheckInv /\ UNCHANGED checkVars => CheckInv'
BY DEF CheckInv, checkVars, CheckTypeOK, Occupied, OfMade, Alone, Cleared,
       SimilarityAsChecked, AtWork, PairsOf

LEMMA NextCheckInv == CheckInv /\ [CheckNext]_checkVars => CheckInv'
<1> SUFFICES ASSUME CheckInv, [CheckNext]_checkVars PROVE CheckInv'
  OBVIOUS
<1>1. CASE SubmitCode
  BY <1>1, SubmitCodeInv
<1>2. ASSUME NEW c \in Checkers,
             StartCheck(c) \/ DeleteRecords(c) \/ SaveRecords(c) \/ CheckFails(c)
      PROVE  CheckInv'
  BY <1>2, StartCheckInv, DeleteRecordsInv, SaveRecordsInv, CheckFailsInv
<1>3. CASE UNCHANGED checkVars
  BY <1>3, StutterCheckInv
<1> QED
  BY <1>1, <1>2, <1>3 DEF CheckNext

-----------------------------------------------------------------------------

(***************************************************************************)
(* The records of a problem are those its last check has found, once each, *)
(* unless checks of it overlapped (CheckProblem).                          *)
(***************************************************************************)
THEOREM SimilarityAsCheckedAlways == CheckSpec => []SimilarityAsChecked
<1>1. CheckInv => SimilarityAsChecked
  BY DEF CheckInv
<1> QED
  BY <1>1, InitCheckInv, NextCheckInv, PTL DEF CheckSpec
=============================================================================
