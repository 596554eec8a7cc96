----------------------------- MODULE DataZipProofs -----------------------------
(***************************************************************************)
(* Whatever an archive has in it, and in whatever order: what config.json  *)
(* lists of it is there, a regular archive is imported as it is meant, and *)
(* points make 100.  For every set of archives.                            *)
(***************************************************************************)
EXTENDS DataZipProps, SequenceTheorems, FiniteSetTheorems, TLAPS

\* A group that had its turn has a place among the groups, or its test was refused.
Underway == stage # "refused" /\ group # NoGroup => groups # <<>>

\* Every test is in some group,
Listed == \A t \in tests : \E i \in DOMAIN groups : t.n \in groups[i]

\* every number of a group is that of a test that had its turn,
Filed ==
    \A i \in DOMAIN groups : \A n \in groups[i] :
        /\ n \in 1..idx
        /\ \E t \in tests : t.n = n /\ (by = "import" => t.ans)

\* and in one group only.
Apart ==
    \A i, j \in DOMAIN groups : \A n \in groups[i] \intersect groups[j] : i = j

\* config.json is written from the groups, and the row from the turns.
Written ==
    /\ stage \in {"saving", "done"} =>
        /\ DOMAIN config = DOMAIN groups
        /\ \A i \in DOMAIN groups : config[i].cases = groups[i]
    /\ stage = "done" => count = idx

ZipInv == TypeOK /\ Underway /\ Listed /\ Filed /\ Apart /\ Written

-----------------------------------------------------------------------------
(* The operators                                                           *)

LEMMA ArchiveFiles ==
    ASSUME archive \in Archives, NEW f \in archive
    PROVE  f \in File
BY ZipAssumption

LEMMA FreshType ==
    ASSUME NEW f \in File
    PROVE  [Fresh(f.stem) EXCEPT ![f.ext] = f.full] \in TestFile
BY DEF Fresh, TestFile, File

LEMMA PutType ==
    ASSUME NEW S \in SUBSET TestFile, NEW f \in File
    PROVE  Put(S, f) \subseteq TestFile
<1>1. ASSUME NEW tf \in S PROVE [tf EXCEPT ![f.ext] = f.full] \in TestFile
  BY DEF TestFile, File
<1> QED
  BY <1>1, FreshType DEF Put

LEMMA CollectType ==
    ASSUME NEW S \in SUBSET TestFile, NEW f \in File
    PROVE  Collect(S, f) \subseteq TestFile
<1>1. [Fresh(f.stem) EXCEPT !.in = f.full] \in TestFile
  BY DEF Fresh, TestFile, File
<1> QED
  BY <1>1, PutType DEF Collect, AddInput

LEMMA GroupOfType ==
    ASSUME NEW s \in Stem
    PROVE  GroupOf(s) \in Stem /\ GroupOf(s) # NoGroup
<1>1. [s EXCEPT !.kind = "letter"] \in Stem /\ [s EXCEPT !.sub = 0] \in Stem
  BY DEF Stem
<1>2. GroupOf(s) \in Stem
  BY <1>1 DEF GroupOf
<1>3. NoGroup \notin Stem
  BY DEF NoGroup, Stem
<1> QED
  BY <1>2, <1>3

\* The points of a group are a number.
LEMMA ScoreType ==
    ASSUME NEW n \in Nat \ {0}, NEW i \in Nat
    PROVE  calcScore(100, n, i) \in Nat
<1>1. 100 \div n \in Nat
  BY SMT
<1> QED
  BY <1>1 DEF calcScore

\* The groups with that of tf: an empty one is new, if any is.
LEMMA OpenedGroups ==
    ASSUME TypeOK, Underway, stage = "writing", NEW tf \in TestFile
    PROVE  /\ Opened(tf) \in Seq(SUBSET Nat)
           /\ Len(Opened(tf)) \in Nat \ {0}
           /\ DOMAIN Opened(tf) = 1..Len(Opened(tf))
           /\ \/ Opened(tf) = groups
              \/ /\ DOMAIN Opened(tf) = DOMAIN groups \union {Len(groups) + 1}
                 /\ \A i \in DOMAIN groups : Opened(tf)[i] = groups[i]
                 /\ Opened(tf)[Len(groups) + 1] = {}
                 /\ Len(Opened(tf)) = Len(groups) + 1
<1>1. tf.stem \in Stem /\ groups \in Seq(SUBSET Nat)
  BY DEF TestFile, TypeOK
<1>2. CASE GroupOf(tf.stem) = group
  <2>1. groups # <<>>
    BY <1>1, <1>2, GroupOfType DEF Underway
  <2> QED
    BY <1>1, <1>2, <2>1 DEF Opened
<1>3. CASE GroupOf(tf.stem) # group
  BY <1>1, <1>3 DEF Opened
<1> QED
  BY <1>2, <1>3

-----------------------------------------------------------------------------
(* The steps                                                               *)

LEMMA InitZipInv == Init => ZipInv
<1> SUFFICES ASSUME Init PROVE ZipInv
  OBVIOUS
<1>1. /\ archive \in Archives /\ unread \subseteq archive
      /\ by \in {"import", "create"}
  BY DEF Init
<1>2. group \in Stem \union {NoGroup} /\ left \subseteq TestFile
  BY DEF Init
<1>3. groups \in Seq(SUBSET Nat) /\ config \in Seq([cases : SUBSET Nat, score : Nat])
  BY DEF Init
<1>4. TypeOK
  BY <1>1, <1>2, <1>3 DEF Init, TypeOK
<1> QED
  BY <1>4 DEF Init, ZipInv, Underway, Listed, Filed, Apart, Written

\* Reading changes the collections only.
LEMMA ReadingInv ==
    ASSUME NEW f \in unread
    PROVE  ZipInv /\ (ReadFile(f) \/ ReadPair(f)) => ZipInv'
<1> SUFFICES ASSUME ZipInv, ReadFile(f) \/ ReadPair(f) PROVE ZipInv'
  OBVIOUS
<1>1. f \in File
  BY ArchiveFiles DEF ZipInv, TypeOK
<1>2. TypeOK'
  <2>1. unread' \subseteq archive'
    BY DEF ZipInv, TypeOK, ReadFile, ReadPair, upload
  <2>2. /\ splitGroups' \subseteq TestFile
        /\ letterGroups' \subseteq TestFile
        /\ firstPassMap' \subseteq TestFile
    BY <1>1, PutType, CollectType DEF ZipInv, TypeOK, ReadFile, ReadPair
  <2>3. inverted' \in BOOLEAN
    BY DEF ZipInv, TypeOK, ReadFile, ReadPair
  <2> QED
    BY <2>1, <2>2, <2>3 DEF ZipInv, TypeOK, ReadFile, ReadPair, upload
<1>3. UNCHANGED <<by, stage, group, idx, groups, tests, config, count>>
  BY DEF ReadFile, ReadPair, upload
<1>4. Underway' /\ Listed' /\ Filed' /\ Apart' /\ Written'
  BY <1>3 DEF ZipInv, Underway, Listed, Filed, Apart, Written
<1> QED
  BY <1>2, <1>4 DEF ZipInv

LEMMA ChoosePatternInv == ZipInv /\ ChoosePattern => ZipInv'
<1> SUFFICES ASSUME ZipInv, ChoosePattern PROVE ZipInv'
  OBVIOUS
<1>1. /\ stage' \in {"refused", "writing"}
      /\ pattern' \in {"simple", "split", "letter"}
      /\ left' \subseteq TestFile
  BY DEF ZipInv, TypeOK, ChoosePattern, SimplePattern
<1>2. UNCHANGED <<upload, unread, collected, group, idx, groups, tests, config, count, inverted>>
  BY DEF ChoosePattern
<1>3. TypeOK'
  BY <1>1, <1>2 DEF ZipInv, TypeOK, upload, collected
<1>4. Underway' /\ Listed' /\ Filed' /\ Apart' /\ Written'
  BY <1>1, <1>2 DEF ZipInv, ChoosePattern, Underway, Listed, Filed, Apart, Written, upload
<1> QED
  BY <1>3, <1>4 DEF ZipInv

\* A record that is refused ends the import.
LEMMA RefuseInv ==
    ASSUME NEW tf \in left
    PROVE  ZipInv /\ Refuse(tf) => ZipInv'
<1> SUFFICES ASSUME ZipInv, Refuse(tf) PROVE ZipInv'
  OBVIOUS
<1>1. tf \in TestFile /\ tf.stem \in Stem
  BY DEF ZipInv, TypeOK, TestFile
<1>2. /\ stage = "writing" /\ stage' = "refused"
      /\ left' = left \ {tf} /\ idx' = idx + 1 /\ group' = GroupOf(tf.stem)
      /\ UNCHANGED <<upload, unread, collected, pattern, groups, tests, config, count, inverted>>
  BY DEF Refuse, Turn
<1>3. TypeOK'
  BY <1>1, <1>2, GroupOfType DEF ZipInv, TypeOK, upload, collected
<1>4. 1..idx \subseteq 1..idx'
  BY <1>2 DEF ZipInv, TypeOK
<1>5. Underway' /\ Listed' /\ Filed' /\ Apart' /\ Written'
  BY <1>2, <1>4 DEF ZipInv, Underway, Listed, Filed, Apart, Written, upload
<1> QED
  BY <1>3, <1>5 DEF ZipInv

\* A record that is skipped takes a number that is in no group.
LEMMA SkipInv ==
    ASSUME NEW tf \in left
    PROVE  ZipInv /\ Skip(tf) => ZipInv'
<1> SUFFICES ASSUME ZipInv, Skip(tf) PROVE ZipInv'
  OBVIOUS
<1>1. tf \in TestFile /\ tf.stem \in Stem
  BY DEF ZipInv, TypeOK, TestFile
<1>2. /\ stage = "writing" /\ groups' = Opened(tf)
      /\ left' = left \ {tf} /\ idx' = idx + 1 /\ group' = GroupOf(tf.stem)
      /\ UNCHANGED <<upload, unread, collected, stage, pattern, tests, config, count, inverted>>
  BY DEF Skip, Turn
<1>3. /\ groups' \in Seq(SUBSET Nat)
      /\ Len(groups') \in Nat \ {0}
      /\ \/ groups' = groups
         \/ /\ DOMAIN groups' = DOMAIN groups \union {Len(groups) + 1}
            /\ \A i \in DOMAIN groups : groups'[i] = groups[i]
            /\ groups'[Len(groups) + 1] = {}
  BY <1>1, <1>2, OpenedGroups DEF ZipInv
<1>4. TypeOK'
  BY <1>1, <1>2, <1>3, GroupOfType DEF ZipInv, TypeOK, upload, collected
<1>5. Underway'
  BY <1>3 DEF Underway
<1>6. Listed'
  BY <1>2, <1>3 DEF ZipInv, Listed
<1>7. 1..idx \subseteq 1..idx'
  BY <1>2 DEF ZipInv, TypeOK
<1>8. \A i \in DOMAIN groups' : groups'[i] # {} => i \in DOMAIN groups /\ groups'[i] = groups[i]
  BY <1>3
<1>9. Filed'
  BY <1>2, <1>7, <1>8 DEF ZipInv, Filed, upload
<1>10. Apart'
  BY <1>8 DEF ZipInv, Apart
<1>11. Written'
  BY <1>2 DEF Written
<1> QED
  BY <1>4, <1>5, <1>6, <1>9, <1>10, <1>11 DEF ZipInv

\* A test that is written has a new number, in the last group.
LEMMA WriteTestInv ==
    ASSUME NEW tf \in left
    PROVE  ZipInv /\ WriteTest(tf) => ZipInv'
<1> SUFFICES ASSUME ZipInv, WriteTest(tf) PROVE ZipInv'
  OBVIOUS
<1> DEFINE t == [n |-> idx', stem |-> tf.stem, in |-> tf.in, ans |-> HasAnswer(tf)]
           G == Opened(tf)
           last == Len(G)
<1>1. tf \in TestFile /\ tf.stem \in Stem /\ HasAnswer(tf) \in BOOLEAN /\ tf.in \in BOOLEAN
  BY DEF ZipInv, TypeOK, TestFile, HasAnswer
<1>2. /\ stage = "writing" /\ groups' = [G EXCEPT ![last] = @ \union {idx'}]
      /\ tests' = tests \union {t}
      /\ left' = left \ {tf} /\ idx' = idx + 1 /\ group' = GroupOf(tf.stem)
      /\ by = "import" => HasAnswer(tf)
      /\ UNCHANGED <<upload, unread, collected, stage, pattern, config, count, inverted>>
  BY DEF WriteTest, Writable, Turn
<1>3. /\ G \in Seq(SUBSET Nat)
      /\ last \in Nat \ {0}
      /\ DOMAIN G = 1..last
      /\ \/ G = groups
         \/ /\ DOMAIN G = DOMAIN groups \union {Len(groups) + 1}
            /\ \A i \in DOMAIN groups : G[i] = groups[i]
            /\ G[Len(groups) + 1] = {}
  BY <1>1, <1>2, OpenedGroups DEF ZipInv
<1>4. idx \in Nat /\ idx' \in Nat /\ 1..idx \subseteq 1..idx' /\ idx' \in 1..idx' /\ idx' \notin 1..idx
  BY <1>2 DEF ZipInv, TypeOK
<1>5. \A i \in DOMAIN G : G[i] # {} => i \in DOMAIN groups /\ G[i] = groups[i]
  BY <1>3
<1>6. /\ DOMAIN groups' = DOMAIN G
      /\ groups'[last] = G[last] \union {idx'}
      /\ \A i \in DOMAIN G \ {last} : groups'[i] = G[i]
      /\ last \in DOMAIN G
      /\ groups' \in Seq(SUBSET Nat)
  <2> HIDE DEF G
  <2> QED
    BY <1>2, <1>3, <1>4
<1> HIDE DEF G, last
<1>7. \A i \in DOMAIN groups' : \A n \in groups'[i] :
        \/ n = idx' /\ i = last
        \/ i \in DOMAIN groups /\ n \in groups[i]
  BY <1>5, <1>6
<1>8. \A i \in DOMAIN groups : i \in DOMAIN groups' /\ groups[i] \subseteq groups'[i]
  BY <1>3, <1>6
<1>9. TypeOK'
  <2>1. t \in [n : Nat, stem : Stem, in : BOOLEAN, ans : BOOLEAN]
    BY <1>1, <1>4
  <2>2. tests' \subseteq [n : Nat, stem : Stem, in : BOOLEAN, ans : BOOLEAN]
    BY <1>2, <2>1 DEF ZipInv, TypeOK
  <2> QED
    BY <1>1, <1>2, <1>4, <1>6, <2>2, GroupOfType DEF ZipInv, TypeOK, upload, collected
<1>10. Underway'
  BY <1>6 DEF Underway
<1>11. Listed'
  <2> SUFFICES ASSUME NEW u \in tests' PROVE \E i \in DOMAIN groups' : u.n \in groups'[i]
    BY DEF Listed
  <2>1. CASE u \in tests
    BY <2>1, <1>8 DEF ZipInv, Listed
  <2>2. CASE u = t
    BY <2>2, <1>6
  <2> QED
    BY <2>1, <2>2, <1>2
<1>12. Filed'
  <2> SUFFICES ASSUME NEW i \in DOMAIN groups', NEW n \in groups'[i]
               PROVE  n \in 1..idx' /\ \E u \in tests' : u.n = n /\ (by = "import" => u.ans)
    BY <1>2 DEF Filed, upload
  <2>1. CASE n = idx'
    <3>1. t.n = n /\ t.ans = HasAnswer(tf) /\ t \in tests'
      BY <2>1, <1>2
    <3> QED
      BY <2>1, <3>1, <1>2, <1>4
  <2>2. CASE n # idx'
    <3>1. i \in DOMAIN groups /\ n \in groups[i]
      BY <2>2, <1>7
    <3> QED
      BY <3>1, <1>2, <1>4 DEF ZipInv, Filed
  <2> QED
    BY <2>1, <2>2
<1>13. Apart'
  <2> SUFFICES ASSUME NEW i \in DOMAIN groups', NEW j \in DOMAIN groups',
                      NEW n \in groups'[i] \intersect groups'[j]
               PROVE  i = j
    BY DEF Apart
  <2>1. \A k \in DOMAIN groups : idx' \notin groups[k]
    BY <1>4 DEF ZipInv, Filed
  <2> QED
    BY <2>1, <1>7 DEF ZipInv, Apart
<1>14. Written'
  BY <1>2 DEF Written
<1> QED
  BY <1>9, <1>10, <1>11, <1>12, <1>13, <1>14 DEF ZipInv

LEMMA WriteConfigInv == ZipInv /\ WriteConfig => ZipInv'
<1> SUFFICES ASSUME ZipInv, WriteConfig PROVE ZipInv'
  OBVIOUS
<1> DEFINE N == Len(groups)
<1>1. /\ stage' = "saving"
      /\ config' = [i \in 1..N |-> [cases |-> groups[i], score |-> calcScore(100, N, i - 1)]]
      /\ UNCHANGED <<upload, unread, collected, pattern, left, group, idx, groups, tests, count,
                     inverted>>
  BY DEF WriteConfig
<1>2. N \in Nat /\ DOMAIN groups = 1..N /\ \A i \in 1..N : groups[i] \in SUBSET Nat
  BY DEF ZipInv, TypeOK
<1> HIDE DEF N
<1>3. \A i \in 1..N : calcScore(100, N, i - 1) \in Nat
  <2> SUFFICES ASSUME NEW i \in 1..N PROVE calcScore(100, N, i - 1) \in Nat
    OBVIOUS
  <2>1. N \in Nat \ {0} /\ i - 1 \in Nat
    BY <1>2
  <2> QED
    BY <2>1, ScoreType
<1>4. config' \in Seq([cases : SUBSET Nat, score : Nat])
  <2>1. \A i \in 1..N : [cases |-> groups[i], score |-> calcScore(100, N, i - 1)]
                          \in [cases : SUBSET Nat, score : Nat]
    BY <1>2, <1>3
  <2> DEFINE Entry == [cases : SUBSET Nat, score : Nat]
  <2>2. config' \in [1..N -> Entry]
    BY <1>1, <2>1
  <2> HIDE DEF Entry
  <2>3. config' \in Seq(Entry)
    BY <1>2, <2>2, SeqDef
  <2> QED
    BY <2>3 DEF Entry
<1>5. TypeOK'
  BY <1>1, <1>4 DEF ZipInv, TypeOK, upload, collected
<1>6. Underway' /\ Listed' /\ Filed' /\ Apart'
  BY <1>1 DEF ZipInv, WriteConfig, Underway, Listed, Filed, Apart, upload
<1>7. Written'
  BY <1>1, <1>2 DEF Written
<1> QED
  BY <1>5, <1>6, <1>7 DEF ZipInv

LEMMA SaveCountInv == ZipInv /\ SaveCount => ZipInv'
<1> SUFFICES ASSUME ZipInv, SaveCount PROVE ZipInv'
  OBVIOUS
<1>1. TypeOK'
  BY DEF ZipInv, TypeOK, SaveCount, upload, collected
<1>2. Underway' /\ Listed' /\ Filed' /\ Apart' /\ Written'
  BY DEF ZipInv, SaveCount, Underway, Listed, Filed, Apart, Written, upload
<1> QED
  BY <1>1, <1>2 DEF ZipInv

LEMMA FailInv == ZipInv /\ Fail => ZipInv'
<1> SUFFICES ASSUME ZipInv, Fail PROVE ZipInv'
  OBVIOUS
<1>1. TypeOK'
  BY DEF ZipInv, TypeOK, Fail, upload, collected
<1>2. Underway' /\ Listed' /\ Filed' /\ Apart' /\ Written'
  BY DEF ZipInv, Fail, Underway, Listed, Filed, Apart, Written, upload
<1> QED
  BY <1>1, <1>2 DEF ZipInv

LEMMA StutterZipInv == ZipInv /\ UNCHANGED vars => ZipInv'
<1> SUFFICES ASSUME ZipInv, UNCHANGED vars PROVE ZipInv'
  OBVIOUS
<1>1. TypeOK'
  BY DEF ZipInv, TypeOK, vars, upload, collected
<1>2. Underway' /\ Listed' /\ Filed' /\ Apart' /\ Written'
  BY DEF ZipInv, vars, Underway, Listed, Filed, Apart, Written, upload
<1> QED
  BY <1>1, <1>2 DEF ZipInv

LEMMA NextZipInv == ZipInv /\ [Next]_vars => ZipInv'
<1> SUFFICES ASSUME ZipInv, [Next]_vars PROVE ZipInv'
  OBVIOUS
<1>1. ASSUME NEW f \in unread, ReadFile(f) \/ ReadPair(f) PROVE ZipInv'
  BY <1>1, ReadingInv
<1>2. ASSUME NEW tf \in left, Refuse(tf) \/ Skip(tf) \/ WriteTest(tf) PROVE ZipInv'
  BY <1>2, RefuseInv, SkipInv, WriteTestInv
<1>3. CASE ChoosePattern
  BY <1>3, ChoosePatternInv
<1>4. CASE WriteConfig \/ SaveCount \/ Fail
  BY <1>4, WriteConfigInv, SaveCountInv, FailInv
<1>5. CASE UNCHANGED vars
  BY <1>5, StutterZipInv
<1> QED
  BY <1>1, <1>2, <1>3, <1>4, <1>5 DEF Next

LEMMA ZipInvHolds == Spec => []ZipInv
<1> QED
  BY InitZipInv, NextZipInv, PTL DEF Spec

-----------------------------------------------------------------------------

(***************************************************************************)
(* The import has the shape its steps give it.                             *)
(***************************************************************************)
THEOREM TypeCorrect == Spec => []TypeOK
<1>1. ZipInv => TypeOK
  BY DEF ZipInv
<1> QED
  BY <1>1, ZipInvHolds, PTL

(***************************************************************************)
(* Every archive, in every order: a case that config.json lists has its    *)
(* files, is in one group and is counted (ImportDataZipHandler,            *)
(* CreateProblemHandler).                                                  *)
(***************************************************************************)
THEOREM CasesListedAlways == Spec => []CasesListed
<1>1. ASSUME ZipInv PROVE CasesListed
  <2> SUFFICES ASSUME stage \in {"saving", "done"}
               PROVE  /\ \A t \in tests : \E i \in DOMAIN config : t.n \in config[i].cases
                      /\ \A i \in DOMAIN config : \A n \in config[i].cases :
                           /\ \E t \in tests : t.n = n /\ (by = "import" => t.ans)
                           /\ \A j \in DOMAIN config : n \in config[j].cases => j = i
                           /\ stage = "done" => n \in 1..count
    BY DEF CasesListed
  <2>1. /\ DOMAIN config = DOMAIN groups
        /\ \A i \in DOMAIN groups : config[i].cases = groups[i]
        /\ stage = "done" => count = idx
    BY <1>1 DEF ZipInv, Written
  <2> QED
    BY <1>1, <2>1 DEF ZipInv, Listed, Filed, Apart
<1> QED
  BY <1>1, ZipInvHolds, PTL

-----------------------------------------------------------------------------
(* Why an import is refused                                                *)

Exts == {"in", "ans", "out"}

\* There is one record of each name.
OneEach(S) == \A a, b \in S : a.stem = b.stem => a = b

\* A file of these names goes into the first map, whatever its extension is.
Ungrouped(s) == s.kind \notin {"split", "letter"}

\* A file of this name that has been read and has content
HasRead(s, ext) == \E f \in archive \ unread : f.stem = s /\ f.ext = ext /\ f.full

\* The first map has a record of each such name that was read, and every record tells which
\* of its files had content.
Recorded ==
    /\ \A f \in archive \ unread :
         Ungrouped(f.stem) => \E tf \in firstPassMap : tf.stem = f.stem
    /\ \A tf \in firstPassMap :
         /\ tf.stem \in Names
         /\ Ungrouped(tf.stem) => \A e \in Exts : tf[e] <=> HasRead(tf.stem, e)

\* What is numbered one by one is in the first map, which has no name with a letter.
OneByOne ==
    stage = "writing" =>
        /\ unread = {}
        /\ pattern = "simple" => left \subseteq firstPassMap /\ ~HasAlphaSuffix

RefusalInv ==
    /\ TypeOK
    /\ by = "import" => Recorded /\ OneByOne
    /\ by = "create" => stage # "refused"
    /\ RefusedForReason

-----------------------------------------------------------------------------

\* A record that is changed tells of the file that changed it, and of the others as before.
LEMMA RecordOf ==
    ASSUME NEW tf \in TestFile, NEW f \in File
    PROVE  /\ [tf EXCEPT ![f.ext] = f.full].stem = tf.stem
           /\ \A e \in Exts : [tf EXCEPT ![f.ext] = f.full][e] = IF e = f.ext THEN f.full ELSE tf[e]
BY DEF TestFile, File, Exts

LEMMA FreshRecord ==
    ASSUME NEW f \in File
    PROVE  /\ Fresh(f.stem) \in TestFile
           /\ Fresh(f.stem).stem = f.stem
           /\ \A e \in Exts : Fresh(f.stem)[e] = FALSE
BY DEF TestFile, File, Exts, Fresh

\* The record rf is one of S, or tells of the file f and otherwise what S tells of its name.
PutFrom(rf, S, f) ==
    \/ rf \in S /\ rf.stem # f.stem
    \/ /\ rf.stem = f.stem
       /\ \E tf \in S :
            /\ tf.stem = f.stem
            /\ \A e \in Exts : rf[e] = IF e = f.ext THEN f.full ELSE tf[e]
    \/ /\ rf.stem = f.stem
       /\ \A tf \in S : tf.stem # f.stem
       /\ \A e \in Exts : rf[e] = IF e = f.ext THEN f.full ELSE FALSE

\* Put changes the record of the file's name, or makes one.
LEMMA PutRecord ==
    ASSUME NEW S \in SUBSET TestFile, NEW f \in File
    PROVE  /\ \A rf \in Put(S, f) : PutFrom(rf, S, f)
           /\ \E rf \in Put(S, f) : rf.stem = f.stem
           /\ \A tf \in S : tf.stem # f.stem => tf \in Put(S, f)
           /\ OneEach(S) => OneEach(Put(S, f))
<1> DEFINE old == Fresh(f.stem)
           Changed(tf) == [tf EXCEPT ![f.ext] = f.full]
<1>1. /\ old \in TestFile
      /\ old.stem = f.stem
      /\ \A e \in Exts : old[e] = FALSE
  BY FreshRecord
<1>2. \A tf \in TestFile :
        /\ Changed(tf).stem = tf.stem
        /\ \A e \in Exts : Changed(tf)[e] = IF e = f.ext THEN f.full ELSE tf[e]
  BY RecordOf
<1>3. Put(S, f) = IF \E tf \in S : tf.stem = f.stem
                  THEN {IF tf.stem = f.stem THEN Changed(tf) ELSE tf : tf \in S}
                  ELSE S \union {Changed(old)}
  BY DEF Put
<1> HIDE DEF old, Changed
<1>4. CASE \E tf \in S : tf.stem = f.stem
  <2>1. ASSUME NEW rf \in Put(S, f)
        PROVE  \/ rf \in S /\ rf.stem # f.stem
               \/ \E tf \in S : tf.stem = f.stem /\ rf = Changed(tf)
    BY <1>3, <1>4
  <2>2. \A tf \in S : tf.stem = f.stem =>
          /\ Changed(tf) \in Put(S, f)
          /\ Changed(tf).stem = f.stem
          /\ \A e \in Exts : Changed(tf)[e] = IF e = f.ext THEN f.full ELSE tf[e]
    BY <1>2, <1>3
  <2>3. \A tf \in S : tf.stem # f.stem => tf \in Put(S, f)
    BY <1>3, <1>4
  <2>4. OneEach(S) => OneEach(Put(S, f))
    BY <2>1, <2>2 DEF OneEach
  <2>5. ASSUME NEW rf \in Put(S, f), ~(rf \in S /\ rf.stem # f.stem)
        PROVE  /\ rf.stem = f.stem
               /\ \E tf \in S :
                    /\ tf.stem = f.stem
                    /\ \A e \in Exts : rf[e] = IF e = f.ext THEN f.full ELSE tf[e]
    <3>1. PICK tf \in S : tf.stem = f.stem /\ rf = Changed(tf)
      BY <2>1, <2>5
    <3> QED
      BY <2>2, <3>1
  <2>6. \E rf \in Put(S, f) : rf.stem = f.stem
    BY <1>4, <2>2
  <2> QED
    BY <2>3, <2>4, <2>5, <2>6 DEF PutFrom
<1>5. CASE ~\E tf \in S : tf.stem = f.stem
  <2>1. Put(S, f) = S \union {Changed(old)}
    BY <1>3, <1>5
  <2>2. /\ Changed(old).stem = f.stem
        /\ \A e \in Exts : Changed(old)[e] = IF e = f.ext THEN f.full ELSE FALSE
    BY <1>1, <1>2
  <2>3. OneEach(S) => OneEach(Put(S, f))
    BY <1>5, <2>1, <2>2 DEF OneEach
  <2> QED
    BY <1>5, <2>1, <2>2, <2>3 DEF PutFrom
<1> QED
  BY <1>4, <1>5

\* Of a name, no two files have the same extension.
LEMMA OneFile ==
    ASSUME archive \in Archives, NEW f \in archive, NEW g \in archive,
           f.stem = g.stem, f.ext = g.ext
    PROVE  f = g
BY ZipAssumption

LEMMA InitRefusal == Init => RefusalInv
<1> SUFFICES ASSUME Init PROVE RefusalInv
  OBVIOUS
<1>1. TypeOK
  BY InitZipInv DEF ZipInv
<1>2. Recorded /\ OneByOne
  BY DEF Init, Recorded, OneByOne
<1> QED
  BY <1>1, <1>2 DEF Init, RefusalInv, RefusedForReason
\* Reading a file makes its record true, and leaves the other records true.
LEMMA ReadRecorded ==
    ASSUME TypeOK, Recorded, NEW f \in unread, ReadFile(f)
    PROVE  Recorded'
<1>1. f \in archive /\ f \in File /\ f \notin archive \ unread
  BY ArchiveFiles DEF TypeOK
<1>2. archive' \ unread' = (archive \ unread) \union {f} /\ archive' = archive
  BY <1>1 DEF ReadFile, upload
<1>3. \A s, e : HasRead(s, e)' <=> HasRead(s, e) \/ (f.stem = s /\ f.ext = e /\ f.full)
  BY <1>2 DEF HasRead
<1>4. \A e : e = f.ext => ~HasRead(f.stem, e)
  BY <1>1, OneFile DEF HasRead, TypeOK
<1>5. firstPassMap \subseteq TestFile
  BY DEF TypeOK
<1>6. CASE Grouped(f, "split") \/ Grouped(f, "letter")
  <2>1. firstPassMap' = firstPassMap /\ ~Ungrouped(f.stem)
    BY <1>6 DEF ReadFile, Grouped, Ungrouped
  <2>2. \A tf \in firstPassMap : Ungrouped(tf.stem) =>
          \A e \in Exts : tf[e] <=> HasRead(tf.stem, e)'
    BY <1>3, <2>1 DEF Recorded
  <2> QED
    BY <1>2, <2>1, <2>2 DEF Recorded, Names
<1>7. CASE ~(Grouped(f, "split") \/ Grouped(f, "letter"))
  <2>1. firstPassMap' = Put(firstPassMap, f)
    BY <1>7 DEF ReadFile
  <2>2. /\ \A tf \in firstPassMap : tf.stem # f.stem => tf \in firstPassMap'
        /\ \E rf \in firstPassMap' : rf.stem = f.stem
    BY <1>1, <1>5, <2>1, PutRecord
  <2>3. \A rf \in firstPassMap' : PutFrom(rf, firstPassMap, f)
    BY <1>1, <1>5, <2>1, PutRecord
  <2>4. \A g \in archive' \ unread' :
          Ungrouped(g.stem) => \E rf \in firstPassMap' : rf.stem = g.stem
    <3> SUFFICES ASSUME NEW g \in archive' \ unread', Ungrouped(g.stem), g.stem # f.stem
                 PROVE  \E rf \in firstPassMap' : rf.stem = g.stem
      BY <2>2
    <3>1. g \in archive \ unread
      BY <1>2
    <3> QED
      BY <2>2, <3>1 DEF Recorded
  <2>5. ASSUME NEW rf \in firstPassMap'
        PROVE  /\ rf.stem \in Names'
               /\ Ungrouped(rf.stem) => \A e \in Exts : rf[e] <=> HasRead(rf.stem, e)'
    <3>1. f.stem \in Names /\ Names' = Names
      BY <1>1, <1>2 DEF Names
    <3>2. CASE rf \in firstPassMap /\ rf.stem # f.stem
      BY <1>3, <3>1, <3>2 DEF Recorded
    <3>3. ASSUME rf.stem = f.stem, NEW tf \in firstPassMap, tf.stem = f.stem,
                 \A e \in Exts : rf[e] = IF e = f.ext THEN f.full ELSE tf[e]
          PROVE  Ungrouped(rf.stem) => \A e \in Exts : rf[e] <=> HasRead(rf.stem, e)'
      <4>1. Ungrouped(f.stem) => \A e \in Exts : tf[e] <=> HasRead(f.stem, e)
        BY <3>3 DEF Recorded
      <4>2. \A e \in Exts : e = f.ext => (rf[e] <=> HasRead(f.stem, e)')
        BY <1>3, <1>4, <3>3
      <4>3. Ungrouped(f.stem) => \A e \in Exts : e # f.ext => (rf[e] <=> HasRead(f.stem, e)')
        BY <1>3, <3>3, <4>1
      <4> QED
        BY <3>3, <4>2, <4>3
    <3>4. CASE /\ rf.stem = f.stem
               /\ \A tf \in firstPassMap : tf.stem # f.stem
               /\ \A e \in Exts : rf[e] = IF e = f.ext THEN f.full ELSE FALSE
      <4>1. Ungrouped(f.stem) => \A g \in archive \ unread : g.stem # f.stem
        BY <3>4 DEF Recorded
      <4>2. Ungrouped(f.stem) => \A e : ~HasRead(f.stem, e)
        BY <4>1 DEF HasRead
      <4> QED
        BY <1>3, <3>1, <3>4, <4>2
    <3> QED
      BY <2>3, <3>1, <3>2, <3>3, <3>4 DEF PutFrom
  <2> QED
    BY <2>4, <2>5 DEF Recorded
<1> QED
  BY <1>6, <1>7

\* A step that neither reads nor refuses, and only takes from what is left.
LEMMA RefusalQuiet ==
    ASSUME RefusalInv, TypeOK', UNCHANGED <<upload, unread, collected, pattern>>,
           left' \subseteq left, stage' # "refused", stage' = "writing" => stage = "writing"
    PROVE  RefusalInv'
<1>1. Recorded => Recorded'
  BY DEF Recorded, HasRead, Names, upload, collected
<1>2. OneByOne => OneByOne'
  BY DEF OneByOne, HasAlphaSuffix, collected
<1> QED
  BY <1>1, <1>2 DEF RefusalInv, RefusedForReason, upload

\* What is refused when the names are guessed has answers only.
LEMMA ChooseRefusal ==
    ASSUME ZipInv, RefusalInv, ChoosePattern
    PROVE  RefusalInv'
<1>1. TypeOK'
  BY ChoosePatternInv DEF ZipInv
<1>2. UNCHANGED <<upload, unread, collected>> /\ unread = {}
  BY DEF ChoosePattern
<1>3. Recorded => Recorded'
  BY <1>2 DEF Recorded, HasRead, Names, upload, collected
<1>4. CASE NothingFound
  <2>1. stage' = "refused" /\ by = "import" /\ \A f \in archive : f.ext = "ans"
    BY <1>4 DEF ChoosePattern, NothingFound
  <2>2. \A s \in Names : ~Has(s, "in")
    BY <2>1 DEF Has
  <2>3. archive # {} => Names # {}
    BY DEF Names
  <2>4. RefusedForReason'
    BY <1>2, <2>2, <2>3 DEF RefusedForReason, Names, Has, upload
  <2> QED
    BY <1>1, <1>2, <1>3, <2>1, <2>4 DEF RefusalInv, OneByOne, upload
<1>5. CASE ~NothingFound
  <2>1. stage' = "writing"
    BY <1>5 DEF ChoosePattern
  <2>2. by = "import" /\ pattern' = "simple" => left' = firstPassMap /\ ~HasAlphaSuffix
    BY <1>5 DEF ChoosePattern, SimplePattern
  <2>3. by = "import" => OneByOne'
    BY <1>2, <2>2 DEF OneByOne, HasAlphaSuffix, collected
  <2> QED
    BY <1>1, <1>2, <1>3, <2>1, <2>3 DEF RefusalInv, RefusedForReason, upload
<1> QED
  BY <1>4, <1>5

\* A record that is refused tells of a file that is missing or has nothing in it.
LEMMA RefuseRefusal ==
    ASSUME ZipInv, RefusalInv, NEW tf \in left, Refuse(tf)
    PROVE  RefusalInv'
<1>1. TypeOK'
  BY RefuseInv DEF ZipInv
<1>2. /\ stage = "writing" /\ by = "import" /\ pattern = "simple"
      /\ ~HasAnswer(tf) \/ ~tf.in
      /\ stage' = "refused"
      /\ UNCHANGED <<upload, unread, collected, pattern>>
  BY DEF Refuse, Turn
<1>3. Recorded /\ unread = {} /\ tf \in firstPassMap /\ ~HasAlphaSuffix
  BY <1>2 DEF RefusalInv, OneByOne
<1>4. Recorded'
  BY <1>2, <1>3 DEF Recorded, HasRead, Names, upload, collected
<1>5. \A s, e : HasRead(s, e) <=> Has(s, e)
  BY <1>3 DEF HasRead, Has
<1>6. tf.stem.kind # "letter" /\ tf.stem \in Names
  BY <1>3 DEF HasAlphaSuffix, Recorded
<1>7. tf.stem.kind # "split" =>
        ~Has(tf.stem, "in") \/ ~(Has(tf.stem, "ans") \/ Has(tf.stem, "out"))
  <2> SUFFICES ASSUME Ungrouped(tf.stem)
               PROVE  ~Has(tf.stem, "in") \/ ~(Has(tf.stem, "ans") \/ Has(tf.stem, "out"))
    BY <1>6 DEF Ungrouped
  <2>1. \A e \in Exts : tf[e] <=> Has(tf.stem, e)
    BY <1>3, <1>5 DEF Recorded
  <2>2. /\ tf.in <=> Has(tf.stem, "in")
        /\ tf.ans <=> Has(tf.stem, "ans")
        /\ tf.out <=> Has(tf.stem, "out")
    BY <2>1 DEF Exts
  <2> QED
    BY <1>2, <2>2 DEF HasAnswer
<1>8. RefusedForReason'
  BY <1>2, <1>6, <1>7 DEF RefusedForReason, Names, Has, upload
<1> QED
  BY <1>1, <1>2, <1>4, <1>8 DEF RefusalInv, OneByOne, upload

LEMMA NextRefusal == ZipInv /\ RefusalInv /\ [Next]_vars => RefusalInv'
<1> SUFFICES ASSUME ZipInv, RefusalInv, [Next]_vars PROVE RefusalInv'
  OBVIOUS
<1>1. TypeOK'
  BY NextZipInv DEF ZipInv
<1>2. ASSUME NEW f \in unread, ReadFile(f) PROVE RefusalInv'
  <2>1. UNCHANGED <<upload, stage>> /\ stage = "reading" /\ by = "import"
    BY <1>2 DEF ReadFile
  <2>2. Recorded'
    BY <1>2, <2>1, ReadRecorded DEF RefusalInv
  <2> QED
    BY <1>1, <2>1, <2>2 DEF RefusalInv, OneByOne, RefusedForReason, upload
<1>3. ASSUME NEW f \in unread, ReadPair(f) PROVE RefusalInv'
  <2>1. UNCHANGED <<upload, stage>> /\ stage = "reading" /\ by = "create"
    BY <1>3 DEF ReadPair
  <2> QED
    BY <1>1, <2>1 DEF RefusalInv, RefusedForReason, upload
<1>4. CASE ChoosePattern
  BY <1>4, ChooseRefusal
<1>5. ASSUME NEW tf \in left, Refuse(tf) PROVE RefusalInv'
  BY <1>5, RefuseRefusal
<1>6. ASSUME NEW tf \in left, Skip(tf) \/ WriteTest(tf) PROVE RefusalInv'
  <2>1. /\ UNCHANGED <<upload, unread, collected, pattern, stage>> /\ left' \subseteq left
        /\ stage = "writing"
    BY <1>6 DEF Skip, WriteTest, Turn
  <2> QED
    BY <1>1, <2>1, RefusalQuiet
<1>7. CASE WriteConfig \/ SaveCount \/ Fail
  <2>1. /\ UNCHANGED <<upload, unread, collected, pattern>> /\ left' \subseteq left
        /\ stage' \notin {"refused", "writing"}
    BY <1>7 DEF WriteConfig, SaveCount, Fail
  <2> QED
    BY <1>1, <2>1, RefusalQuiet
<1>8. CASE UNCHANGED vars
  <2>1. UNCHANGED <<upload, unread, collected, pattern, left, stage, archive, by>>
    BY <1>8 DEF vars, upload
  <2>2. Recorded => Recorded'
    BY <2>1 DEF Recorded, HasRead, Names, collected
  <2>3. OneByOne => OneByOne'
    BY <2>1 DEF OneByOne, HasAlphaSuffix, collected
  <2> QED
    BY <1>1, <2>1, <2>2, <2>3 DEF RefusalInv, RefusedForReason, Names, Has
<1> QED
  BY <1>2, <1>3, <1>4, <1>5, <1>6, <1>7, <1>8 DEF Next

(***************************************************************************)
(* For every set of archives, and every order of their files: an import    *)
(* without split names is refused only when a test really lacks its input  *)
(* or its answer (ImportDataZipHandler).                                   *)
(***************************************************************************)
THEOREM RefusedForReasonAlways == Spec => []RefusedForReason
<1>1. Init => ZipInv /\ RefusalInv
  BY InitZipInv, InitRefusal
<1>2. ZipInv /\ RefusalInv /\ [Next]_vars => (ZipInv /\ RefusalInv)'
  BY NextZipInv, NextRefusal
<1>3. RefusalInv => RefusedForReason
  BY DEF RefusalInv
<1> QED
  BY <1>1, <1>2, <1>3, PTL DEF Spec

-----------------------------------------------------------------------------
(* A regular archive is imported as it is meant                            *)

\* CreateProblemHandler does not look at outputs.
Matters(ext) == by = "create" => ext # "out"

\* Records are of the names of the files in R, and have what these have.
Tells(S, R) ==
    \A tf \in S :
        /\ \E f \in R : f.stem = tf.stem
        /\ \A f \in R : f.stem = tf.stem /\ f.full /\ Matters(f.ext) => tf[f.ext]

\* Where the record of a name is
RecordsOf(s) ==
    IF by = "import" /\ s.kind = "split" THEN splitGroups
    ELSE IF by = "import" /\ s.kind = "letter" THEN letterGroups
    ELSE firstPassMap

\* Every name that was read has one record, in its place, and no answer came before its input.
Sorted ==
    /\ \A f \in archive \ unread :
         Matters(f.ext) => \E tf \in RecordsOf(f.stem) : tf.stem = f.stem
    /\ \A tf \in splitGroups : by = "import" /\ tf.stem.kind = "split"
    /\ \A tf \in letterGroups : by = "import" /\ tf.stem.kind = "letter"
    /\ \A tf \in firstPassMap : by = "import" => Ungrouped(tf.stem)
    /\ \A S \in {splitGroups, letterGroups, firstPassMap} : OneEach(S) /\ Tells(S, archive \ unread)
    /\ by = "import" =>
         \A f \in archive \ unread, g \in unread :
            f.stem = g.stem /\ g.ext = "in" => f.ext = "in"

PatternOf(s) ==
    IF by = "create" \/ s.kind \in {"number", "name"} THEN "simple"
    ELSE IF s.kind = "split" THEN "split" ELSE "letter"

Stems(S) == {x.stem : x \in S}

\* Every name either has its test or has its turn to come.
Divided ==
    /\ \A s \in Names : pattern = PatternOf(s)
    /\ Names = Stems(tests) \union Stems(left)
    /\ Stems(tests) \intersect Stems(left) = {}
    /\ OneEach(left) /\ OneEach(tests)
    /\ \A tf \in left : tf.in /\ HasAnswer(tf)
    /\ \A t \in tests : t.in /\ t.ans
    /\ stage # "writing" => left = {}

\* So many have their turn to come.
Numbered ==
    /\ {t.n : t \in tests} = 1..idx
    /\ IsFiniteSet(left)
    /\ idx + Cardinality(left) = Cardinality(Names)

\* Turns are in the order of the names.
Ordered ==
    /\ \A t, u \in tests : t.n < u.n => Precedes(t.stem, u.stem)
    /\ \A t \in tests, tf \in left : Precedes(t.stem, tf.stem)

\* The last group is the only one that may still grow, and the tests of one group are those
\* whose names belong together.
Gathered ==
    /\ group # NoGroup => \E t \in tests : GroupOf(t.stem) = group
    /\ \A t \in tests : t.n \in groups[Len(groups)] <=> GroupOf(t.stem) = group
    /\ \A t \in tests, tf \in left : GroupOf(t.stem) = GroupOf(tf.stem) => GroupOf(t.stem) = group
    /\ \A t, u \in tests :
         GroupOf(t.stem) = GroupOf(u.stem) <=> \E i \in DOMAIN groups : {t.n, u.n} \subseteq groups[i]

\* A regular archive is never refused, and its import goes on as it is meant.
MeantInv ==
    Regular /\ ~inverted =>
        /\ Sorted
        /\ stage = "reading" => tests = {} /\ idx = 0 /\ group = NoGroup
        /\ stage \in {"writing", "saving", "done"} =>
            unread = {} /\ Divided /\ Numbered /\ Ordered /\ Gathered
-----------------------------------------------------------------------------

\* What the archive asks for depends on the upload only.
LEMMA SameUpload ==
    ASSUME UNCHANGED upload
    PROVE  /\ Regular' <=> Regular
           /\ Names' = Names
           /\ archive' = archive /\ by' = by
BY DEF Regular, Complete, Has, Names, upload

\* A file that is put into records makes them tell of it too.
LEMMA PutTells ==
    ASSUME NEW R, R \subseteq File, NEW S \in SUBSET TestFile, NEW f \in File,
           Tells(S, R),
           \A g \in R : g.stem = f.stem => g.ext # f.ext,
           \A g \in R : g.stem = f.stem /\ Matters(g.ext) => \E tf \in S : tf.stem = f.stem
    PROVE  Tells(Put(S, f), R \union {f})
<1>1. f.ext \in Exts /\ \A g \in R : g.ext \in Exts
  BY DEF File, Exts
<1>2. \A rf \in Put(S, f) : PutFrom(rf, S, f)
  BY PutRecord
<1> SUFFICES ASSUME NEW rf \in Put(S, f)
             PROVE  /\ \E g \in R \union {f} : g.stem = rf.stem
                    /\ \A g \in R \union {f} :
                         g.stem = rf.stem /\ g.full /\ Matters(g.ext) => rf[g.ext]
  BY DEF Tells
<1>3. CASE rf \in S /\ rf.stem # f.stem
  BY <1>3 DEF Tells
<1>4. ASSUME rf.stem = f.stem, NEW tf \in S, tf.stem = f.stem,
             \A e \in Exts : rf[e] = IF e = f.ext THEN f.full ELSE tf[e]
      PROVE  \A g \in R \union {f} :
               g.stem = rf.stem /\ g.full /\ Matters(g.ext) => rf[g.ext]
  BY <1>1, <1>4 DEF Tells
<1>5. CASE /\ rf.stem = f.stem
           /\ \A tf \in S : tf.stem # f.stem
           /\ \A e \in Exts : rf[e] = IF e = f.ext THEN f.full ELSE FALSE
  BY <1>1, <1>5
<1> QED
  BY <1>2, <1>3, <1>4, <1>5 DEF PutFrom

\* A file that is put elsewhere, or nowhere, changes nothing for the records of other names.
LEMMA OtherTells ==
    ASSUME NEW R, NEW S, NEW f, Tells(S, R),
           \A tf \in S : tf.stem = f.stem => ~Matters(f.ext)
    PROVE  Tells(S, R \union {f})
BY DEF Tells

\* A file that is put into its place keeps the records sorted.
LEMMA PutSorted ==
    ASSUME TypeOK, Sorted, NEW f \in unread, unread' = unread \ {f}, UNCHANGED upload,
           NEW place \in {"split", "letter", "first", "none"},
           place = "split" <=> by = "import" /\ f.stem.kind = "split",
           place = "letter" <=> by = "import" /\ f.stem.kind = "letter",
           place = "none" <=> ~Matters(f.ext),
           splitGroups' = IF place = "split" THEN Put(splitGroups, f) ELSE splitGroups,
           letterGroups' = IF place = "letter" THEN Put(letterGroups, f) ELSE letterGroups,
           firstPassMap' = IF place = "first" THEN Put(firstPassMap, f) ELSE firstPassMap,
           by = "import" /\ f.ext # "in" =>
                \A g \in unread : ~(g.stem = f.stem /\ g.ext = "in")
    PROVE  Sorted'
<1> DEFINE R == archive \ unread
<1>1. /\ f \in archive /\ f \in File /\ f \notin R /\ R \subseteq File
      /\ archive' \ unread' = R \union {f}
      /\ archive' = archive /\ by' = by
  BY ArchiveFiles DEF TypeOK, upload
<1>2. \A g \in R : g.stem = f.stem => g.ext # f.ext
  BY <1>1, OneFile DEF TypeOK
<1>3. /\ splitGroups \in SUBSET TestFile
      /\ letterGroups \in SUBSET TestFile
      /\ firstPassMap \in SUBSET TestFile
  BY DEF TypeOK
<1>4. \A e : Matters(e)' <=> Matters(e)
  BY <1>1 DEF Matters
<1> HIDE DEF R
<1>5. \A g \in R : Matters(g.ext) => \E tf \in RecordsOf(g.stem) : tf.stem = g.stem
  BY DEF R, Sorted
<1>6. /\ OneEach(splitGroups) /\ Tells(splitGroups, R)
      /\ OneEach(letterGroups) /\ Tells(letterGroups, R)
      /\ OneEach(firstPassMap) /\ Tells(firstPassMap, R)
  BY DEF R, Sorted
<1>7. \A g \in R : g.stem = f.stem /\ Matters(g.ext) =>
        \E tf \in RecordsOf(f.stem) : tf.stem = f.stem
  BY <1>5
<1>8. /\ \A tf \in splitGroups : by = "import" /\ tf.stem.kind = "split"
      /\ \A tf \in letterGroups : by = "import" /\ tf.stem.kind = "letter"
      /\ \A tf \in firstPassMap : by = "import" => Ungrouped(tf.stem)
  BY DEF Sorted
<1>9. /\ OneEach(splitGroups') /\ Tells(splitGroups', R \union {f})
      /\ \A tf \in splitGroups' : by = "import" /\ tf.stem.kind = "split"
      /\ \A s : (\E tf \in splitGroups : tf.stem = s) => \E tf \in splitGroups' : tf.stem = s
      /\ place = "split" => \E tf \in splitGroups' : tf.stem = f.stem
  <2>1. CASE place = "split"
    <3>1. RecordsOf(f.stem) = splitGroups
      BY <2>1 DEF RecordsOf
    <3>2. splitGroups' = Put(splitGroups, f)
      BY <2>1
    <3>3. OneEach(splitGroups') /\ Tells(splitGroups', R \union {f})
      BY <1>1, <1>2, <1>3, <1>6, <1>7, <3>1, <3>2, PutRecord, PutTells
    <3>4. /\ \A tf \in splitGroups' : PutFrom(tf, splitGroups, f)
          /\ \E tf \in splitGroups' : tf.stem = f.stem
          /\ \A tf \in splitGroups : tf.stem # f.stem => tf \in splitGroups'
      BY <1>1, <1>3, <3>2, PutRecord
    <3> QED
      BY <1>8, <2>1, <3>3, <3>4 DEF PutFrom
  <2>2. CASE place # "split"
    <3>1. \A tf \in splitGroups : tf.stem # f.stem
      BY <1>8, <2>2
    <3> QED
      BY <1>6, <1>8, <2>2, <3>1, OtherTells
  <2> QED
    BY <2>1, <2>2
<1>10. /\ OneEach(letterGroups') /\ Tells(letterGroups', R \union {f})
       /\ \A tf \in letterGroups' : by = "import" /\ tf.stem.kind = "letter"
       /\ \A s : (\E tf \in letterGroups : tf.stem = s) => \E tf \in letterGroups' : tf.stem = s
       /\ place = "letter" => \E tf \in letterGroups' : tf.stem = f.stem
  <2>1. CASE place = "letter"
    <3>1. RecordsOf(f.stem) = letterGroups
      BY <2>1 DEF RecordsOf
    <3>2. letterGroups' = Put(letterGroups, f)
      BY <2>1
    <3>3. OneEach(letterGroups') /\ Tells(letterGroups', R \union {f})
      BY <1>1, <1>2, <1>3, <1>6, <1>7, <3>1, <3>2, PutRecord, PutTells
    <3>4. /\ \A tf \in letterGroups' : PutFrom(tf, letterGroups, f)
          /\ \E tf \in letterGroups' : tf.stem = f.stem
          /\ \A tf \in letterGroups : tf.stem # f.stem => tf \in letterGroups'
      BY <1>1, <1>3, <3>2, PutRecord
    <3> QED
      BY <1>8, <2>1, <3>3, <3>4 DEF PutFrom
  <2>2. CASE place # "letter"
    <3>1. \A tf \in letterGroups : tf.stem # f.stem
      BY <1>8, <2>2
    <3> QED
      BY <1>6, <1>8, <2>2, <3>1, OtherTells
  <2> QED
    BY <2>1, <2>2
<1>11. /\ OneEach(firstPassMap') /\ Tells(firstPassMap', R \union {f})
       /\ \A tf \in firstPassMap' : by = "import" => Ungrouped(tf.stem)
       /\ \A s : (\E tf \in firstPassMap : tf.stem = s) => \E tf \in firstPassMap' : tf.stem = s
       /\ place = "first" => \E tf \in firstPassMap' : tf.stem = f.stem
  <2>1. CASE place = "first"
    <3>1. RecordsOf(f.stem) = firstPassMap
      BY <2>1 DEF RecordsOf
    <3>2. firstPassMap' = Put(firstPassMap, f)
      BY <2>1
    <3>3. OneEach(firstPassMap') /\ Tells(firstPassMap', R \union {f})
      BY <1>1, <1>2, <1>3, <1>6, <1>7, <3>1, <3>2, PutRecord, PutTells
    <3>4. /\ \A tf \in firstPassMap' : PutFrom(tf, firstPassMap, f)
          /\ \E tf \in firstPassMap' : tf.stem = f.stem
          /\ \A tf \in firstPassMap : tf.stem # f.stem => tf \in firstPassMap'
      BY <1>1, <1>3, <3>2, PutRecord
    <3>5. by = "import" => Ungrouped(f.stem)
      BY <2>1 DEF Ungrouped
    <3> QED
      BY <1>8, <2>1, <3>3, <3>4, <3>5 DEF PutFrom
  <2>2. CASE place # "first"
    <3>1. \A tf \in firstPassMap : tf.stem = f.stem => ~Matters(f.ext)
      BY <1>8, <2>2 DEF Ungrouped
    <3> QED
      BY <1>6, <1>8, <2>2, <3>1, OtherTells
  <2> QED
    BY <2>1, <2>2
<1>12. \A g \in R \union {f} : Matters(g.ext) => \E tf \in RecordsOf(g.stem)' : tf.stem = g.stem
  <2>1. \A s : (\E tf \in RecordsOf(s) : tf.stem = s) => \E tf \in RecordsOf(s)' : tf.stem = s
    BY <1>1, <1>9, <1>10, <1>11 DEF RecordsOf
  <2>2. Matters(f.ext) => \E tf \in RecordsOf(f.stem)' : tf.stem = f.stem
    BY <1>1, <1>9, <1>10, <1>11 DEF RecordsOf
  <2> QED
    BY <1>5, <2>1, <2>2
<1>13. by = "import" => \A g \in R \union {f}, h \in unread' :
         g.stem = h.stem /\ h.ext = "in" => g.ext = "in"
  BY <1>1 DEF R, Sorted
<1>14. \A S : Tells(S, R \union {f}) => Tells(S, archive \ unread)'
  BY <1>1, <1>4 DEF Tells
<1>15. \A S : OneEach(S) => OneEach(S)'
  BY DEF OneEach
<1> QED
  BY <1>1, <1>4, <1>9, <1>10, <1>11, <1>12, <1>13, <1>14, <1>15 DEF Sorted, Tells
\* ReadFile puts every file into its place, as long as no answer comes before its input: the
\* record that an input makes is the first of its name.
LEMMA ReadFileSorted ==
    ASSUME TypeOK, Regular, Sorted, NEW f \in unread, ReadFile(f), ~inverted'
    PROVE  Sorted'
<1>1. f \in archive /\ f \in File /\ f \notin archive \ unread
  BY ArchiveFiles DEF TypeOK
<1>2. by = "import" /\ unread' = unread \ {f} /\ UNCHANGED upload
  BY DEF ReadFile
<1>3. f.ext # "in" => \A g \in unread : ~(g.stem = f.stem /\ g.ext = "in")
  BY DEF ReadFile
<1>4. f.stem.kind \in {"split", "letter"} => f.ext # "ans"
  <2>1. f.stem \in Names
    BY <1>1 DEF Names
  <2> QED
    BY <1>1, <1>2, <2>1 DEF Regular, Complete
<1>5. ASSUME NEW S \in {splitGroups, letterGroups}
      PROVE  Collect(S, f) = Put(S, f)
  <2>1. CASE f.ext # "in"
    BY <2>1 DEF Collect
  <2>2. CASE f.ext = "in"
    <3>1. \A tf \in S : tf.stem # f.stem
      <4> SUFFICES ASSUME NEW tf \in S, tf.stem = f.stem PROVE FALSE
        OBVIOUS
      <4>1. PICK g \in archive \ unread : g.stem = f.stem
        BY <1>5 DEF Sorted, Tells
      <4>2. g.ext = "in"
        BY <1>2, <2>2, <4>1 DEF Sorted
      <4>3. g = f
        BY <1>1, <2>2, <4>1, <4>2, OneFile DEF TypeOK
      <4> QED
        BY <1>1, <4>1, <4>3
    <3>2. Put(S, f) = S \union {[Fresh(f.stem) EXCEPT ![f.ext] = f.full]}
      BY <3>1 DEF Put
    <3>3. Collect(S, f) = S \union {[Fresh(f.stem) EXCEPT !.in = f.full]}
      BY <2>2 DEF Collect, AddInput
    <3> QED
      BY <2>2, <3>2, <3>3
  <2> QED
    BY <2>1, <2>2
<1>6. /\ Grouped(f, "split") <=> f.stem.kind = "split"
      /\ Grouped(f, "letter") <=> f.stem.kind = "letter"
  BY <1>4 DEF Grouped
<1> DEFINE place == IF f.stem.kind = "split" THEN "split"
                    ELSE IF f.stem.kind = "letter" THEN "letter" ELSE "first"
<1>7. /\ splitGroups' = IF place = "split" THEN Put(splitGroups, f) ELSE splitGroups
      /\ letterGroups' = IF place = "letter" THEN Put(letterGroups, f) ELSE letterGroups
      /\ firstPassMap' = IF place = "first" THEN Put(firstPassMap, f) ELSE firstPassMap
  BY <1>5, <1>6 DEF ReadFile
<1>8. /\ place \in {"split", "letter", "first", "none"}
      /\ place = "split" <=> by = "import" /\ f.stem.kind = "split"
      /\ place = "letter" <=> by = "import" /\ f.stem.kind = "letter"
      /\ place = "none" <=> ~Matters(f.ext)
  BY <1>2 DEF Matters
<1> HIDE DEF place
<1> QED
  BY <1>2, <1>3, <1>7, <1>8, PutSorted

LEMMA ReadPairSorted ==
    ASSUME TypeOK, Sorted, NEW f \in unread, ReadPair(f)
    PROVE  Sorted'
<1> DEFINE place == IF f.ext = "out" THEN "none" ELSE "first"
<1>1. /\ by = "create" /\ unread' = unread \ {f} /\ UNCHANGED upload
      /\ splitGroups' = IF place = "split" THEN Put(splitGroups, f) ELSE splitGroups
      /\ letterGroups' = IF place = "letter" THEN Put(letterGroups, f) ELSE letterGroups
      /\ firstPassMap' = IF place = "first" THEN Put(firstPassMap, f) ELSE firstPassMap
  BY DEF ReadPair
<1>2. /\ place \in {"split", "letter", "first", "none"}
      /\ place = "split" <=> by = "import" /\ f.stem.kind = "split"
      /\ place = "letter" <=> by = "import" /\ f.stem.kind = "letter"
      /\ place = "none" <=> ~Matters(f.ext)
  BY <1>1 DEF Matters
<1> HIDE DEF place
<1> QED
  BY <1>1, <1>2, PutSorted

-----------------------------------------------------------------------------

\* A set whose members have distinct names is as large as the set of their names.
LEMMA OneEachCardinality ==
    ASSUME NEW S, OneEach(S), IsFiniteSet(Stems(S))
    PROVE  IsFiniteSet(S) /\ Cardinality(S) = Cardinality(Stems(S))
<1> DEFINE name == [x \in S |-> x.stem]
<1>1. name \in Bijection(S, Stems(S))
  <2>1. name \in [S -> Stems(S)]
    BY DEF Stems
  <2>2. \A x, y \in S : name[x] = name[y] => x = y
    BY DEF OneEach
  <2>3. \A s \in Stems(S) : \E x \in S : name[x] = s
    BY DEF Stems
  <2> QED
    BY <2>1, <2>2, <2>3 DEF Bijection, Injection, Surjection, IsInjective
<1> QED
  BY <1>1, FS_Injection, FS_Bijection DEF ExistsBijection, Bijection

LEMMA NamesFinite == archive \in Archives => IsFiniteSet(Names)
<1> SUFFICES ASSUME archive \in Archives PROVE IsFiniteSet(Names)
  OBVIOUS
<1> DEFINE name == [f \in archive |-> f.stem]
<1>1. IsFiniteSet(archive)
  BY ZipAssumption
<1>2. name \in Surjection(archive, Names)
  BY DEF Names, Surjection
<1> QED
  BY <1>1, <1>2, FS_Surjection

LEMMA KeysFinite ==
    ASSUME NEW S, IsFiniteSet(S)
    PROVE  Cardinality(Keys(S)) \in Nat
<1> DEFINE key == [tf \in S |-> tf.stem.key]
<1>1. key \in Surjection(S, Keys(S))
  BY DEF Keys, Surjection
<1>2. IsFiniteSet(Keys(S))
  BY <1>1, FS_Surjection
<1> QED
  BY <1>2, FS_CardinalityType
-----------------------------------------------------------------------------

\* When all is read, every record has its input and its answer, and every name has a record.
LEMMA RecordsComplete ==
    ASSUME TypeOK, Regular, Sorted, unread = {}
    PROVE  /\ \A S \in {splitGroups, letterGroups, firstPassMap} : \A tf \in S :
                tf.stem \in Names /\ tf.in /\ HasAnswer(tf)
           /\ \A s \in Names : \E tf \in RecordsOf(s) : tf.stem = s
<1>1. \A s \in Names : Complete(s)
  BY DEF Regular
<1>2. \A f \in archive : f \in archive \ unread
  OBVIOUS
<1>3. ASSUME NEW S \in {splitGroups, letterGroups, firstPassMap}, NEW tf \in S
      PROVE  tf.stem \in Names /\ tf.in /\ HasAnswer(tf)
  <2>1. Tells(S, archive \ unread)
    BY <1>3 DEF Sorted
  <2>2. tf.stem \in Names
    BY <2>1 DEF Tells, Names
  <2>3. \A e \in Exts : Has(tf.stem, e) /\ Matters(e) => tf[e]
    BY <1>2, <2>1 DEF Tells, Has
  <2>4. /\ Has(tf.stem, "in") => tf.in
        /\ Has(tf.stem, "ans") => tf.ans
        /\ by # "create" /\ Has(tf.stem, "out") => tf.out
    BY <2>3 DEF Exts, Matters
  <2>5. Complete(tf.stem)
    BY <1>1, <2>2
  <2> QED
    BY <2>2, <2>4, <2>5 DEF Complete, HasAnswer
<1>4. ASSUME NEW s \in Names
      PROVE  \E tf \in RecordsOf(s) : tf.stem = s
  <2>1. PICK f \in archive \ unread : f.stem = s /\ f.ext = "in"
    BY <1>1, <1>2 DEF Complete, Has
  <2> QED
    BY <2>1 DEF Sorted, Matters
<1> QED
  BY <1>3, <1>4

\* The guess is right: the records are those of the archive's kind of names.
LEMMA RightGuess ==
    ASSUME TypeOK, Regular, Sorted, ChoosePattern, stage' = "writing",
           NEW s \in Names
    PROVE  pattern' = PatternOf(s) /\ left' = RecordsOf(s)
<1>1. unread = {} /\ ~NothingFound
  BY DEF ChoosePattern
<1>2. \A S \in {splitGroups, letterGroups, firstPassMap} : \A tf \in S :
        tf.stem \in Names /\ tf.stem.kind = s.kind
  BY <1>1, RecordsComplete DEF Regular
<1>3. \E tf \in RecordsOf(s) : tf.stem = s
  BY <1>1, RecordsComplete
<1>4. ASSUME NEW S \in {splitGroups, letterGroups}
      PROVE  Cardinality(Keys(S)) \in Nat
  <2>1. Stems(S) \subseteq Names
    BY <1>2 DEF Stems
  <2>2. IsFiniteSet(Stems(S))
    BY <2>1, NamesFinite, FS_Subset DEF TypeOK
  <2>3. OneEach(S)
    BY DEF Sorted
  <2> QED
    BY <2>2, <2>3, OneEachCardinality, KeysFinite
<1>5. /\ \A tf \in splitGroups : s.kind = "split"
      /\ \A tf \in letterGroups : s.kind = "letter"
      /\ \A tf \in firstPassMap : by = "import" => s.kind \notin {"split", "letter"}
  BY <1>2 DEF Sorted, Ungrouped
<1>6. Cardinality({}) = 0
  BY FS_EmptySet
<1>7. CASE by = "create"
  BY <1>1, <1>7 DEF ChoosePattern, PatternOf, RecordsOf
<1>8. CASE by = "import" /\ s.kind = "split"
  <2>1. firstPassMap = {} /\ splitGroups # {}
    BY <1>3, <1>5, <1>8 DEF RecordsOf
  <2>2. Prevails(splitGroups)
    BY <1>4, <1>6, <2>1 DEF Prevails
  <2> QED
    BY <1>1, <1>8, <2>2 DEF ChoosePattern, PatternOf, RecordsOf
<1>9. CASE by = "import" /\ s.kind = "letter"
  <2>1. firstPassMap = {} /\ splitGroups = {} /\ letterGroups # {}
    BY <1>3, <1>5, <1>9 DEF RecordsOf
  <2>2. ~Prevails(splitGroups) /\ Prevails(letterGroups)
    BY <1>4, <1>6, <2>1 DEF Prevails
  <2> QED
    BY <1>1, <1>9, <2>2 DEF ChoosePattern, PatternOf, RecordsOf
<1>10. CASE by = "import" /\ s.kind \notin {"split", "letter"}
  <2>1. splitGroups = {} /\ letterGroups = {} /\ firstPassMap # {}
    BY <1>3, <1>5, <1>10 DEF RecordsOf
  <2>2. ~Prevails(splitGroups) /\ ~Prevails(letterGroups)
    BY <2>1 DEF Prevails
  <2>3. HasAlphaSuffix <=> s.kind = "word"
    BY <1>2, <1>10, <2>1 DEF HasAlphaSuffix
  <2>4. s.kind \in {"number", "word", "name"}
    <3>1. s \in Stem
      BY ArchiveFiles DEF TypeOK, Names, File
    <3> QED
      BY <1>10, <3>1 DEF Stem
  <2>5. pattern' = SimplePattern /\ left' = firstPassMap
    BY <1>1, <1>10, <2>2 DEF ChoosePattern
  <2> QED
    BY <1>10, <2>3, <2>4, <2>5 DEF SimplePattern, PatternOf, RecordsOf
<1> QED
  BY <1>7, <1>8, <1>9, <1>10 DEF TypeOK

\* The names of what is left are those of the archive, each once.
LEMMA LeftAtFirst ==
    ASSUME TypeOK, Regular, Sorted, ChoosePattern, stage' = "writing"
    PROVE  /\ left' \in {splitGroups, letterGroups, firstPassMap}
           /\ Stems(left') = Names
<1>1. unread = {} /\ ~NothingFound
  BY DEF ChoosePattern
<1>2. left' \in {splitGroups, letterGroups, firstPassMap}
  BY <1>1 DEF ChoosePattern
<1>3. Stems(left') \subseteq Names
  BY <1>1, <1>2, RecordsComplete DEF Stems
<1>4. ASSUME NEW s \in Names
      PROVE  s \in Stems(left')
  BY <1>1, RightGuess, RecordsComplete DEF Stems
<1> QED
  BY <1>2, <1>3, <1>4

LEMMA ChooseMeant ==
    ASSUME TypeOK, MeantInv, ChoosePattern
    PROVE  MeantInv'
<1>1. UNCHANGED <<upload, unread, collected, archive, by, inverted, tests, idx, group, groups>>
  BY DEF ChoosePattern, upload
<1> SUFFICES ASSUME Regular, ~inverted, stage' = "writing"
             PROVE  unread' = {} /\ Divided' /\ Numbered' /\ Ordered' /\ Gathered' /\ Sorted'
  <2>1. Sorted => Sorted'
    BY <1>1 DEF Sorted, Tells, OneEach, RecordsOf, Matters, collected
  <2>2. stage' \in {"writing", "refused"}
    BY DEF ChoosePattern
  <2> QED
    BY <1>1, <2>1, <2>2, SameUpload DEF MeantInv
<1>2. Sorted /\ unread = {} /\ tests = {} /\ idx = 0 /\ group = NoGroup
  BY DEF MeantInv, ChoosePattern
<1>3. Sorted'
  BY <1>1, <1>2 DEF Sorted, Tells, OneEach, RecordsOf, Matters, collected
<1>4. /\ left' \in {splitGroups, letterGroups, firstPassMap}
      /\ Stems(left') = Names
      /\ Names' = Names
  BY <1>1, <1>2, LeftAtFirst, SameUpload
<1>5. OneEach(left') /\ \A tf \in left' : tf.in /\ HasAnswer(tf)
  BY <1>2, <1>4, RecordsComplete DEF Sorted
<1>6. IsFiniteSet(left') /\ Cardinality(left') = Cardinality(Names)
  BY <1>4, <1>5, NamesFinite, OneEachCardinality DEF TypeOK
<1>7. Divided'
  <2>1. \A s \in Names : pattern' = PatternOf(s) /\ (PatternOf(s)' = PatternOf(s))
    BY <1>1, <1>2, RightGuess DEF PatternOf
  <2>2. OneEach(left)' /\ OneEach(tests)'
    BY <1>1, <1>2, <1>5 DEF OneEach
  <2>3. Stems(tests)' = {} /\ Stems(left)' = Names
    BY <1>1, <1>2, <1>4 DEF Stems
  <2>4. \A tf \in left' : tf.in /\ HasAnswer(tf)'
    BY <1>5 DEF HasAnswer
  <2> QED
    BY <1>1, <1>2, <1>4, <2>1, <2>2, <2>3, <2>4 DEF Divided
<1>8. Numbered'
  <2>1. Cardinality(Names) \in Nat
    BY NamesFinite, FS_CardinalityType DEF TypeOK
  <2> QED
    BY <1>1, <1>2, <1>4, <1>6, <2>1 DEF Numbered
<1>9. Ordered' /\ Gathered'
  BY <1>1, <1>2 DEF Ordered, Gathered
<1> QED
  BY <1>1, <1>2, <1>3, <1>7, <1>8, <1>9
-----------------------------------------------------------------------------

\* Names belong together when their groups are the same.
LEMMA TogetherGroups ==
    ASSUME NEW s \in Stem, NEW r \in Stem, s.kind = r.kind,
           by \in {"import", "create"}, pattern = PatternOf(s)
    PROVE  Together(s, r) <=> GroupOf(s) = GroupOf(r)
<1> DEFINE Whole(x) == [x EXCEPT !.sub = 0]
<1>1. Whole(s) = Whole(r) <=> s.key = r.key
  BY DEF Stem
<1>2. CASE pattern = "simple"
  BY <1>2 DEF GroupOf, PatternOf, Together, Stem
<1>3. CASE pattern = "split"
  <2>1. by = "import" /\ s.kind = "split"
    BY <1>3 DEF PatternOf
  <2>2. GroupOf(s) = Whole(s) /\ GroupOf(r) = Whole(r)
    BY <1>3 DEF GroupOf
  <2> HIDE DEF Whole
  <2> QED
    BY <1>1, <2>1, <2>2 DEF Together
<1>4. CASE pattern = "letter"
  <2>1. by = "import" /\ s.kind \in {"letter", "word"}
    BY <1>4 DEF PatternOf, Stem
  <2>2. GroupOf(s) = Whole(s) /\ GroupOf(r) = Whole(r)
    BY <1>4, <2>1 DEF GroupOf
  <2> HIDE DEF Whole
  <2> QED
    BY <1>1, <2>1, <2>2 DEF Together
<1> QED
  BY <1>2, <1>3, <1>4 DEF PatternOf

\* Names are well formed, of one kind, and numbers have no second part.
LEMMA NamesAlike ==
    ASSUME TypeOK, Regular, NEW s \in Names, NEW r \in Names
    PROVE  /\ s \in Stem /\ r \in Stem /\ s.kind = r.kind
           /\ s.key = r.key /\ s.sub = r.sub => s = r
           /\ s.kind = "number" => s.sub = 0
           /\ s.key \in Nat /\ s.sub \in Nat
<1>1. s \in Stem /\ r \in Stem
  BY ArchiveFiles DEF TypeOK, Names, File
<1>2. s.kind = r.kind
  BY DEF Regular
<1>3. s.kind = "number" => s.sub = 0
  BY ZipAssumption DEF TypeOK, Names
<1> QED
  BY <1>1, <1>2, <1>3 DEF Stem

\* Who has the turn comes before all that are left, and stays in the group if any is left of it.
LEMMA FirstInTurn ==
    ASSUME TypeOK, Regular, Divided, Ordered, Gathered,
           NEW tf \in left, tf \in Candidates, NEW o \in left, o # tf
    PROVE  /\ Precedes(tf.stem, o.stem)
           /\ GroupOf(o.stem) = group => GroupOf(tf.stem) = group
<1> DEFINE s == tf.stem
           r == o.stem
           same == {x \in left : GroupOf(x.stem) = group}
<1>1. s \in Names /\ r \in Names /\ pattern = PatternOf(s) /\ pattern = PatternOf(r)
  BY DEF Divided, Stems
<1>2. s # r
  BY DEF Divided, OneEach
<1>3. /\ s \in Stem /\ r \in Stem /\ s.kind = r.kind
      /\ s.key = r.key => s.sub # r.sub
      /\ s.kind = "number" => s.sub = 0 /\ r.sub = 0
      /\ s.key \in Nat /\ s.sub \in Nat /\ r.key \in Nat /\ r.sub \in Nat
  BY <1>1, <1>2, NamesAlike
<1>4. by \in {"import", "create"}
  BY DEF TypeOK
<1>5. same # {} =>
        /\ GroupOf(s) = group
        /\ GroupOf(r) = group => s.sub <= r.sub
  BY DEF Candidates
<1>6. same = {} =>
        /\ Rank(s) <= Rank(r)
        /\ GroupOf(r) = GroupOf(s) => s.sub <= r.sub
        /\ GroupOf(r) # group
  BY DEF Candidates
<1>7. GroupOf(r) = group => GroupOf(s) = group
  BY <1>5, <1>6
<1>8. same # {} => \E t \in tests : GroupOf(t.stem) = GroupOf(s)
  <2> SUFFICES ASSUME same # {} PROVE \E t \in tests : GroupOf(t.stem) = group
    BY <1>5
  <2>1. group # NoGroup
    BY <1>3, <1>5, GroupOfType
  <2> QED
    BY <2>1 DEF Gathered
<1>9. Together(s, r) <=> GroupOf(s) = GroupOf(r)
  BY <1>1, <1>3, <1>4, TogetherGroups
<1>10. GroupOf(s) = GroupOf(r) => s.sub <= r.sub
  BY <1>5, <1>6
<1> HIDE DEF same, s, r
<1>11. ASSUME s.kind = "name" \/ (by = "create" /\ s.kind # "number")
      PROVE  Precedes(s, r)
  BY <1>3, <1>11 DEF Precedes
<1>12. ASSUME s.kind = "number"
      PROVE  Precedes(s, r)
  <2>1. same = {}
    <3> SUFFICES ASSUME same # {} PROVE FALSE
      OBVIOUS
    <3>1. PICK t \in tests : GroupOf(t.stem) = GroupOf(s)
      BY <1>8
    <3>2. pattern = "simple"
      BY <1>1, <1>12 DEF PatternOf
    <3>3. t.stem = s
      BY <3>1, <3>2 DEF GroupOf
    <3> QED
      BY <3>3 DEF Divided, Stems, s
  <2>2. Rank(s) = s.key /\ Rank(r) = r.key
    BY <1>3, <1>12 DEF Rank
  <2> QED
    BY <1>3, <1>6, <1>12, <2>1, <2>2 DEF Precedes
<1>13. ASSUME by = "import" /\ s.kind = "word"
      PROVE  Precedes(s, r)
  <2>1. s.key = r.key => s.sub < r.sub
    BY <1>3, <1>9, <1>10, <1>13 DEF Together
  <2> QED
    BY <1>3, <1>13, <2>1 DEF Precedes
<1>14. ASSUME by = "import" /\ s.kind \in {"split", "letter"}
      PROVE  Precedes(s, r)
  <2>1. s.key = r.key => s.sub < r.sub
    BY <1>3, <1>9, <1>10, <1>14 DEF Together
  <2>2. s.key <= r.key
    <3>1. CASE same = {}
      <4>1. Rank(s) = s.key /\ Rank(r) = r.key
        BY <1>1, <1>3, <1>14 DEF Rank, PatternOf
      <4> QED
        BY <1>6, <3>1, <4>1
    <3>2. CASE same # {}
      <4>1. PICK t \in tests : GroupOf(t.stem) = GroupOf(s)
        BY <1>8, <3>2
      <4>2. t.stem \in Names /\ Precedes(t.stem, r)
        BY DEF Divided, Stems, Ordered, r
      <4>3. /\ t.stem \in Stem /\ t.stem.kind = s.kind
            /\ t.stem.key \in Nat
        BY <1>1, <4>2, NamesAlike
      <4>4. t.stem.key <= r.key
        BY <1>3, <1>14, <4>2, <4>3 DEF Precedes
      <4>5. Together(s, t.stem)
        BY <1>1, <1>3, <1>4, <4>1, <4>3, TogetherGroups
      <4>6. t.stem.key = s.key
        BY <4>5 DEF Together
      <4> QED
        BY <4>4, <4>6
    <3> QED
      BY <3>1, <3>2
  <2> QED
    BY <1>3, <2>1, <2>2 DEF Precedes
<1>15. s.kind \in {"split", "letter", "number", "word", "name"}
  BY <1>3 DEF Stem
<1>16. Precedes(s, r)
  BY <1>4, <1>11, <1>12, <1>13, <1>14, <1>15
<1> QED
  BY <1>7, <1>16 DEF s, r
-----------------------------------------------------------------------------

\* A record that is left of a regular archive is written.
LEMMA WriteDivided ==
    ASSUME ZipInv, Regular, unread = {}, Divided, Numbered, NEW tf \in left, WriteTest(tf)
    PROVE  Divided' /\ Numbered'
<1> DEFINE t == [n |-> idx', stem |-> tf.stem, in |-> tf.in, ans |-> HasAnswer(tf)]
<1>1. /\ stage = "writing" /\ UNCHANGED <<upload, stage, pattern>>
      /\ left' = left \ {tf} /\ idx' = idx + 1 /\ idx \in Nat
      /\ tests' = tests \union {t}
  BY DEF WriteTest, Turn, ZipInv, TypeOK
<1>2. t.n = idx' /\ t.stem = tf.stem /\ (t.in = tf.in) /\ (t.ans = HasAnswer(tf))
  OBVIOUS
<1> HIDE DEF t
<1>3. Stems(left') = Stems(left) \ {tf.stem}
  BY <1>1 DEF Divided, OneEach, Stems
<1>4. Stems(tests') = Stems(tests) \union {tf.stem}
  BY <1>1, <1>2 DEF Stems
<1>5. tf.stem \in Stems(left)
  BY DEF Stems
<1>6. OneEach(left') /\ OneEach(tests')
  <2>1. \A u \in tests : u.stem # tf.stem
    BY <1>5 DEF Divided, Stems
  <2> QED
    BY <1>1, <1>2, <2>1 DEF Divided, OneEach
<1>7. Divided'
  <2>1. OneEach(left)' /\ OneEach(tests)' /\ Stems(left)' = Stems(left') /\ Stems(tests)' = Stems(tests')
    BY <1>6 DEF OneEach, Stems
  <2>2. Names' = Names /\ \A x : PatternOf(x)' = PatternOf(x) /\ (HasAnswer(x)' <=> HasAnswer(x))
    BY <1>1, SameUpload DEF PatternOf, HasAnswer
  <2>3. \A u \in tests' : u.in /\ u.ans
    BY <1>1, <1>2 DEF Divided
  <2>4. /\ Names = Stems(tests') \union Stems(left')
        /\ Stems(tests') \intersect Stems(left') = {}
    BY <1>3, <1>4, <1>5 DEF Divided
  <2> QED
    BY <1>1, <2>1, <2>2, <2>3, <2>4 DEF Divided
<1>8. Numbered'
  <2>1. {u.n : u \in tests'} = 1..idx'
    <3>1. {u.n : u \in tests'} = {u.n : u \in tests} \union {idx'}
      BY <1>1, <1>2
    <3>2. 1..idx' = 1..idx \union {idx'}
      BY <1>1
    <3> QED
      BY <3>1, <3>2 DEF Numbered
  <2>2. IsFiniteSet(left') /\ Cardinality(left') = Cardinality(left) - 1
    BY <1>1, FS_RemoveElement DEF Numbered
  <2>3. Cardinality(left) \in Nat /\ Cardinality(Names) \in Nat
    BY FS_CardinalityType, NamesFinite DEF Numbered, ZipInv, TypeOK
  <2>4. Names' = Names
    BY <1>1, SameUpload
  <2>5. idx + Cardinality(left) = Cardinality(Names)
    BY DEF Numbered
  <2>6. idx' + Cardinality(left') = Cardinality(Names)
    BY <1>1, <2>2, <2>3, <2>5
  <2> QED
    BY <2>1, <2>2, <2>4, <2>6 DEF Numbered
<1> QED
  BY <1>7, <1>8

LEMMA WriteOrdered ==
    ASSUME ZipInv, Regular, Divided, Numbered, Ordered, Gathered, NEW tf \in left, WriteTest(tf)
    PROVE  Ordered'
<1> DEFINE t == [n |-> idx', stem |-> tf.stem, in |-> tf.in, ans |-> HasAnswer(tf)]
<1>1. /\ UNCHANGED upload /\ tf \in Candidates
      /\ left' = left \ {tf} /\ idx' = idx + 1 /\ idx \in Nat
      /\ tests' = tests \union {t}
  BY DEF WriteTest, Turn, ZipInv, TypeOK
<1>2. t.n = idx' /\ t.stem = tf.stem
  OBVIOUS
<1> HIDE DEF t
<1>3. \A s, r : Precedes(s, r)' <=> Precedes(s, r)
  BY <1>1 DEF Precedes, upload
<1>4. \A u \in tests : u.n \in 1..idx
  BY DEF Numbered
<1>5. ASSUME NEW u \in tests', NEW v \in tests', u.n < v.n
      PROVE  Precedes(u.stem, v.stem)
  <2>1. u \in tests
    BY <1>1, <1>2, <1>4, <1>5
  <2>2. CASE v \in tests
    BY <1>5, <2>1, <2>2 DEF Ordered
  <2>3. CASE v = t
    BY <1>2, <2>1, <2>3 DEF Ordered
  <2> QED
    BY <1>1, <2>2, <2>3
<1>6. ASSUME NEW u \in tests', NEW o \in left'
      PROVE  Precedes(u.stem, o.stem)
  <2>1. o \in left /\ o # tf
    BY <1>1
  <2>2. CASE u \in tests
    BY <2>1, <2>2 DEF Ordered
  <2>3. CASE u = t
    BY <1>1, <1>2, <2>1, <2>3, FirstInTurn DEF ZipInv
  <2> QED
    BY <1>1, <2>2, <2>3
<1> QED
  BY <1>3, <1>5, <1>6 DEF Ordered

LEMMA WriteGathered ==
    ASSUME ZipInv, Regular, Divided, Numbered, Ordered, Gathered, NEW tf \in left, WriteTest(tf)
    PROVE  Gathered'
<1> DEFINE t == [n |-> idx', stem |-> tf.stem, in |-> tf.in, ans |-> HasAnswer(tf)]
           G == Opened(tf)
           last == Len(G)
           g == GroupOf(tf.stem)
<1>1. /\ tf \in Candidates /\ stage = "writing" /\ pattern' = pattern
      /\ left' = left \ {tf} /\ idx' = idx + 1 /\ idx \in Nat
      /\ tests' = tests \union {t} /\ group' = g
      /\ groups' = [G EXCEPT ![last] = @ \union {idx'}]
  BY DEF WriteTest, Turn, ZipInv, TypeOK
<1>2. t.n = idx' /\ t.stem = tf.stem
  OBVIOUS
<1> HIDE DEF t
<1>3. tf \in TestFile /\ tf.stem \in Stem
  BY DEF ZipInv, TypeOK, TestFile
<1>4. /\ G \in Seq(SUBSET Nat) /\ last \in Nat \ {0} /\ DOMAIN G = 1..last
      /\ \/ G = groups
         \/ /\ DOMAIN G = DOMAIN groups \union {last}
            /\ last \notin DOMAIN groups
            /\ \A i \in DOMAIN groups : G[i] = groups[i]
            /\ G[last] = {}
  <2>1. groups \in Seq(SUBSET Nat)
    BY DEF ZipInv, TypeOK
  <2>2. /\ G \in Seq(SUBSET Nat) /\ last \in Nat \ {0} /\ DOMAIN G = 1..last
        /\ \/ G = groups
           \/ /\ DOMAIN G = DOMAIN groups \union {Len(groups) + 1}
              /\ \A i \in DOMAIN groups : G[i] = groups[i]
              /\ G[Len(groups) + 1] = {}
              /\ last = Len(groups) + 1
    BY <1>1, <1>3, OpenedGroups DEF ZipInv
  <2>3. Len(groups) + 1 \notin DOMAIN groups
    BY <2>1
  <2> HIDE DEF G, last
  <2> QED
    BY <2>2, <2>3
<1>5. /\ DOMAIN groups' = DOMAIN G /\ Len(groups') = last /\ last \in DOMAIN G
      /\ groups'[last] = G[last] \union {idx'}
      /\ \A i \in DOMAIN G \ {last} : groups'[i] = G[i]
  <2> HIDE DEF G
  <2> QED
    BY <1>1, <1>4
<1>6. g = group => G = groups
  BY DEF Opened
<1>7. g # group => G[last] = {}
  <2>1. groups \in Seq(SUBSET Nat)
    BY DEF ZipInv, TypeOK
  <2> QED
    BY <2>1 DEF Opened
<1>8. \A s : GroupOf(s)' = GroupOf(s)
  BY <1>1 DEF GroupOf
<1>9. \A u \in tests : u.n # idx'
  <2>1. \A u \in tests : u.n \in 1..idx
    BY DEF Numbered
  <2> QED
    BY <1>1, <2>1
<1>10. \A i \in DOMAIN groups : idx' \notin groups[i]
  BY <1>1 DEF ZipInv, Filed
<1>11. g # NoGroup
  BY <1>3, GroupOfType
<1>12. \A u \in tests : GroupOf(u.stem) = g => GroupOf(u.stem) = group
  BY DEF Gathered
<1>13. \A o \in left : o # tf /\ GroupOf(o.stem) = group => g = group
  BY <1>1, FirstInTurn DEF ZipInv
<1> HIDE DEF G, last, g
<1>14. \A i \in DOMAIN groups' : idx' \in groups'[i] <=> i = last
  BY <1>4, <1>5, <1>10
<1>15. \A u \in tests : u.n \in groups'[last] <=> GroupOf(u.stem) = g
  <2>1. CASE g = group
    <3>1. \A u \in tests : u.n \in groups[last] <=> GroupOf(u.stem) = group
      BY <1>6, <2>1 DEF Gathered, last
    <3> QED
      BY <1>5, <1>6, <1>9, <2>1, <3>1
  <2>2. CASE g # group
    BY <1>5, <1>7, <1>9, <1>12, <2>2
  <2> QED
    BY <2>1, <2>2
<1>16. \A u, v \in tests :
         (\E i \in DOMAIN groups' : {u.n, v.n} \subseteq groups'[i])
           <=> \E i \in DOMAIN groups : {u.n, v.n} \subseteq groups[i]
  <2>1. \A u \in tests : \A i \in DOMAIN groups' :
          u.n \in groups'[i] <=> i \in DOMAIN groups /\ u.n \in groups[i]
    BY <1>4, <1>5, <1>9
  <2>2. \A i \in DOMAIN groups : i \in DOMAIN groups'
    BY <1>4, <1>5
  <2> QED
    BY <2>1, <2>2
<1>17. ASSUME NEW u \in tests', NEW v \in tests'
       PROVE  GroupOf(u.stem) = GroupOf(v.stem)
                <=> \E i \in DOMAIN groups' : {u.n, v.n} \subseteq groups'[i]
  <2>1. CASE u \in tests /\ v \in tests
    BY <1>16, <2>1 DEF Gathered
  <2>2. ASSUME NEW w \in tests
        PROVE  GroupOf(w.stem) = g
                 <=> \E i \in DOMAIN groups' : {w.n, idx'} \subseteq groups'[i]
    BY <1>5, <1>14, <1>15
  <2>3. CASE u \in tests /\ v = t
    BY <1>2, <2>2, <2>3 DEF g
  <2>4. CASE u = t /\ v \in tests
    <3>1. {u.n, v.n} = {v.n, idx'}
      BY <1>2, <2>4
    <3> QED
      BY <1>2, <2>2, <2>4, <3>1 DEF g
  <2>5. CASE u = t /\ v = t
    BY <1>2, <1>5, <1>14, <2>5
  <2> QED
    BY <1>1, <2>1, <2>3, <2>4, <2>5
<1>18. \A u \in tests' : u.n \in groups'[Len(groups')] <=> GroupOf(u.stem) = group'
  <2>1. CASE \A u \in tests' : u \in tests \/ u = t
    BY <1>1, <1>2, <1>5, <1>14, <1>15, <2>1 DEF g
  <2> QED
    BY <1>1, <2>1
<1>19. ASSUME NEW u \in tests', NEW o \in left', GroupOf(u.stem) = GroupOf(o.stem)
       PROVE  GroupOf(u.stem) = group'
  <2>1. o \in left /\ o # tf
    BY <1>1
  <2>2. CASE u \in tests
    <3>1. GroupOf(u.stem) = group
      BY <1>19, <2>1, <2>2 DEF Gathered
    <3>2. g = group
      BY <1>13, <1>19, <2>1, <3>1
    <3> QED
      BY <1>1, <3>1, <3>2
  <2>3. CASE u = t
    BY <1>1, <1>2, <2>3 DEF g
  <2> QED
    BY <1>1, <2>2, <2>3
<1>20. \E u \in tests' : GroupOf(u.stem) = group'
  BY <1>1, <1>2 DEF g
<1> QED
  BY <1>8, <1>17, <1>18, <1>19, <1>20 DEF Gathered
-----------------------------------------------------------------------------

LEMMA InitMeant == Init => MeantInv
<1> SUFFICES ASSUME Init PROVE MeantInv
  OBVIOUS
<1>1. archive \ unread = {} /\ splitGroups = {} /\ letterGroups = {} /\ firstPassMap = {}
  BY DEF Init
<1>2. Sorted
  BY <1>1 DEF Sorted, OneEach, Tells
<1> QED
  BY <1>2 DEF Init, MeantInv

\* A step that keeps the records and the tests as they are.
LEMMA MeantQuiet ==
    ASSUME MeantInv, UNCHANGED <<upload, unread, collected, pattern, left, group, idx, groups,
                                 tests, inverted>>,
           stage' # "writing" /\ stage # stage' => left = {} \/ stage' = "failed",
           stage' = "reading" => stage = "reading",
           stage' \in {"writing", "saving", "done"} => stage \in {"writing", "saving", "done"},
           stage' = "writing" => stage = "writing"
    PROVE  MeantInv'
<1>1. /\ Regular' <=> Regular
      /\ Names' = Names /\ archive' = archive /\ by' = by
  BY SameUpload
<1>2. Sorted => Sorted'
  BY <1>1 DEF Sorted, Tells, OneEach, RecordsOf, Matters, collected
<1>3. Divided /\ stage' # "failed" => Divided'
  BY <1>1 DEF Divided, Stems, OneEach, PatternOf, HasAnswer
<1>4. Numbered => Numbered'
  BY <1>1 DEF Numbered
<1>5. Ordered => Ordered'
  BY <1>1 DEF Ordered, Precedes
<1>6. Gathered => Gathered'
  BY DEF Gathered, GroupOf
<1> QED
  BY <1>1, <1>2, <1>3, <1>4, <1>5, <1>6 DEF MeantInv

LEMMA NextMeant == ZipInv /\ MeantInv /\ [Next]_vars => MeantInv'
<1> SUFFICES ASSUME ZipInv, MeantInv, [Next]_vars PROVE MeantInv'
  OBVIOUS
<1>1. TypeOK
  BY DEF ZipInv
<1>2. ASSUME NEW f \in unread, ReadFile(f) PROVE MeantInv'
  <2>1. /\ stage = "reading" /\ (inverted => inverted')
        /\ UNCHANGED <<upload, stage, group, idx, tests>>
    BY <1>2 DEF ReadFile
  <2>2. Regular /\ Sorted /\ ~inverted' => Sorted'
    BY <1>1, <1>2, ReadFileSorted
  <2> QED
    BY <2>1, <2>2, SameUpload DEF MeantInv
<1>3. ASSUME NEW f \in unread, ReadPair(f) PROVE MeantInv'
  <2>1. /\ stage = "reading"
        /\ UNCHANGED <<upload, stage, group, idx, tests, inverted>>
    BY <1>3 DEF ReadPair
  <2>2. Sorted => Sorted'
    BY <1>1, <1>3, ReadPairSorted
  <2> QED
    BY <2>1, <2>2, SameUpload DEF MeantInv
<1>4. CASE ChoosePattern
  BY <1>1, <1>4, ChooseMeant
<1>5. ASSUME NEW tf \in left, Refuse(tf) PROVE MeantInv'
  <2>1. stage = "writing" /\ ~(HasAnswer(tf) /\ tf.in) /\ UNCHANGED <<upload, inverted>>
    BY <1>5 DEF Refuse, Turn
  <2>2. ~(Regular /\ ~inverted)
    BY <2>1 DEF MeantInv, Divided
  <2> QED
    BY <2>1, <2>2, SameUpload DEF MeantInv
<1>6. ASSUME NEW tf \in left, Skip(tf) PROVE MeantInv'
  <2>1. stage = "writing" /\ ~HasAnswer(tf) /\ UNCHANGED <<upload, inverted>>
    BY <1>6 DEF Skip, Turn
  <2>2. ~(Regular /\ ~inverted)
    BY <2>1 DEF MeantInv, Divided
  <2> QED
    BY <2>1, <2>2, SameUpload DEF MeantInv
<1>7. ASSUME NEW tf \in left, WriteTest(tf) PROVE MeantInv'
  <2>1. stage = "writing" /\ UNCHANGED <<upload, unread, collected, stage, inverted>>
    BY <1>7 DEF WriteTest, Turn
  <2>2. Sorted => Sorted'
    BY <2>1 DEF Sorted, Tells, OneEach, RecordsOf, Matters, collected, upload
  <2> SUFFICES ASSUME Regular, ~inverted
               PROVE  Divided' /\ Numbered' /\ Ordered' /\ Gathered'
    BY <2>1, <2>2, SameUpload DEF MeantInv
  <2>3. unread = {} /\ Divided /\ Numbered /\ Ordered /\ Gathered
    BY <2>1 DEF MeantInv
  <2> QED
    BY <1>7, <2>3, WriteDivided, WriteOrdered, WriteGathered
<1>8. CASE WriteConfig \/ SaveCount
  <2>1. /\ UNCHANGED <<upload, unread, collected, pattern, left, group, idx, groups, tests,
                       inverted>>
        /\ stage \in {"writing", "saving"} /\ stage' \in {"saving", "done"}
        /\ stage = "writing" => left = {}
    BY <1>8 DEF WriteConfig, SaveCount
  <2>2. CASE Regular /\ ~inverted
    <3>1. left = {}
      BY <2>1, <2>2 DEF MeantInv, Divided
    <3> QED
      BY <2>1, <3>1, MeantQuiet
  <2>3. CASE ~(Regular /\ ~inverted)
    BY <2>1, <2>3, SameUpload DEF MeantInv
  <2> QED
    BY <2>2, <2>3
<1>9. CASE Fail
  BY <1>9, MeantQuiet DEF Fail
<1>10. CASE UNCHANGED vars
  BY <1>10, MeantQuiet DEF vars
<1> QED
  BY <1>2, <1>3, <1>4, <1>5, <1>6, <1>7, <1>8, <1>9, <1>10 DEF Next

(***************************************************************************)
(* For archives of any size, in every order in which no answer comes       *)
(* before its input: a regular archive becomes one test for each name,     *)
(* counted and numbered in the order of the names, in one group with the   *)
(* others of its key (ImportDataZipHandler, CreateProblemHandler).         *)
(***************************************************************************)
THEOREM ArchiveImportedAlways == Spec => []ArchiveImported
<1>1. Init => ZipInv /\ MeantInv
  BY InitZipInv, InitMeant
<1>2. ZipInv /\ MeantInv /\ [Next]_vars => (ZipInv /\ MeantInv)'
  BY NextZipInv, NextMeant
<1>3. ZipInv /\ MeantInv => ArchiveImported
  <2> SUFFICES ASSUME ZipInv, MeantInv, stage = "done", Regular, ~inverted
               PROVE  /\ {t.stem : t \in tests} = Names
                      /\ \A t \in tests : t.in /\ t.ans
                      /\ {t.n : t \in tests} = 1..Cardinality(Names)
                      /\ count = Cardinality(Names)
                      /\ \A t, u \in tests :
                           /\ t.n < u.n => Precedes(t.stem, u.stem)
                           /\ Together(t.stem, u.stem) <=>
                                \E i \in DOMAIN config : {t.n, u.n} \subseteq config[i].cases
    BY DEF ArchiveImported
  <2>1. Divided /\ Numbered /\ Ordered /\ Gathered
    BY DEF MeantInv
  <2>2. left = {}
    BY <2>1 DEF Divided
  <2>3. idx = Cardinality(Names)
    <3>1. Cardinality(left) = 0 /\ idx \in Nat
      BY <2>2, FS_EmptySet DEF ZipInv, TypeOK
    <3> QED
      BY <2>1, <3>1 DEF Numbered
  <2>4. {t.stem : t \in tests} = Names
    BY <2>1, <2>2 DEF Divided, Stems
  <2>5. /\ count = idx
        /\ DOMAIN config = DOMAIN groups
        /\ \A i \in DOMAIN groups : config[i].cases = groups[i]
    BY DEF ZipInv, Written
  <2>6. ASSUME NEW t \in tests, NEW u \in tests
        PROVE  Together(t.stem, u.stem) <=>
                 \E i \in DOMAIN config : {t.n, u.n} \subseteq config[i].cases
    <3>1. t.stem \in Names /\ u.stem \in Names
      BY <2>4
    <3>2. t.stem \in Stem /\ u.stem \in Stem /\ t.stem.kind = u.stem.kind
      BY <3>1, NamesAlike DEF ZipInv
    <3>3. Together(t.stem, u.stem) <=> GroupOf(t.stem) = GroupOf(u.stem)
      BY <2>1, <3>1, <3>2, TogetherGroups DEF Divided, ZipInv, TypeOK
    <3> QED
      BY <2>1, <2>5, <3>3 DEF Gathered
  <2> QED
    BY <2>1, <2>3, <2>4, <2>5, <2>6 DEF Divided, Numbered, Ordered
<1> QED
  BY <1>1, <1>2, <1>3, PTL DEF Spec

-----------------------------------------------------------------------------
(* The points of the groups: what a fold over config.json adds up to       *)

\* Induction over the numbers, for a set of them
LEMMA Counting ==
    ASSUME NEW T \in SUBSET Nat, 0 \in T, \A n \in T : n + 1 \in T
    PROVE  T = Nat
<1> SUFFICES ASSUME Nat \ T # {} PROVE FALSE
  OBVIOUS
<1> DEFINE R == {p \in Nat \X Nat : p[1] < p[2]}
<1>0. IsWellFoundedOn(R, Nat)
  BY NatLessThanWellFounded DEF OpToRel
<1>a. Nat \ T \subseteq Nat
  OBVIOUS
<1> HIDE DEF R
<1>1. PICK x \in Nat \ T : \A y \in Nat \ T : <<y, x>> \notin R
  BY <1>0, <1>a, WFMin
<1>2. x - 1 \in T /\ x \in Nat
  <2>1. x \in Nat /\ x # 0
    OBVIOUS
  <2>2. x - 1 \in Nat /\ <<x - 1, x>> \in R
    BY <2>1 DEF R
  <2> QED
    BY <2>1, <2>2, <1>1
<1> QED
  BY <1>2, <1>1

\* One step of FoldSeq: the points of one group, and the sum over the others
Adding(c, it, s) ==
    IF s = {} THEN 0
    ELSE c[CHOOSE x \in s : TRUE].score + it[s \ {CHOOSE x \in s : TRUE}]

\* The function it has the sum for each part of D.
Sums(c, D, it) == it = [s \in SUBSET D |-> Adding(c, it, s)]

\* The recursion of the fold ends: there is a function that it defines.
LEMMA AddingEnds ==
    ASSUME NEW D, IsFiniteSet(D), NEW c
    PROVE  \E it : Sums(c, D, it)
<1> DEFINE B(n) == {s \in SUBSET D : Cardinality(s) <= n}
           T == {n \in Nat : \E f : f = [s \in B(n) |-> Adding(c, f, s)]}
<1>0. \A s \in SUBSET D : IsFiniteSet(s) /\ Cardinality(s) \in Nat
  BY FS_Subset, FS_CardinalityType
<1>1. 0 \in T
  <2>1. \A s \in B(0) : s = {}
    BY <1>0, FS_EmptySet
  <2>2. \A f : [s \in B(0) |-> 0] = [s \in B(0) |-> Adding(c, f, s)]
    BY <2>1 DEF Adding
  <2> QED
    BY <2>2
<1>2. ASSUME NEW n \in T PROVE n + 1 \in T
  <2>1. PICK f : f = [s \in B(n) |-> Adding(c, f, s)]
    OBVIOUS
  <2> DEFINE g == [s \in B(n + 1) |-> Adding(c, f, s)]
  <2>2. \A s \in B(n) : s \in B(n + 1) /\ g[s] = f[s]
    BY <1>0, <2>1
  <2>3. ASSUME NEW s \in B(n + 1) PROVE Adding(c, f, s) = Adding(c, g, s)
    <3>1. CASE s = {}
      BY <3>1 DEF Adding
    <3>2. CASE s # {}
      <4> DEFINE e == CHOOSE x \in s : TRUE
      <4>1. e \in s
        BY <3>2
      <4>2. s \ {e} \in B(n)
        <5>1. s \ {e} \in SUBSET D /\ Cardinality(s) <= n + 1 /\ n \in Nat
          OBVIOUS
        <5>2. IsFiniteSet(s) /\ Cardinality(s) \in Nat
          BY <1>0
        <5>3. Cardinality(s \ {e}) = Cardinality(s) - 1
          BY <4>1, <5>2, FS_RemoveElement
        <5> QED
          BY <5>1, <5>2, <5>3
      <4>3. f[s \ {e}] = g[s \ {e}]
        BY <2>2, <4>2
      <4> QED
        BY <4>3 DEF Adding
    <3> QED
      BY <3>1, <3>2
  <2>4. g = [s \in B(n + 1) |-> Adding(c, g, s)]
    BY <2>3
  <2> HIDE DEF g
  <2>5. n + 1 \in Nat
    OBVIOUS
  <2> QED
    BY <2>4, <2>5
<1>3. T = Nat
  <2> HIDE DEF T
  <2>1. T \subseteq Nat
    BY DEF T
  <2> QED
    BY <1>1, <1>2, <2>1, Counting
<1>4. Cardinality(D) \in T
  BY <1>3, FS_CardinalityType
<1>5. B(Cardinality(D)) = SUBSET D
  BY FS_Subset
<1> QED
  BY <1>4, <1>5 DEF Sums

\* The points that calcScore divides
LEMMA Division ==
    ASSUME NEW n \in Nat \ {0}
    PROVE  /\ 100 \div n \in Nat
           /\ 100 % n \in 0..(n - 1)
           /\ 100 = n * (100 \div n) + (100 % n)
OBVIOUS

\* The first r of N groups have one point more than the others.
Dealt(c, N, q, r) == \A i \in 1..N : c[i].score = IF i <= r THEN q + 1 ELSE q

LEMMA PointsSplit ==
    ASSUME NEW N \in Nat, NEW q \in Nat, NEW r \in 0..N, NEW g, NEW it,
           Dealt(g, N, q, r),
           Sums(g, 1..N, it)
    PROVE  it[1..N] = N * q + r
<1> USE DEF Sums, Dealt
<1> DEFINE Few(s) == s \intersect (1..r)
           T == {n \in Nat : \A s \in SUBSET (1..N) :
                    Cardinality(s) = n => it[s] = n * q + Cardinality(Few(s))}
<1>0. \A s \in SUBSET (1..N) : /\ IsFiniteSet(s) /\ Cardinality(s) \in Nat
                               /\ IsFiniteSet(Few(s)) /\ Cardinality(Few(s)) \in Nat
  <2>1. IsFiniteSet(1..N)
    BY FS_Interval
  <2>2. \A s \in SUBSET (1..N) : Few(s) \in SUBSET (1..N)
    OBVIOUS
  <2> QED
    BY <2>1, <2>2, FS_Subset, FS_CardinalityType
<1>1. 0 \in T
  <2> SUFFICES ASSUME NEW s \in SUBSET (1..N), Cardinality(s) = 0
               PROVE  it[s] = 0 * q + Cardinality(Few(s))
    OBVIOUS
  <2>1. s = {} /\ Few(s) = {}
    BY <1>0, FS_EmptySet
  <2>2. it[s] = 0
    BY <2>1 DEF Adding
  <2>3. Cardinality(Few(s)) = 0
    BY <2>1, FS_EmptySet
  <2> QED
    BY <2>2, <2>3
<1>2. ASSUME NEW n \in T, NEW s \in SUBSET (1..N), Cardinality(s) = n + 1
      PROVE  it[s] = (n + 1) * q + Cardinality(Few(s))
  <2> DEFINE c == CHOOSE x \in s : TRUE
             u == s \ {c}
  <2>0. IsFiniteSet(s) /\ n \in Nat
    BY <1>0, <1>2
  <2>1. s # {} /\ c \in s
    BY <1>2, <2>0, FS_EmptySet
  <2>2. Cardinality(u) = n /\ u \in SUBSET (1..N)
    <3>1. u \in SUBSET (1..N)
      OBVIOUS
    <3> HIDE DEF c
    <3>2. Cardinality(u) = Cardinality(s) - 1
      BY <2>0, <2>1, FS_RemoveElement
    <3> QED
      BY <1>2, <2>0, <3>1, <3>2
  <2>3. it[u] = n * q + Cardinality(Few(u))
    BY <2>2
  <2>4. it[s] = g[c].score + it[u]
    BY <2>1 DEF Adding
  <2>5. c \in 1..N /\ r \in Int
    <3> HIDE DEF c
    <3> QED
      BY <2>1
  <2>a. Few(u) = Few(s) \ {c} /\ (c \in Few(s) <=> c <= r)
    BY <2>1, <2>5
  <2>6. Cardinality(Few(u)) = IF c <= r THEN Cardinality(Few(s)) - 1 ELSE Cardinality(Few(s))
    <3>1. IsFiniteSet(Few(s))
      BY <1>0
    <3> HIDE DEF Few, c, u
    <3> QED
      BY <2>a, <3>1, FS_RemoveElement
  <2>7. g[c].score = IF c <= r THEN q + 1 ELSE q
    BY <2>5
  <2>8. (n + 1) * q = n * q + q /\ n * q \in Nat
    OBVIOUS
  <2> HIDE DEF c, u, Few
  <2>9. Cardinality(Few(s)) \in Nat
    BY <1>0
  <2> QED
    BY <2>0, <2>3, <2>4, <2>6, <2>7, <2>8, <2>9
<1>a. ASSUME NEW n \in T PROVE n + 1 \in T
  <2>1. \A s \in SUBSET (1..N) :
            Cardinality(s) = n + 1 => it[s] = (n + 1) * q + Cardinality(Few(s))
    BY <1>2
  <2>2. n + 1 \in Nat
    OBVIOUS
  <2> HIDE DEF Few
  <2> QED
    BY <2>1, <2>2
<1>3. T = Nat
  <2> HIDE DEF T
  <2>1. T \subseteq Nat
    BY DEF T
  <2> QED
    BY <1>1, <1>a, <2>1, Counting
<1>4. Cardinality(1..N) = N /\ Few(1..N) = 1..r /\ Cardinality(1..r) = r
  BY FS_Interval
<1> QED
  BY <1>3, <1>4

\* Every group of config.json has its share of 100 points.
Shared ==
    \A i \in DOMAIN config : config[i].score = calcScore(100, Len(config), i - 1)

LEMMA InitShared == Init => Shared
BY DEF Init, Shared

LEMMA NextShared ==
    ASSUME ZipInv, Shared, [Next]_vars
    PROVE  Shared'
<1>1. CASE WriteConfig
  <2>1. groups \in Seq(SUBSET Nat)
    BY DEF ZipInv, TypeOK
  <2>2. Len(groups) \in Nat /\ DOMAIN config' = 1..Len(groups) /\ Len(config') = Len(groups)
    BY <1>1, <2>1 DEF WriteConfig
  <2>3. \A i \in 1..Len(groups) : config'[i].score = calcScore(100, Len(groups), i - 1)
    BY <1>1 DEF WriteConfig
  <2> QED
    BY <2>2, <2>3 DEF Shared, calcScore
<1>2. CASE ~WriteConfig
  <2>1. config' = config
    BY <1>2 DEF Next, vars, ReadFile, ReadPair, ChoosePattern, Refuse, Skip, WriteTest, SaveCount,
                Fail
  <2> QED
    BY <2>1 DEF Shared, calcScore
<1> QED
  BY <1>1, <1>2

(***************************************************************************)
(* However many groups an archive makes, their points make 100: the        *)
(* remainder of the division goes to the first groups, a point each        *)
(* (calcScore).                                                            *)
(***************************************************************************)
THEOREM PointsTotalAlways == Spec => []PointsTotal
<1>1. ASSUME ZipInv, Shared PROVE PointsTotal
  <2> SUFFICES ASSUME config # <<>>
               PROVE  FoldSeq(LAMBDA g, sum : g.score + sum, 0, config) = 100
    BY DEF PointsTotal
  <2> DEFINE N == Len(config)
             q == 100 \div N
             r == 100 % N
             Sum == CHOOSE it : Sums(config, DOMAIN config, it)
  <2>1. config \in Seq([cases : SUBSET Nat, score : Nat])
    BY <1>1 DEF ZipInv, TypeOK
  <2>2. N \in Nat \ {0} /\ DOMAIN config = 1..N
    BY <2>1
  <2>3. FoldSeq(LAMBDA g, sum : g.score + sum, 0, config) = Sum[DOMAIN config]
    BY DEF FoldSeq, FoldFunction, FoldFunctionOnSet, MapThenFoldSet, Adding, Sums
  <2>4. Sums(config, DOMAIN config, Sum)
    <3>1. IsFiniteSet(DOMAIN config)
      BY <2>2, FS_Interval
    <3> QED
      BY <3>1, AddingEnds
  <2>5. q \in Nat /\ r \in 0..(N - 1) /\ 100 = N * q + r
    BY <2>2, Division
  <2>6. Dealt(config, N, q, r)
    <3>1. \A i \in 1..N : config[i].score = IF i - 1 < r THEN q + 1 ELSE q
      BY <1>1, <2>2 DEF Shared, calcScore
    <3> HIDE DEF N, q, r
    <3> QED
      BY <3>1, <2>2, <2>5 DEF Dealt
  <2>7. N \in Nat /\ r \in 0..N /\ Sums(config, 1..N, Sum)
    BY <2>2, <2>4, <2>5
  <2> HIDE DEF N, q, r, Sum
  <2>8. Sum[1..N] = N * q + r
    BY <2>5, <2>6, <2>7, PointsSplit
  <2> QED
    BY <2>2, <2>3, <2>5, <2>8
<1> QED
  BY <1>1, InitShared, NextShared, ZipInvHolds, PTL DEF Spec
=============================================================================
