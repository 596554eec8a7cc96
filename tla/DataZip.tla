------------------------------- MODULE DataZip -------------------------------
(***************************************************************************)
(* How an archive of test files becomes the tests of a problem             *)
(* (edit/edit.go): ImportDataZipHandler guesses from the names how the     *)
(* tests are grouped, CreateProblemHandler takes each pair of files as a   *)
(* group of its own.  The files come in the order the archive has them,    *)
(* and are numbered in the order of Go maps, which is any, where numbers   *)
(* do not decide.                                                          *)
(*                                                                         *)
(* A stem is a file's name without the extension:                          *)
(*   split   1-2      key 1, sub 2                                         *)
(*   letter  1b       key 1, sub 2                                         *)
(*   number  1        key 1, sub 0                                         *)
(*   word    data1b   a name that ends with a letter: the key stands for   *)
(*                    what comes before it, sub for the letter             *)
(*   name    data1    any other name                                       *)
(* Letters are lower case, and no two files have the same name.  Of a file *)
(* it matters whether it has any content.                                  *)
(***************************************************************************)
EXTENDS Naturals, FiniteSets, Sequences

CONSTANTS Archives

Stem == [kind : {"split", "letter", "number", "word", "name"}, key : Nat, sub : Nat]
File == [stem : Stem, ext : {"in", "ans", "out"}, full : BOOLEAN]

ASSUME ZipAssumption ==
    /\ Archives \subseteq SUBSET File
    /\ \A a \in Archives : IsFiniteSet(a)
    /\ \A a \in Archives : \A f, g \in a : f.stem = g.stem /\ f.ext = g.ext => f = g
    /\ \A a \in Archives : \A f \in a : f.stem.kind = "number" => f.stem.sub = 0

VARIABLES
    archive, by,   \* the uploaded archive and the handler that has it
    unread,        \* files it has not read yet
    splitGroups, letterGroups, firstPassMap,   \* the records of what it has read
    stage,
    pattern,       \* usePattern
    left,          \* records that have not had their turn
    group,         \* the group of the record that had its turn last
    idx,           \* how many had
    groups,        \* the cases of each group
    tests,         \* the test files in the problem's directory
    config,        \* the groups in config.json, and their points
    count,         \* TestsCount in the problem's row
    inverted       \* history: an answer was read before its input

collected == <<splitGroups, letterGroups, firstPassMap>>
upload == <<archive, by>>
vars == <<upload, unread, collected, stage, pattern, left, group, idx, groups, tests,
          config, count, inverted>>

\* What is known of the files of one stem: which of them have content.
TestFile == [stem : Stem, in : BOOLEAN, ans : BOOLEAN, out : BOOLEAN]
Fresh(s) == [stem |-> s, in |-> FALSE, ans |-> FALSE, out |-> FALSE]

NoGroup == [kind |-> "none", key |-> 0, sub |-> 0]

TypeOK ==
    /\ archive \in Archives
    /\ by \in {"import", "create"}
    /\ unread \subseteq archive
    /\ splitGroups \subseteq TestFile
    /\ letterGroups \subseteq TestFile
    /\ firstPassMap \subseteq TestFile
    /\ stage \in {"reading", "writing", "saving", "done", "refused", "failed"}
    /\ pattern \in {"simple", "split", "letter"}
    /\ left \subseteq TestFile
    /\ group \in Stem \union {NoGroup}
    /\ idx \in Nat
    /\ groups \in Seq(SUBSET Nat)
    /\ tests \subseteq [n : Nat, stem : Stem, in : BOOLEAN, ans : BOOLEAN]
    /\ config \in Seq([cases : SUBSET Nat, score : Nat])
    /\ count \in Nat
    /\ inverted \in BOOLEAN

\* The old test files are gone; config.json is taken to be empty.
Init ==
    /\ archive \in Archives
    /\ by \in {"import", "create"}
    /\ unread = archive
    /\ splitGroups = {}
    /\ letterGroups = {}
    /\ firstPassMap = {}
    /\ stage = "reading"
    /\ pattern = "simple"
    /\ left = {}
    /\ group = NoGroup
    /\ idx = 0
    /\ groups = <<>>
    /\ tests = {}
    /\ config = <<>>
    /\ count = 0
    /\ inverted = FALSE

-----------------------------------------------------------------------------
(* Reading                                                                 *)

\* An input of a group makes a new record, whatever is there.
AddInput(S, f) == S \union {[Fresh(f.stem) EXCEPT !.in = f.full]}

\* Another file goes into the record of its stem, or into a new one.
Put(S, f) ==
    IF \E tf \in S : tf.stem = f.stem
    THEN {IF tf.stem = f.stem THEN [tf EXCEPT ![f.ext] = f.full] ELSE tf : tf \in S}
    ELSE S \union {[Fresh(f.stem) EXCEPT ![f.ext] = f.full]}

\* A file of a group: the names of answers are not among these.
Collect(S, f) == IF f.ext = "in" THEN AddInput(S, f) ELSE Put(S, f)

Grouped(f, kind) == f.stem.kind = kind /\ f.ext # "ans"

ReadFile(f) ==
    /\ stage = "reading" /\ by = "import"
    /\ f \in unread
    /\ unread' = unread \ {f}
    /\ splitGroups' = IF Grouped(f, "split") THEN Collect(splitGroups, f) ELSE splitGroups
    /\ letterGroups' = IF Grouped(f, "letter") THEN Collect(letterGroups, f) ELSE letterGroups
    /\ firstPassMap' = IF Grouped(f, "split") \/ Grouped(f, "letter") THEN firstPassMap
                       ELSE Put(firstPassMap, f)
    /\ inverted' = (inverted \/ /\ f.ext # "in"
                                /\ \E g \in unread : g.stem = f.stem /\ g.ext = "in")
    /\ UNCHANGED <<upload, stage, pattern, left, group, idx, groups, tests, config, count>>

\* CreateProblemHandler knows inputs and answers only.
ReadPair(f) ==
    /\ stage = "reading" /\ by = "create"
    /\ f \in unread
    /\ unread' = unread \ {f}
    /\ firstPassMap' = IF f.ext = "out" THEN firstPassMap ELSE Put(firstPassMap, f)
    /\ UNCHANGED <<upload, splitGroups, letterGroups, stage, pattern, left, group, idx,
                   groups, tests, config, count, inverted>>

-----------------------------------------------------------------------------
(* Grouping                                                                *)

Keys(S) == {tf.stem.key : tf \in S}

\* Groups of one pattern win over the other files if there are as many of them.
Prevails(S) == S # {} /\ Cardinality(Keys(S)) >= Cardinality(firstPassMap)

\* The last character is a letter.
HasAlphaSuffix == \E tf \in firstPassMap : tf.stem.kind \in {"letter", "word"}

\* Mutated form: the pattern has a name that the writing does not know.
AlphaPattern == IF HasAlphaSuffix THEN "alpha" ELSE "simple"

SimplePattern == IF HasAlphaSuffix THEN "letter" ELSE "simple"

NothingFound == by = "import" /\ \A f \in archive : f.ext = "ans"

ChoosePattern ==
    /\ stage = "reading"
    /\ unread = {}
    /\ IF NothingFound THEN stage' = "refused" /\ UNCHANGED <<pattern, left>>
       ELSE /\ stage' = "writing"
            /\ \/ /\ by = "create"
                  /\ pattern' = "simple" /\ left' = firstPassMap
               \/ /\ by = "import" /\ Prevails(splitGroups)
                  /\ pattern' = "split" /\ left' = splitGroups
               \/ /\ by = "import" /\ ~Prevails(splitGroups) /\ Prevails(letterGroups)
                  /\ pattern' = "letter" /\ left' = letterGroups
               \/ /\ by = "import" /\ ~Prevails(splitGroups) /\ ~Prevails(letterGroups)
                  /\ pattern' = SimplePattern
                  /\ left' = firstPassMap
    /\ UNCHANGED <<upload, unread, collected, group, idx, groups, tests, config, count, inverted>>

\* Mutated form: every stem is a key of its own.
OwnGroup(s) == s

\* The group of a stem, by the key it has in Go's map
GroupOf(s) ==
    IF pattern = "letter" /\ s.kind = "number" THEN [s EXCEPT !.kind = "letter"]
    ELSE IF pattern = "split" \/ (pattern = "letter" /\ s.kind \in {"letter", "word"})
    THEN [s EXCEPT !.sub = 0]
    ELSE s

\* What strconv.Atoi reads of that key
Rank(s) ==
    IF \/ s.kind = "number"
       \/ pattern = "split"
       \/ pattern = "letter" /\ s.kind = "letter"
    THEN s.key ELSE 0

\* The records that may have the next turn: a group is finished before the next begins.
Candidates ==
    LET same == {tf \in left : GroupOf(tf.stem) = group} IN
    IF same # {} THEN {tf \in same : \A o \in same : tf.stem.sub <= o.stem.sub}
    ELSE {tf \in left : \A o \in left :
            /\ Rank(tf.stem) <= Rank(o.stem)
            /\ GroupOf(o.stem) = GroupOf(tf.stem) => tf.stem.sub <= o.stem.sub}

-----------------------------------------------------------------------------
(* Writing                                                                 *)

\* Mutated form: an output is not taken for an answer.
HasOnlyAnswer(tf) == tf.ans

HasAnswer(tf) == tf.ans \/ tf.out

\* The record tf has its turn.
Turn(tf) ==
    /\ stage = "writing"
    /\ tf \in Candidates
    /\ left' = left \ {tf}
    /\ idx' = idx + 1
    /\ group' = GroupOf(tf.stem)

\* The groups, with that of tf
Opened(tf) == IF GroupOf(tf.stem) = group THEN groups ELSE Append(groups, {})

\* Tests that are numbered one by one must be complete.
Refuse(tf) ==
    /\ by = "import" /\ pattern = "simple"
    /\ ~HasAnswer(tf) \/ ~tf.in
    /\ Turn(tf)
    /\ stage' = "refused"
    /\ UNCHANGED <<upload, unread, collected, pattern, groups, tests, config, count, inverted>>

\* In a group, a record without an answer takes a number and nothing else.
Skip(tf) ==
    /\ by = "import" /\ pattern # "simple"
    /\ ~HasAnswer(tf)
    /\ Turn(tf)
    /\ groups' = Opened(tf)
    /\ UNCHANGED <<upload, unread, collected, stage, pattern, tests, config, count, inverted>>

\* Mutated form: the answer is not looked at.
WorthWriting(tf) == by = "import" => (pattern = "simple" => tf.in)

Writable(tf) == by = "import" => HasAnswer(tf) /\ (pattern = "simple" => tf.in)

WriteTest(tf) ==
    /\ Writable(tf)
    /\ Turn(tf)
    /\ tests' = tests \union {[n |-> idx', stem |-> tf.stem, in |-> tf.in, ans |-> HasAnswer(tf)]}
    /\ groups' = [Opened(tf) EXCEPT ![Len(Opened(tf))] = @ \union {idx'}]
    /\ UNCHANGED <<upload, unread, collected, stage, pattern, config, count, inverted>>

\* Mutated form: the remainder goes to one group too many.
calcScoreOff(totalScore, number, index) ==
    IF index <= totalScore % number THEN totalScore \div number + 1 ELSE totalScore \div number

calcScore(totalScore, number, index) ==
    IF index < totalScore % number THEN totalScore \div number + 1 ELSE totalScore \div number

WriteConfig ==
    /\ stage = "writing"
    /\ left = {}
    /\ config' = [i \in 1..Len(groups) |->
                    [cases |-> groups[i], score |-> calcScore(100, Len(groups), i - 1)]]
    /\ stage' = "saving"
    /\ UNCHANGED <<upload, unread, collected, pattern, left, group, idx, groups, tests, count,
                   inverted>>

SaveCount ==
    /\ stage = "saving"
    /\ count' = idx
    /\ stage' = "done"
    /\ UNCHANGED <<upload, unread, collected, pattern, left, group, idx, groups, tests, config,
                   inverted>>

\* A file cannot be read or written, or the row not saved.
Fail ==
    /\ stage \in {"reading", "writing", "saving"}
    /\ stage' = "failed"
    /\ UNCHANGED <<upload, unread, collected, pattern, left, group, idx, groups, tests, config,
                   count, inverted>>

Next ==
    \/ \E f \in unread : ReadFile(f) \/ ReadPair(f)
    \/ ChoosePattern
    \/ \E tf \in left : Refuse(tf) \/ Skip(tf) \/ WriteTest(tf)
    \/ WriteConfig
    \/ SaveCount
    \/ Fail

Spec == Init /\ [][Next]_vars
=============================================================================
