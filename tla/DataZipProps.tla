----------------------------- MODULE DataZipProps -----------------------------
(***************************************************************************)
(* What an archive becomes.                                                *)
(***************************************************************************)
EXTENDS DataZip, SequencesExt

Names == {f.stem : f \in archive}
Has(s, ext) == \E f \in archive : f.stem = s /\ f.ext = ext /\ f.full

\* The files of s are what its handler's comment asks for.
Complete(s) ==
    /\ Has(s, "in")
    /\ IF by = "create" THEN Has(s, "ans")
       ELSE IF s.kind \in {"split", "letter"}
       THEN Has(s, "out") /\ ~\E f \in archive : f.stem = s /\ f.ext = "ans"
       ELSE Has(s, "ans") \/ Has(s, "out")

\* An archive with one kind of names, where nothing is missing
Regular ==
    /\ \A s, r \in Names : s.kind = r.kind
    /\ \A s \in Names : Complete(s)

\* Two tests of one group, and a test that is numbered before another
Together(s, r) ==
    \/ s = r
    \/ /\ by = "import" /\ s.kind \in {"split", "letter", "word"}
       /\ s.key = r.key
Precedes(s, r) ==
    \/ s.key < r.key
    \/ s.key = r.key /\ s.sub < r.sub
    \/ s.kind = "word" /\ s.key # r.key
    \/ s.kind = "name"
    \/ by = "create" /\ s.kind # "number"

(***************************************************************************)
(* A regular archive whose inputs come before their answers is imported as *)
(* it is meant, whatever its order is otherwise: one test for each stem,   *)
(* counted and numbered in the order of the names, and in one group with   *)
(* the others of its key.                                                  *)
(***************************************************************************)
ArchiveImported ==
    stage = "done" /\ Regular /\ ~inverted =>
        /\ {t.stem : t \in tests} = Names
        /\ \A t \in tests : t.in /\ t.ans
        /\ {t.n : t \in tests} = 1..Cardinality(Names)
        /\ count = Cardinality(Names)
        /\ \A t, u \in tests :
            /\ t.n < u.n => Precedes(t.stem, u.stem)
            /\ Together(t.stem, u.stem) <=>
                 \E i \in DOMAIN config : {t.n, u.n} \subseteq config[i].cases

(***************************************************************************)
(* Whatever the archive and its order: each case that config.json lists    *)
(* has its files, is in one group and is counted, and after an import it   *)
(* has an answer.                                                          *)
(***************************************************************************)
CasesListed ==
    stage \in {"saving", "done"} =>
        /\ \A t \in tests : \E i \in DOMAIN config : t.n \in config[i].cases
        /\ \A i \in DOMAIN config : \A n \in config[i].cases :
            /\ \E t \in tests : t.n = n /\ (by = "import" => t.ans)
            /\ \A j \in DOMAIN config : n \in config[j].cases => j = i
            /\ stage = "done" => n \in 1..count

(***************************************************************************)
(* The points of the groups make 100, however many groups there are.       *)
(***************************************************************************)
PointsTotal ==
    config # <<>> => FoldSeq(LAMBDA g, sum : g.score + sum, 0, config) = 100

(***************************************************************************)
(* An import without split names is refused only when a test really lacks  *)
(* its input or its answer, wherever the two were in the archive.          *)
(***************************************************************************)
RefusedForReason ==
    stage = "refused" /\ (\A s \in Names : s.kind # "split") =>
        \/ archive = {}
        \/ \E s \in Names : ~Has(s, "in") \/ ~(Has(s, "ans") \/ Has(s, "out"))
=============================================================================
