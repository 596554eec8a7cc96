------------------------------ MODULE MCDataZip ------------------------------
(* Archives for TLC.                                                       *)
EXTENDS DataZipProps

CONSTANTS MaxFiles   \* the size of archives that have any files

S(kind, key, sub) == [kind |-> kind, key |-> key, sub |-> sub]
F(s, ext, full) == [stem |-> s, ext |-> ext, full |-> full]

Split == {S("split", 1, 1), S("split", 1, 2), S("split", 2, 1)}
Letter == {S("letter", 1, 1), S("letter", 1, 2), S("letter", 2, 1)}
Number == {S("number", k, 0) : k \in 1..3}
Word == {S("word", 1, 1), S("word", 1, 2), S("word", 2, 1)}
Other == {S("name", k, 0) : k \in 1..3}

\* A few stems of every kind, for archives of any files
Few == {S("split", 1, 1), S("split", 2, 1), S("letter", 1, 1), S("letter", 1, 2),
        S("number", 1, 0), S("word", 1, 1)}

Mixed == UNION {kSubset(k, {F(s, e, TRUE) : s \in Few, e \in {"in", "ans", "out"}})
              : k \in 1..MaxFiles}

\* One of their files has nothing in it.
Hollow == UNION {{(a \ {f}) \union {[f EXCEPT !.full = FALSE]} : f \in a}
                 : a \in {b \in Mixed : Cardinality(b) <= 3}}

\* Regular archives of three tests
Pairs(stems, ext) == {F(s, e, TRUE) : s \in stems, e \in {"in", ext}}
Whole == {Pairs(p[1], p[2]) : p \in {Split, Letter, Number, Word, Other} \X {"ans", "out"}}

SomeArchives == Mixed \union Hollow \union Whole
=============================================================================
