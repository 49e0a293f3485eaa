----------------------------- MODULE MCCasStore -----------------------------
(* Instances of CasStore for TLC.                                            *)
EXTENDS CasStore, TLC

CONSTANTS a, b, c, d

\* Two short and two long records.  A segment holds its header and either two
\* short records or a long one; a long record bypasses the write buffer.  Three
\* segments are too few for some orders of four puts: the segment id overflows.
AllRecLen == (a :> 2) @@ (b :> 2) @@ (c :> 3) @@ (d :> 3)
MCRecLen  == [o \in Obj |-> AllRecLen[o]]

\* The default capacities are below the number of objects and segments; the
\* other choice turns both off (the cache keeps one entry even then).
MCCapChoices == {<<0, 0>>, <<2, 1>>}

NoCapChoices == {}

Symm == Permutations({a, b}) \cup Permutations({c, d})
SymmShort == Permutations({a, b})
=============================================================================
