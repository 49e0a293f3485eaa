------------------------------- MODULE LruMap -------------------------------
(***************************************************************************)
(* The bounded map of epochs-core/src/cache.rs.  The code keeps a HashMap   *)
(* and a VecDeque of its keys in insertion order; the two always hold the   *)
(* same keys, so one sequence of [key, val] records, oldest first, stands   *)
(* for both.                                                                *)
(***************************************************************************)
EXTENDS Integers, Sequences

\* Mutant: no lower bound on the capacity.
LruCapUnchecked(cap) == cap

\* A new map; a capacity of 0 is raised to 1.
LruCap(cap) == IF cap < 1 THEN 1 ELSE cap

LruHas(c, k) == \E i \in DOMAIN c : c[i].key = k

\* The value of a key that is present.  A hit does not move the key.
LruGet(c, k) == c[CHOOSE i \in DOMAIN c : c[i].key = k].val

\* Replacing keeps the position; inserting first evicts from the front while
\* the map holds at least cap keys.
LruInsert(c, cap, k, v) ==
    IF LruHas(c, k)
    THEN [i \in DOMAIN c |-> IF c[i].key = k THEN [key |-> k, val |-> v] ELSE c[i]]
    ELSE LET keep == IF Len(c) < cap THEN Len(c) ELSE cap - 1
         IN  Append(SubSeq(c, Len(c) - keep + 1, Len(c)), [key |-> k, val |-> v])
=============================================================================
