----------------------------- MODULE MCDagQuery -----------------------------
(***************************************************************************)
(* Every history of N commits with at most two parents each, which COMMIT   *)
(* may name in any order and twice; the first two may both be roots.        *)
(***************************************************************************)
EXTENDS DagQuery

CONSTANT N

ParentLists(n) ==
    IF n = 1 THEN {<<>>}
    ELSE (IF n = 2 THEN {<<>>} ELSE {}) \cup {<<i>> : i \in 1 .. n - 1}
         \cup (1 .. n - 1) \X (1 .. n - 1)

MCGraphs == {g \in [1..N -> UNION {ParentLists(n) : n \in 1..N}] : \A n \in 1..N : g[n] \in ParentLists(n)}

\* One branch or two; the last commit need not be on one.
MCTipSets == {{N}, {N - 1, N}, {N - 1}}

Edge(t, m) == [type |-> t, mult |-> m]

MCEdges == {Edge("PARENT", NoMultiplier), Edge("CHILD", Exact(2)), Edge("ANCESTOR", NoMultiplier),
            Edge("DESCENDANT", Range2(Open, 2)), Edge("PARENT", Range2(2, Open)), Edge("CHILD", AnyHops),
            Edge("ANCESTOR", Range2(0, 1))}

\* A step up and one down to another commit, and a walk that returns to its start.
MCPatterns ==
    { [vars |-> <<"x", "_2", "y">>, wants |-> <<1..N, 1..N, 1 .. N - 1>>,
       edges |-> <<Edge("PARENT", NoMultiplier), Edge("CHILD", NoMultiplier)>>],
      [vars |-> <<"x", "y", "x">>, wants |-> <<1..N, 1..N, 1..N>>,
       edges |-> <<Edge("ANCESTOR", Exact(2)), Edge("CHILD", NoMultiplier)>>] }
=============================================================================
