------------------------------ MODULE DagQuery ------------------------------
(***************************************************************************)
(* The walks over the commit graph: epochs-core/src/dag/algorithms.rs and   *)
(* TRAVERSE and MATCH of epochql/src/exec/engine.rs.                        *)
(*                                                                          *)
(* Each is a loop over a queue.  A behaviour picks a graph, an algorithm and *)
(* its arguments, and takes one step for every turn of the loop; the result *)
(* is compared with what the walk is meant to compute.                      *)
(***************************************************************************)
EXTENDS Integers, Sequences, FiniteSets, SequencesExt

CONSTANTS
    Graphs,   \* graphs: the parents of every commit, which has a larger number
    TipSets,  \* sets of branch tips
    Depths,   \* arguments of ancestors_within_depth
    MaxHops,  \* the hops of an edge without an upper bound: 64 in the code
    Edges,    \* edge patterns: [type, mult]
    Patterns  \* MATCH patterns: [vars, wants, edges]; wants[i] are the commits
              \* that have the properties that node i asks for

AllEdges == Edges \cup UNION {ToSet(p.edges) : p \in Patterns}

ASSUME DagAssumption ==
    /\ Graphs \subseteq Seq(Seq(Nat))
    /\ \A g \in Graphs : \A n \in DOMAIN g : \A i \in DOMAIN g[n] : g[n][i] \in 1 .. n - 1
    /\ Depths \subseteq Nat
    /\ MaxHops \in Nat
    /\ Patterns \subseteq [vars : Seq(STRING), wants : Seq(SUBSET Nat), edges : Seq(AllEdges)]
    /\ \A p \in Patterns : Len(p.vars) = Len(p.edges) + 1 /\ Len(p.wants) = Len(p.vars)

VARIABLES
    parents,  \* the parents of every commit
    tips,     \* the tips that list_branches and get_branch give
    call,     \* the algorithm and its arguments
    queue,    \* the VecDeque
    visited,  \* the set that keeps a commit from being queued or expanded twice
    found,    \* what has been collected so far
    result    \* Running, or the result

vars == <<parents, tips, call, queue, visited, found, result>>

Running == <<"running">>
Done(r) == <<"done", r>>
NoBase  == 0

Commits == DOMAIN parents

Call(alg, a, b, hops, edge, pattern) ==
    [alg |-> alg, a |-> a, b |-> b, hops |-> hops, edge |-> edge, pattern |-> pattern]

\* The hop multipliers of an edge pattern; a range may leave a bound out.
NoMultiplier   == <<"none">>
AnyHops        == <<"any">>
Exact(n)       == <<"exact", n>>
Range2(lo, hi) == <<"range", lo, hi>>
Open           == -1

\* hop_bounds
HopBounds(edge) ==
    CASE edge.mult = NoMultiplier ->
            <<1, IF edge.type \in {"PARENT", "CHILD"} THEN 1 ELSE MaxHops>>
      [] edge.mult = AnyHops -> <<1, MaxHops>>
      [] edge.mult[1] = "exact" -> <<edge.mult[2], edge.mult[2]>>
      [] edge.mult[1] = "range" ->
            << IF edge.mult[2] = Open THEN 1 ELSE edge.mult[2],
               IF edge.mult[3] = Open THEN MaxHops ELSE edge.mult[3] >>

\* Multipliers are u32.
ASSUME HopAssumption == \A e \in AllEdges : HopBounds(e) \in Nat \X Nat

TowardRoot(edge) == edge.type \in {"PARENT", "ANCESTOR"}

-----------------------------------------------------------------------------
(* What the walks are meant to compute *)

\* Commits that a walk of d steps reaches from n, where next gives the steps.
Walk(next, n, d) ==
    LET w[k \in Nat] == IF k = 0 THEN {n} ELSE UNION {next[m] : m \in w[k - 1]}
    IN  w[d]

\* Commits that a walk of d steps along parents reaches.
ParentsOf == [n \in Commits |-> ToSet(parents[n])]
Up(n, d)  == Walk(ParentsOf, n, d)

Ancestors(n) == UNION {Up(n, d) : d \in 0..Cardinality(Commits)}

\* The length of the shortest walk along parents.
Distance(n, m) == CHOOSE d \in 0..Cardinality(Commits) :
                    m \in Up(n, d) /\ \A e \in 0 .. d - 1 : m \notin Up(n, e)

Reachable == UNION {Ancestors(t) : t \in tips}

\* children_map: the children of n among the reachable commits.
Children(n) == {c \in Reachable : n \in ToSet(parents[c])}

ChildrenOf == [n \in Commits |-> Children(n)]
Down(n, d) == Walk(ChildrenOf, n, d)

Neighbours(n) == ToSet(parents[n]) \cup Children(n)

\* Commits at most d steps away, along parents and children.
AtMostOneStep == [n \in Commits |-> {n} \cup Neighbours(n)]
Ball(n, d)    == Walk(AtMostOneStep, n, d)

\* The other commits that the hops of an edge pattern reach from n.
EdgeEnds(n, edge) ==
    LET hops == HopBounds(edge)[1] .. HopBounds(edge)[2]
    IN  (UNION {IF TowardRoot(edge) THEN Up(n, d) ELSE Down(n, d) : d \in hops}) \ {n}

-----------------------------------------------------------------------------
(* The loops *)

\* for parent in parents { if visited.insert(parent) { queue.push_back(parent) } }
\* for the commits ns: those that were not visited, without repetition.
New(ns, seen) ==
    LET new[i \in 0 .. Len(ns)] ==
          IF i = 0 THEN <<>>
          ELSE IF ns[i] \in seen \/ ns[i] \in ToSet(new[i - 1]) THEN new[i - 1]
          ELSE Append(new[i - 1], ns[i])
    IN  new[Len(ns)]

Pop == queue' = Tail(queue)

Push(ns) ==
    /\ queue' = Tail(queue) \o ns
    /\ visited' = visited \cup ToSet(ns)

Finish(r) ==
    /\ result' = Done(r)
    /\ UNCHANGED <<queue, visited>>

Turn(alg) ==
    /\ call.alg = alg /\ result = Running
    /\ UNCHANGED <<parents, tips, call>>

\* The parents that collect_ancestors queues: all of them, seen before or not.
QueuedParents(n) == parents[n]

\* collect_ancestors queues a commit once for every child and skips it when it
\* is popped again.
CollectStep ==
    /\ Turn("collect")
    /\ UNCHANGED found
    /\ \/ /\ queue = <<>>
          /\ Finish(visited)
       \/ /\ queue # <<>> /\ Head(queue) \in visited
          /\ Pop
          /\ UNCHANGED <<visited, result>>
       \/ /\ queue # <<>> /\ Head(queue) \notin visited
          /\ queue' = Tail(queue) \o QueuedParents(Head(queue))
          /\ visited' = visited \cup {Head(queue)}
          /\ UNCHANGED result

\* Mutant: the front of the queue is looked at and stays.
PushWithoutPop(n) ==
    LET new == New(parents[n], visited)
    IN  queue' = queue \o new /\ visited' = visited \cup ToSet(new)

\* Breadth first: the parents go to the end of the queue.
PushParents(n) == Push(New(parents[n], visited))

\* merge_base walks from b until it meets an ancestor of a.
MergeBaseStep ==
    /\ Turn("merge_base")
    /\ UNCHANGED found
    /\ \/ /\ call.a = call.b
          /\ Finish(call.a)
       \/ /\ call.a # call.b /\ queue = <<>>
          /\ Finish(NoBase)
       \/ /\ call.a # call.b /\ queue # <<>> /\ Head(queue) \in Ancestors(call.a)
          /\ Finish(Head(queue))
       \/ /\ call.a # call.b /\ queue # <<>> /\ Head(queue) \notin Ancestors(call.a)
          /\ PushParents(Head(queue))
          /\ UNCHANGED result

\* Mutant: one generation too many.
GoesDeeperLate(depth) == depth =< call.hops

GoesDeeper(depth) == depth < call.hops

\* ancestors_within_depth: the queue holds commits with their depth.
WithinDepthStep ==
    /\ Turn("within_depth")
    /\ \/ /\ call.hops = 0 \/ queue = <<>>
          /\ Finish(found)
          /\ UNCHANGED found
       \/ /\ call.hops # 0 /\ queue # <<>>
          /\ LET n     == Head(queue)[1]
                 depth == Head(queue)[2]
                 new   == IF GoesDeeper(depth) THEN New(parents[n], visited) ELSE <<>>
             IN  /\ found' = IF depth > 0 THEN Append(found, n) ELSE found
                 /\ queue' = Tail(queue) \o [i \in DOMAIN new |-> <<new[i], depth + 1>>]
                 /\ visited' = visited \cup ToSet(new)
          /\ UNCHANGED result

\* Mutant: the path only leads to ancestors.
ParentsOnly(n, order) == parents[n]

\* The neighbours of a commit: its parents, then its children in some order.
NeighbourList(n, order) == parents[n] \o order

\* shortest_commit_path: the queue holds paths.  The children come in any order,
\* that of a HashSet.
ShortestPathStep ==
    /\ Turn("shortest_path")
    /\ UNCHANGED found
    /\ \/ /\ queue = <<>>
          /\ Finish(<<>>)
       \/ /\ queue # <<>> /\ Last(Head(queue)) = call.b
          /\ Finish(Head(queue))
       \/ /\ queue # <<>> /\ Last(Head(queue)) # call.b
          /\ \E order \in SetToSeqs(Children(Last(Head(queue)))) :
                LET new == New(NeighbourList(Last(Head(queue)), order), visited)
                IN  /\ queue' = Tail(queue) \o [i \in DOMAIN new |-> Append(Head(queue), new[i])]
                    /\ visited' = visited \cup ToSet(new)
          /\ UNCHANGED result

\* Mutant: a commit is expanded at the first depth it is met at, only.
UnseenOnce(ns, depth) == {n \in ns : \A v \in visited : v[1] # n}

\* The pairs of a commit and a depth that were not queued yet.
Unseen(ns, depth) == {n \in ns : <<n, depth>> \notin visited}

\* expand_edge
ExpandEdgeStep ==
    /\ Turn("expand_edge")
    /\ \/ /\ queue = <<>>
          /\ Finish(found)
          /\ UNCHANGED found
       \/ /\ queue # <<>>
          /\ LET n     == Head(queue)[1]
                 depth == Head(queue)[2]
                 nexts == IF ~GoesDeeper(depth) THEN {}
                          ELSE IF TowardRoot(call.edge) THEN ToSet(parents[n]) ELSE Children(n)
                 new   == Unseen(nexts, depth + 1)
             IN  /\ found' = IF HopBounds(call.edge)[1] =< depth /\ depth =< call.hops /\ n # call.a
                             THEN found \cup {n} ELSE found
                 /\ queue' = Tail(queue) \o SetToSeq({<<m, depth + 1>> : m \in new})
                 /\ visited' = visited \cup {<<m, depth + 1>> : m \in new}
          /\ UNCHANGED result

\* Mutant: a variable that is bound already is bound again.
AgreesAlways(b, var, n) == TRUE

\* A variable that occurs twice stands for one commit.
Agrees(b, var, n) == var \in DOMAIN b => b[var] = n

Bind(b, var, n) == [v \in DOMAIN b \cup {var} |-> IF v = var THEN n ELSE b[v]]

\* match_pattern: found holds the bindings of the first variables, the queue the
\* edges that are left.
MatchStep ==
    /\ Turn("match")
    /\ UNCHANGED visited
    /\ \/ /\ queue = <<>>
          /\ result' = Done(found)
          /\ UNCHANGED <<queue, found>>
       \/ /\ queue # <<>>
          /\ LET i    == Head(queue)
                 edge == call.pattern.edges[i]
                 src  == call.pattern.vars[i]
                 dst  == call.pattern.vars[i + 1]
                 ends(b) == {n \in EdgeEnds(b[src], edge) \cap call.pattern.wants[i + 1] :
                                Agrees(b, dst, n)}
             IN  found' = UNION {{Bind(b, dst, n) : n \in ends(b)} : b \in found}
          /\ Pop
          /\ UNCHANGED result

-----------------------------------------------------------------------------
NoEdge    == [type |-> "PARENT", mult |-> NoMultiplier]
NoPattern == [vars |-> <<"_0">>, wants |-> <<{}>>, edges |-> <<>>]

Start(c, q, v, f) ==
    /\ call = c /\ queue = q /\ visited = v /\ found = f

\* exec_match: the ancestors of the context and every reachable commit.
Universe(n) == Ancestors(n) \cup Reachable

Init ==
    /\ parents \in Graphs
    /\ tips \in {t \in TipSets : t \subseteq Commits}
    /\ result = Running
    /\ \E a \in Commits :
        \/ Start(Call("collect", a, a, 0, NoEdge, NoPattern), <<a>>, {}, <<>>)
        \/ \E b \in Commits :
            \/ Start(Call("merge_base", a, b, 0, NoEdge, NoPattern), <<b>>, {b}, <<>>)
            \/ Start(Call("shortest_path", a, b, 0, NoEdge, NoPattern), <<<<a>>>>, {a}, <<>>)
        \/ \E d \in Depths :
            Start(Call("within_depth", a, a, d, NoEdge, NoPattern), <<<<a, 0>>>>, {a}, <<>>)
        \/ \E e \in Edges :
            Start(Call("expand_edge", a, a, HopBounds(e)[2], e, NoPattern),
                  <<<<a, 0>>>>, {<<a, 0>>}, {})
        \/ \E p \in Patterns :
            Start(Call("match", a, a, 0, NoEdge, p), [i \in DOMAIN p.edges |-> i], {},
                  {[v \in {p.vars[1]} |-> n] : n \in Universe(a) \cap p.wants[1]})

Next ==
    \/ CollectStep \/ MergeBaseStep \/ WithinDepthStep
    \/ ShortestPathStep \/ ExpandEdgeStep \/ MatchStep

\* A query runs to its end: nothing else happens in the call.
Spec == Init /\ [][Next]_vars /\ WF_vars(Next)

-----------------------------------------------------------------------------
(* Properties *)

Returns(alg) == call.alg = alg /\ result # Running
Value == result[2]

\* Every walk ends, also where commits are reached along many paths.
Terminates == <>(result # Running)

\* merge_base finds a common ancestor if and only if there is one, and of the
\* common ancestors one with the shortest way from b.  This is less than "the
\* nearest common ancestor of two commits" of its comment: the way from a does not
\* count, and the answer may be an ancestor of another common ancestor.
MergeBaseIsCommon ==
    Returns("merge_base") =>
        LET common == Ancestors(call.a) \cap Ancestors(call.b)
        IN  IF common = {} THEN Value = NoBase
            ELSE Value \in common /\ \A m \in common : Distance(call.b, Value) =< Distance(call.b, m)

\* "Collect all ancestor commit hashes of `start`, including `start` itself", and
\* "Walk from `start` toward parents up to `max_depth` generations": the proper
\* ancestors within that distance, each once, the nearest first.
AncestorWalksAreExact ==
    /\ Returns("collect") => Value = Ancestors(call.a)
    /\ Returns("within_depth") =>
          /\ ToSet(Value) = {m \in Ancestors(call.a) \ {call.a} : Distance(call.a, m) =< call.hops}
          /\ IsInjective(Value)
          /\ \A i, j \in DOMAIN Value : i < j =>
                  Distance(call.a, Value[i]) =< Distance(call.a, Value[j])

\* TRAVERSE SHORTEST_PATH returns a path along parents and children, and a
\* shortest one; the error "no path" only comes when there is none.
ShortestPathIsShortest ==
    Returns("shortest_path") =>
        IF Value = <<>> THEN call.b \notin Ball(call.a, Cardinality(Commits))
        ELSE /\ Head(Value) = call.a /\ Last(Value) = call.b
             /\ \A i \in 1 .. Len(Value) - 1 : Value[i + 1] \in Neighbours(Value[i])
             /\ Len(Value) > 1 => call.b \notin Ball(call.a, Len(Value) - 2)

\* An edge pattern with a hop range yields exactly the other commits that some
\* walk of such a length reaches, also those that a shorter walk reached before.
EdgeEndsAreExact ==
    Returns("expand_edge") => Value = EdgeEnds(call.a, call.edge)

\* MATCH returns exactly the assignments of commits to variables under which
\* every edge of the pattern holds.
MatchIsExact ==
    Returns("match") =>
        LET p  == call.pattern
            vs == ToSet(p.vars)
        IN  Value = {f \in [vs -> Universe(call.a)] :
                        /\ \A i \in DOMAIN p.vars : f[p.vars[i]] \in p.wants[i]
                        /\ \A i \in DOMAIN p.edges : f[p.vars[i + 1]] \in EdgeEnds(f[p.vars[i]], p.edges[i])}
=============================================================================
