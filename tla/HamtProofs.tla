----------------------------- MODULE HamtProofs -----------------------------
(***************************************************************************)
(* Proofs about Hamt, for every set of keys, every hash function and every  *)
(* width of a node.  A trie is described by where the path of each key      *)
(* ends: insert and remove replace the node at the end of one path and copy *)
(* the nodes above it, and the ends of all other paths stay what they were. *)
(***************************************************************************)
EXTENDS Hamt, FiniteSetTheorems, NaturalsInduction, WellFoundedInduction, TLAPS

-----------------------------------------------------------------------------
(* Induction *)

\* A set of natural numbers has a least member.
LEMMA LeastNumber ==
    ASSUME NEW T \in SUBSET Nat, T # {}
    PROVE  \E m \in T : \A k \in T : m =< k
<1>1. IsWellFoundedOn(OpToRel(<, Nat), Nat)
    BY NatLessThanWellFounded
<1>2. PICK m \in T : \A k \in T : ~(<<k, m>> \in OpToRel(<, Nat))
    BY <1>1, WFMin
<1>3. \A k \in T : ~(k < m)
    BY <1>2, Zenon DEF OpToRel
<1> QED
    BY <1>3

\* Induction: a set with 0 and the successor of each of its numbers holds all.
LEMMA Induction ==
    ASSUME NEW T, 0 \in T, \A k \in Nat : k \in T => k + 1 \in T
    PROVE  Nat \subseteq T
<1> DEFINE Bad == {k \in Nat : k \notin T}
<1>1. SUFFICES ASSUME Bad # {} PROVE FALSE
    OBVIOUS
<1>2. PICK m \in Bad : \A k \in Bad : m =< k
    <2>1. Bad \in SUBSET Nat
        OBVIOUS
    <2> HIDE DEF Bad
    <2> QED
        BY <1>1, <2>1, LeastNumber
<1>3. m # 0 /\ m - 1 \in Nat /\ m - 1 \notin Bad
    BY <1>2
<1> QED
    BY <1>3

-----------------------------------------------------------------------------
(* The path of a key *)

\* The nodes down to depth m.
PathRun(f, n, k, m) == f[0] = n /\ \A d \in 1..m : f[d] = Below(f[d - 1], k, d - 1)

\* NodeAt walks down the path.
LEMMA NodeAtRun ==
    ASSUME NEW n, NEW k, NEW w \in Nat
    PROVE  \E f : PathRun(f, n, k, w) /\ NodeAt(n, k, w) = f[w]
<1> DEFINE Step(d, x) == Below(x, k, d - 1)
           Is(g, m) == g = [d \in 0..m |-> IF d = 0 THEN n ELSE Step(d, g[d - 1])]
           T == {m \in Nat : \E g : Is(g, m)}
           at == CHOOSE g : Is(g, w)
<1>1. NodeAt(n, k, w) = at[w]
    BY DEF NodeAt
<1>2. \A x : \A d \in 1..w : Step(d, x) = Below(x, k, d - 1)
    OBVIOUS
<1> HIDE DEF Step
<1>3. 0 \in T
    <2>1. Is([d \in 0..0 |-> n], 0)
        OBVIOUS
    <2> HIDE DEF Is
    <2> QED
        BY <2>1
<1>4. ASSUME NEW m \in Nat, m \in T PROVE m + 1 \in T
    <2>1. PICK g : Is(g, m)
        BY <1>4
    <2> DEFINE h == [d \in 0..(m + 1) |-> IF d = m + 1 THEN Step(m + 1, g[m]) ELSE g[d]]
    <2>2. ASSUME NEW d \in 0..(m + 1)
          PROVE  h[d] = IF d = 0 THEN n ELSE Step(d, h[d - 1])
        <3>1. CASE d = m + 1
            <4>1. d # 0 /\ d - 1 = m /\ m \in 0..(m + 1) /\ m # m + 1
                BY <3>1
            <4>2. h[d - 1] = g[m] /\ h[d] = Step(m + 1, g[m])
                BY <3>1, <4>1
            <4> HIDE DEF h, Is
            <4> QED
                BY <3>1, <4>1, <4>2
        <3>2. CASE d # m + 1
            <4>1. d \in 0..m /\ h[d] = g[d]
                BY <3>2
            <4>2. d # 0 => d - 1 \in 0..(m + 1) /\ d - 1 # m + 1
                BY <4>1
            <4>3. d # 0 => h[d - 1] = g[d - 1]
                BY <4>2
            <4>4. g[d] = IF d = 0 THEN n ELSE Step(d, g[d - 1])
                BY <2>1, <4>1
            <4> HIDE DEF h, Is
            <4> QED
                BY <4>1, <4>3, <4>4
        <3> QED
            BY <3>1, <3>2
    <2>3. Is(h, m + 1)
        BY <2>2
    <2> HIDE DEF Is, h
    <2> QED
        BY <2>3
<1>5. w \in T
    <2> HIDE DEF T
    <2> QED
        BY <1>3, <1>4, Induction
<1>6. Is(at, w)
    <2> HIDE DEF Is
    <2> QED
        BY <1>5
<1>7. at[0] = n /\ \A d \in 1..w : at[d] = Step(d, at[d - 1])
    <2>1. \A d \in 0..w : at[d] = IF d = 0 THEN n ELSE Step(d, at[d - 1])
        <3> HIDE DEF at
        <3> QED
            BY <1>6
    <2> HIDE DEF at, Is, T
    <2>2. 0 \in 0..w /\ \A d \in 1..w : d \in 0..w /\ d # 0
        OBVIOUS
    <2> QED
        BY <2>1, <2>2
<1> QED
    <2> HIDE DEF at, Is, T
    <2> QED
        BY <1>1, <1>2, <1>7 DEF PathRun

\* Two walks see the same nodes.
LEMMA RunsAgree ==
    ASSUME NEW n, NEW k, NEW a \in Nat, NEW b \in Nat, a =< b, NEW f, NEW g,
           PathRun(f, n, k, a), PathRun(g, n, k, b)
    PROVE  f[a] = g[a]
<1> DEFINE T == {d \in Nat : d =< a => f[d] = g[d]}
<1>1. 0 \in T
    BY DEF PathRun
<1>2. ASSUME NEW d \in Nat, d \in T PROVE d + 1 \in T
    <2>1. SUFFICES ASSUME d + 1 =< a PROVE f[d + 1] = g[d + 1]
        OBVIOUS
    <2>2. d + 1 \in 1..a /\ d + 1 \in 1..b /\ (d + 1) - 1 = d /\ d =< a
        BY <2>1
    <2>3. f[d] = g[d]
        BY <1>2, <2>2
    <2>4. f[d + 1] = Below(f[d], k, d) /\ g[d + 1] = Below(g[d], k, d)
        BY <2>2 DEF PathRun
    <2> QED
        BY <2>3, <2>4
<1>3. a \in T
    <2> HIDE DEF T
    <2> QED
        BY <1>1, <1>2, Induction
<1> QED
    BY <1>3

\* The path starts at the root, and a node is below the one before it.
LEMMA NodeAtStep ==
    ASSUME NEW n, NEW k, NEW d \in Nat
    PROVE  NodeAt(n, k, 0) = n /\ NodeAt(n, k, d + 1) = Below(NodeAt(n, k, d), k, d)
<1>1. PICK e : PathRun(e, n, k, 0) /\ NodeAt(n, k, 0) = e[0]
    BY NodeAtRun
<1>2. PICK f : PathRun(f, n, k, d) /\ NodeAt(n, k, d) = f[d]
    BY NodeAtRun
<1>3. PICK g : PathRun(g, n, k, d + 1) /\ NodeAt(n, k, d + 1) = g[d + 1]
    <2>1. d + 1 \in Nat
        OBVIOUS
    <2> QED
        BY <2>1, NodeAtRun
<1>4. f[d] = g[d]
    <2>1. d + 1 \in Nat /\ d =< d + 1
        OBVIOUS
    <2> QED
        BY <1>2, <1>3, <2>1, RunsAgree
<1>5. g[d + 1] = Below(g[d], k, d)
    <2>1. d + 1 \in 1 .. d + 1 /\ (d + 1) - 1 = d
        OBVIOUS
    <2> QED
        BY <1>3, <2>1 DEF PathRun
<1> QED
    BY <1>1, <1>2, <1>3, <1>4, <1>5 DEF PathRun

\* Nothing is below the end of the path.
LEMMA PastTheEnd ==
    ASSUME NEW n, NEW k, NEW s \in Nat, ~Descends(NodeAt(n, k, s), k, s), NEW d \in Nat, s =< d
    PROVE  ~Descends(NodeAt(n, k, d), k, d)
<1> DEFINE T == {e \in Nat : ~Descends(NodeAt(n, k, s + e), k, s + e)}
<1>1. 0 \in T
    OBVIOUS
<1>2. ASSUME NEW e \in Nat, e \in T PROVE e + 1 \in T
    <2>1. s + e \in Nat /\ (s + e) + 1 = s + (e + 1) /\ ~Descends(NodeAt(n, k, s + e), k, s + e)
        BY <1>2
    <2>2. NodeAt(n, k, (s + e) + 1) = Below(NodeAt(n, k, s + e), k, s + e)
        BY <2>1, NodeAtStep
    <2>3. NodeAt(n, k, s + (e + 1)) = NoNode
        BY <2>1, <2>2 DEF Below
    <2>4. ~Descends(NodeAt(n, k, s + (e + 1)), k, s + (e + 1))
        BY <2>3 DEF Descends, NoNode
    <2> QED
        BY <2>4
<1>3. d - s \in Nat /\ s + (d - s) = d
    OBVIOUS
<1>4. d - s \in T
    <2> HIDE DEF T
    <2> QED
        BY <1>1, <1>2, <1>3, Induction
<1> QED
    BY <1>3, <1>4

\* Depth is where the path ends.
LEMMA DepthIs ==
    ASSUME NEW n, NEW k, NEW s \in Nat, ~Descends(NodeAt(n, k, s), k, s),
           \A d \in 0 .. s - 1 : Descends(NodeAt(n, k, d), k, d)
    PROVE  Depth(n, k) = s
<1> DEFINE Down(d) == Descends(NodeAt(n, k, d), k, d)
           Is(g) == g = [d \in Nat |-> IF Down(d) THEN g[d + 1] ELSE d]
           end == CHOOSE g : Is(g)
           w == [d \in Nat |-> IF d =< s THEN s ELSE d]
<1>1. Depth(n, k) = end[0]
    BY DEF Depth
<1>2. \A d \in Nat : Down(d) <=> d < s
    <2>1. ASSUME NEW d \in Nat PROVE Down(d) <=> d < s
        <3>1. d < s => d \in 0 .. s - 1
            OBVIOUS
        <3>2. ~(d < s) => s =< d
            OBVIOUS
        <3> QED
            BY <3>1, <3>2, PastTheEnd
    <2> QED
        BY <2>1
<1> HIDE DEF Down
<1>3. ASSUME NEW d \in Nat PROVE w[d] = IF Down(d) THEN w[d + 1] ELSE d
    BY <1>2
<1>4. Is(w)
    BY <1>3
<1>5. Is(end)
    <2> HIDE DEF Is, w
    <2> QED
        BY <1>4
<1>6. \A d \in Nat : end[d] = IF Down(d) THEN end[d + 1] ELSE d
    <2> HIDE DEF end
    <2> QED
        BY <1>5
<1> HIDE DEF end, Is, w
<1> DEFINE T == {e \in Nat : e =< s => end[s - e] = s}
<1>7. 0 \in T
    BY <1>2, <1>6
<1>8. ASSUME NEW e \in Nat, e \in T PROVE e + 1 \in T
    <2>1. SUFFICES ASSUME e + 1 =< s PROVE end[s - (e + 1)] = s
        OBVIOUS
    <2>2. e =< s /\ s - (e + 1) \in Nat /\ s - (e + 1) < s /\ (s - (e + 1)) + 1 = s - e
        BY <2>1
    <2>3. end[s - e] = s
        BY <1>8, <2>2
    <2> QED
        BY <1>2, <1>6, <2>2, <2>3
<1>9. s \in T
    <2> HIDE DEF T
    <2> QED
        BY <1>7, <1>8, Induction
<1> QED
    BY <1>1, <1>9

\* The nodes that are copied, from the end of the path up.
CopyRun(f, n, k, last, s) ==
    f[0] = last /\ \A j \in 1..s : f[j] = WithChild(NodeAt(n, k, s - j), Chunk(k, s - j), f[j - 1])

\* CopyPath copies them one by one.
LEMMA CopyPathRun ==
    ASSUME NEW n, NEW k, NEW last, NEW w \in Nat, Depth(n, k) = w
    PROVE  \E f : CopyRun(f, n, k, last, w) /\ CopyPath(n, k, last) = f[w]
<1> DEFINE Step(j, x) == WithChild(NodeAt(n, k, w - j), Chunk(k, w - j), x)
           Is(g, m) == g = [j \in 0..m |-> IF j = 0 THEN last ELSE Step(j, g[j - 1])]
           T == {m \in Nat : \E g : Is(g, m)}
           up == CHOOSE g : Is(g, w)
<1>1. CopyPath(n, k, last) = up[w]
    BY DEF CopyPath
<1>2. \A x : \A j \in 1..w : Step(j, x) = WithChild(NodeAt(n, k, w - j), Chunk(k, w - j), x)
    OBVIOUS
<1> HIDE DEF Step
<1>3. 0 \in T
    <2>1. Is([j \in 0..0 |-> last], 0)
        OBVIOUS
    <2> HIDE DEF Is
    <2> QED
        BY <2>1
<1>4. ASSUME NEW m \in Nat, m \in T PROVE m + 1 \in T
    <2>1. PICK g : Is(g, m)
        BY <1>4
    <2> DEFINE h == [j \in 0..(m + 1) |-> IF j = m + 1 THEN Step(m + 1, g[m]) ELSE g[j]]
    <2>2. ASSUME NEW j \in 0..(m + 1)
          PROVE  h[j] = IF j = 0 THEN last ELSE Step(j, h[j - 1])
        <3>1. CASE j = m + 1
            <4>1. j # 0 /\ j - 1 = m /\ m \in 0..(m + 1) /\ m # m + 1
                BY <3>1
            <4>2. h[j - 1] = g[m] /\ h[j] = Step(m + 1, g[m])
                BY <3>1, <4>1
            <4> HIDE DEF h, Is
            <4> QED
                BY <3>1, <4>1, <4>2
        <3>2. CASE j # m + 1
            <4>1. j \in 0..m /\ h[j] = g[j]
                BY <3>2
            <4>2. j # 0 => j - 1 \in 0..(m + 1) /\ j - 1 # m + 1
                BY <4>1
            <4>3. j # 0 => h[j - 1] = g[j - 1]
                BY <4>2
            <4>4. g[j] = IF j = 0 THEN last ELSE Step(j, g[j - 1])
                BY <2>1, <4>1
            <4> HIDE DEF h, Is
            <4> QED
                BY <4>1, <4>3, <4>4
        <3> QED
            BY <3>1, <3>2
    <2>3. Is(h, m + 1)
        BY <2>2
    <2> HIDE DEF Is, h
    <2> QED
        BY <2>3
<1>5. w \in T
    <2> HIDE DEF T
    <2> QED
        BY <1>3, <1>4, Induction
<1>6. Is(up, w)
    <2> HIDE DEF Is
    <2> QED
        BY <1>5
<1>7. up[0] = last /\ \A j \in 1..w : up[j] = Step(j, up[j - 1])
    <2>1. \A j \in 0..w : up[j] = IF j = 0 THEN last ELSE Step(j, up[j - 1])
        <3> HIDE DEF up
        <3> QED
            BY <1>6
    <2> HIDE DEF up, Is, T
    <2>2. 0 \in 0..w /\ \A j \in 1..w : j \in 0..w /\ j # 0
        OBVIOUS
    <2> QED
        BY <2>1, <2>2
<1> QED
    <2> HIDE DEF up, Is, T
    <2> QED
        BY <1>1, <1>2, <1>7 DEF CopyRun

-----------------------------------------------------------------------------
(* Where a path ends *)

IsLeaf(n) == n = Leaf(n.key, n.val) /\ n.key \in Key /\ n.val \in Val

\* A node has one child for each bit.
IsBitmap(n) ==
    /\ n = Bitmap(n.bitmap, n.children)
    /\ n.bitmap \in SUBSET Nat /\ IsFiniteSet(n.bitmap) /\ n.bitmap # {}
    /\ n.children = [i \in 1 .. Cardinality(n.bitmap) |-> n.children[i]]
    /\ \A i \in 1 .. Cardinality(n.bitmap) : n.children[i] # NoNode

NodeOK(n) == n = NoNode \/ IsLeaf(n) \/ IsBitmap(n)

\* The path of l from n, which is at depth d, goes down j steps along f.
Walks(f, n, l, d, j) ==
    /\ f[0] = n
    /\ \A i \in 0 .. j - 1 :
          NodeOK(f[i]) /\ Descends(f[i], l, d + i) /\ f[i + 1] = Below(f[i], l, d + i)

\* It ends at x.
Ends(n, l, d, x) ==
    \E f : \E j \in Nat : Walks(f, n, l, d, j) /\ f[j] = x /\ NodeOK(x) /\ ~Descends(x, l, d + j)

\* A path that does not go down ends where it starts.
LEMMA EndsHere ==
    ASSUME NEW n, NodeOK(n), NEW l, NEW d \in Nat, ~Descends(n, l, d)
    PROVE  Ends(n, l, d, n)
<1> DEFINE f == [i \in {0} |-> n]
<1>1. f[0] = n
    OBVIOUS
<1> HIDE DEF f
<1>2. d + 0 = d /\ 0 .. 0 - 1 = {}
    OBVIOUS
<1>3. Walks(f, n, l, d, 0)
    BY <1>1, <1>2 DEF Walks
<1>4. Walks(f, n, l, d, 0) /\ f[0] = n /\ NodeOK(n) /\ ~Descends(n, l, d + 0)
    BY <1>1, <1>2, <1>3
<1> QED
    BY <1>4, Zenon DEF Ends

\* A path that goes down ends where it ends from there.
LEMMA EndsBelow ==
    ASSUME NEW n, NodeOK(n), NEW l, NEW d \in Nat, Descends(n, l, d), NEW x,
           Ends(Below(n, l, d), l, d + 1, x)
    PROVE  Ends(n, l, d, x)
<1>1. PICK f : \E j \in Nat : /\ Walks(f, Below(n, l, d), l, d + 1, j) /\ f[j] = x /\ NodeOK(x)
                              /\ ~Descends(x, l, (d + 1) + j)
    BY DEF Ends
<1>2. PICK j \in Nat : /\ Walks(f, Below(n, l, d), l, d + 1, j) /\ f[j] = x /\ NodeOK(x)
                       /\ ~Descends(x, l, (d + 1) + j)
    BY <1>1
<1> DEFINE g == [i \in Nat |-> IF i = 0 THEN n ELSE f[i - 1]]
<1>3. g[0] = n /\ \A i \in Nat : g[i + 1] = f[i]
    OBVIOUS
<1> HIDE DEF g
<1>4. ASSUME NEW i \in 0 .. (j + 1) - 1
      PROVE  NodeOK(g[i]) /\ Descends(g[i], l, d + i) /\ g[i + 1] = Below(g[i], l, d + i)
    <2>1. CASE i = 0
        <3>1. f[0] = Below(n, l, d) /\ d + 0 = d /\ g[0 + 1] = f[0]
            BY <1>2, <1>3 DEF Walks
        <3> QED
            BY <1>3, <2>1, <3>1
    <2>2. CASE i # 0
        <3>1. i - 1 \in 0 .. j - 1 /\ (d + 1) + (i - 1) = d + i /\ (i - 1) + 1 = i /\ i \in Nat /\ i - 1 \in Nat
            BY <2>2
        <3>2. /\ NodeOK(f[i - 1]) /\ Descends(f[i - 1], l, (d + 1) + (i - 1))
              /\ f[(i - 1) + 1] = Below(f[i - 1], l, (d + 1) + (i - 1))
            BY <1>2, <3>1 DEF Walks
        <3>3. g[(i - 1) + 1] = f[i - 1] /\ g[i + 1] = f[i]
            BY <1>3, <3>1
        <3> QED
            BY <3>1, <3>2, <3>3
    <2> QED
        BY <2>1, <2>2
<1>5. Walks(g, n, l, d, j + 1)
    BY <1>3, <1>4 DEF Walks
<1>6. j + 1 \in Nat /\ (d + 1) + j = d + (j + 1) /\ g[j + 1] = x
    BY <1>2, <1>3
<1>7. Walks(g, n, l, d, j + 1) /\ g[j + 1] = x /\ NodeOK(x) /\ ~Descends(x, l, d + (j + 1))
    BY <1>2, <1>5, <1>6
<1> QED
    BY <1>6, <1>7, Zenon DEF Ends

\* What the end of a path says about its first step.
LEMMA EndsInv ==
    ASSUME NEW n, NEW l, NEW d \in Nat, NEW x, Ends(n, l, d, x)
    PROVE  /\ NodeOK(n) /\ NodeOK(x)
           /\ ~Descends(n, l, d) => x = n
           /\ Descends(n, l, d) => Ends(Below(n, l, d), l, d + 1, x)
<1>1. PICK f : \E j \in Nat : /\ Walks(f, n, l, d, j) /\ f[j] = x /\ NodeOK(x) /\ ~Descends(x, l, d + j)
    BY DEF Ends
<1>2. PICK j \in Nat : /\ Walks(f, n, l, d, j) /\ f[j] = x /\ NodeOK(x) /\ ~Descends(x, l, d + j)
    BY <1>1
<1>3. CASE j = 0
    <2>1. x = n /\ d + 0 = d
        BY <1>2, <1>3 DEF Walks
    <2> QED
        BY <1>2, <1>3, <2>1
<1>4. CASE j # 0
    <2>1. 0 \in 0 .. j - 1 /\ d + 0 = d /\ 0 + 1 = 1 /\ j - 1 \in Nat /\ (j - 1) + 1 = j
        BY <1>4
    <2>2. f[0] = n /\ NodeOK(n) /\ Descends(n, l, d) /\ f[1] = Below(n, l, d)
        <3>1. f[0] = n
            BY <1>2 DEF Walks
        <3>2. NodeOK(f[0]) /\ Descends(f[0], l, d + 0) /\ f[0 + 1] = Below(f[0], l, d + 0)
            BY <1>2, <2>1 DEF Walks
        <3> QED
            BY <2>1, <3>1, <3>2
    <2> DEFINE g == [i \in Nat |-> f[i + 1]]
    <2>3. \A i \in Nat : g[i] = f[i + 1]
        OBVIOUS
    <2> HIDE DEF g
    <2>4. ASSUME NEW i \in 0 .. (j - 1) - 1
          PROVE  NodeOK(g[i]) /\ Descends(g[i], l, (d + 1) + i) /\ g[i + 1] = Below(g[i], l, (d + 1) + i)
        <3>1. i + 1 \in 0 .. j - 1 /\ d + (i + 1) = (d + 1) + i /\ i \in Nat /\ i + 1 \in Nat
            OBVIOUS
        <3>2. /\ NodeOK(f[i + 1]) /\ Descends(f[i + 1], l, d + (i + 1))
              /\ f[(i + 1) + 1] = Below(f[i + 1], l, d + (i + 1))
            BY <1>2, <3>1 DEF Walks
        <3>3. g[i] = f[i + 1] /\ g[i + 1] = f[(i + 1) + 1]
            BY <2>3, <3>1
        <3> QED
            BY <3>1, <3>2, <3>3
    <2>5. g[0] = Below(n, l, d) /\ g[j - 1] = x
        <3>1. g[0] = f[0 + 1] /\ g[j - 1] = f[(j - 1) + 1]
            BY <2>1, <2>3
        <3> QED
            BY <1>2, <2>1, <2>2, <3>1
    <2>6. Walks(g, Below(n, l, d), l, d + 1, j - 1)
        BY <2>4, <2>5 DEF Walks
    <2>7. ~Descends(x, l, (d + 1) + (j - 1))
        <3>1. (d + 1) + (j - 1) = d + j
            OBVIOUS
        <3> QED
            BY <1>2, <3>1
    <2>8. Ends(Below(n, l, d), l, d + 1, x)
        BY <1>2, <2>1, <2>5, <2>6, <2>7, Zenon DEF Ends
    <2> QED
        BY <1>2, <2>2, <2>8
<1> QED
    BY <1>3, <1>4

\* The path from the root, as Depth and NodeAt give it.
RootPath(n, k, x) ==
    LET s == Depth(n, k)
    IN  /\ s \in Nat /\ NodeAt(n, k, 0) = n
        /\ \A d \in 0 .. s - 1 :
              /\ NodeOK(NodeAt(n, k, d)) /\ Descends(NodeAt(n, k, d), k, d)
              /\ NodeAt(n, k, d + 1) = Below(NodeAt(n, k, d), k, d)
        /\ NodeAt(n, k, s) = x /\ NodeOK(x) /\ ~Descends(x, k, s)

\* Depth and NodeAt follow the path to its end.
LEMMA EndsAtRoot ==
    ASSUME NEW n, NEW k, NEW x, Ends(n, k, 0, x)
    PROVE  RootPath(n, k, x)
<1>1. PICK f : \E j \in Nat : /\ Walks(f, n, k, 0, j) /\ f[j] = x /\ NodeOK(x) /\ ~Descends(x, k, 0 + j)
    BY DEF Ends
<1>2. PICK s \in Nat : /\ Walks(f, n, k, 0, s) /\ f[s] = x /\ NodeOK(x) /\ ~Descends(x, k, 0 + s)
    BY <1>1
<1> DEFINE T == {d \in Nat : d =< s => f[d] = NodeAt(n, k, d)}
<1>3. 0 \in T
    BY <1>2, NodeAtStep DEF Walks
<1>4. ASSUME NEW d \in Nat, d \in T PROVE d + 1 \in T
    <2>1. SUFFICES ASSUME d + 1 =< s PROVE f[d + 1] = NodeAt(n, k, d + 1)
        OBVIOUS
    <2>2. d \in 0 .. s - 1 /\ d =< s /\ 0 + d = d
        BY <2>1
    <2>3. f[d + 1] = Below(f[d], k, d)
        BY <1>2, <2>2 DEF Walks
    <2> QED
        BY <1>4, <2>2, <2>3, NodeAtStep
<1>5. \A d \in 0..s : f[d] = NodeAt(n, k, d)
    <2>1. Nat \subseteq T
        <3> HIDE DEF T
        <3> QED
            BY <1>3, <1>4, Induction
    <2> QED
        BY <2>1
<1>6. ASSUME NEW d \in 0 .. s - 1
      PROVE  /\ NodeOK(NodeAt(n, k, d)) /\ Descends(NodeAt(n, k, d), k, d)
             /\ NodeAt(n, k, d + 1) = Below(NodeAt(n, k, d), k, d)
    <2>1. d \in 0..s /\ 0 + d = d /\ d \in Nat
        OBVIOUS
    <2>2. NodeOK(f[d]) /\ Descends(f[d], k, d)
        BY <1>2, <2>1 DEF Walks
    <2> QED
        BY <1>5, <2>1, <2>2, NodeAtStep
<1>7. NodeAt(n, k, s) = x /\ ~Descends(x, k, s)
    <2>1. s \in 0..s /\ 0 + s = s
        OBVIOUS
    <2> QED
        BY <1>2, <1>5, <2>1
<1>8. Depth(n, k) = s
    BY <1>6, <1>7, DepthIs
<1>9. NodeAt(n, k, 0) = n
    BY NodeAtStep
<1> QED
    BY <1>2, <1>6, <1>7, <1>8, <1>9 DEF RootPath

-----------------------------------------------------------------------------
(* Branches and their places *)

IsSeqOf(cs, m) == cs = [i \in 1..m |-> cs[i]]

\* Children are a sequence.
LEMMA ChildrenSeq ==
    ASSUME NEW m \in Nat, NEW cs, IsSeqOf(cs, m)
    PROVE  \E T : cs \in Seq(T) /\ Len(cs) = m /\ DOMAIN cs = 1..m
<1> DEFINE T == {cs[i] : i \in 1..m}
<1>1. cs \in [1..m -> T]
    BY DEF IsSeqOf
<1> HIDE DEF T
<1>2. cs \in Seq(T)
    BY <1>1
<1>3. DOMAIN cs = 1..m
    BY <1>1
<1>4. Len(cs) = m
    BY <1>2, <1>3
<1> QED
    BY <1>2, <1>3, <1>4

\* ReplaceAt changes one child.
LEMMA Replaced ==
    ASSUME NEW m \in Nat, NEW cs, IsSeqOf(cs, m), NEW p \in 1..m, NEW e
    PROVE  ReplaceAt(cs, p, e) = [i \in 1..m |-> IF i = p THEN e ELSE cs[i]]
<1>1. DOMAIN cs = 1..m
    BY DEF IsSeqOf
<1> QED
    BY <1>1 DEF ReplaceAt

\* The m elements of cs and e, which comes to stand at p.
InsertedSeq(cs, m, p, e) ==
    [i \in 1 .. m + 1 |-> IF i < p THEN cs[i] ELSE IF i = p THEN e ELSE cs[i - 1]]

\* InsertAt moves the later children up.
LEMMA Inserted ==
    ASSUME NEW m \in Nat, NEW cs, IsSeqOf(cs, m), NEW p \in 1 .. m + 1, NEW e
    PROVE  InsertAt(cs, p, e) = InsertedSeq(cs, m, p, e)
<1>1. PICK T : cs \in Seq(T) /\ Len(cs) = m /\ DOMAIN cs = 1..m
    BY ChildrenSeq
<1> DEFINE a == SubSeq(cs, 1, p - 1)
           b == SubSeq(cs, p, m)
           U == T \cup {e}
           r == InsertAt(cs, p, e)
<1>2. cs \in Seq(U) /\ e \in U
    BY <1>1
<1> HIDE DEF U
<1>3. p \in Nat /\ p >= 1 /\ p =< m + 1 /\ p - 1 \in Nat
    OBVIOUS
<1>4. a \in Seq(U) /\ Len(a) = p - 1 /\ \A i \in 1 .. p - 1 : a[i] = cs[i]
    BY <1>1, <1>2, <1>3
<1>5. b \in Seq(U) /\ Len(b) = (m + 1) - p /\ \A i \in 1 .. (m + 1) - p : b[i] = cs[(p + i) - 1]
    BY <1>1, <1>2, <1>3
<1>6. r = (a \o <<e>>) \o b
    BY <1>1 DEF InsertAt
<1> HIDE DEF a, b, r
<1> DEFINE ae == a \o <<e>>
<1>7. /\ ae \in Seq(U) /\ Len(ae) = p /\ ae[p] = e
      /\ \A i \in 1 .. p - 1 : ae[i] = cs[i]
    <2>1. ae \in Seq(U) /\ Len(ae) = p
        BY <1>2, <1>3, <1>4
    <2>2. ae[p] = e
        BY <1>2, <1>3, <1>4
    <2>3. ASSUME NEW i \in 1 .. p - 1 PROVE ae[i] = cs[i]
        BY <1>2, <1>3, <1>4
    <2> QED
        BY <2>1, <2>2, <2>3
<1>8. r = ae \o b
    BY <1>6
<1> HIDE DEF ae
<1>9. r \in Seq(U) /\ Len(r) = m + 1
    <2>0. ae \in Seq(U) /\ b \in Seq(U)
        BY <1>5, <1>7
    <2>1. r \in Seq(U) /\ Len(r) = Len(ae) + Len(b)
        BY <1>8, <2>0
    <2> QED
        BY <1>3, <1>5, <1>7, <2>1
<1>10. ASSUME NEW i \in 1 .. m + 1
       PROVE  r[i] = IF i < p THEN cs[i] ELSE IF i = p THEN e ELSE cs[i - 1]
    <2>1. CASE i =< p
        <3>1. r[i] = ae[i]
            BY <1>3, <1>5, <1>7, <1>8, <2>1
        <3>2. i < p => i \in 1 .. p - 1
            BY <1>3
        <3>3. i < p \/ i = p
            BY <1>3, <2>1
        <3> QED
            BY <1>3, <1>7, <3>1, <3>2, <3>3
    <2>2. CASE p < i
        <3>0. ae \in Seq(U) /\ b \in Seq(U) /\ Len(ae) = p /\ i \in 1 .. Len(ae \o b) /\ Len(ae) < i
            BY <1>5, <1>7, <1>8, <1>9, <2>2
        <3>1. r[i] = b[i - p]
            BY <1>8, <3>0
        <3>2. i - p \in 1 .. (m + 1) - p /\ (p + (i - p)) - 1 = i - 1 /\ ~(i < p) /\ i # p
            BY <1>3, <2>2
        <3> QED
            BY <1>5, <3>1, <3>2
    <2> QED
        BY <1>3, <2>1, <2>2
<1>11. r = [i \in 1 .. m + 1 |-> r[i]]
    BY <1>9
<1>12. r = [i \in 1 .. m + 1 |-> IF i < p THEN cs[i] ELSE IF i = p THEN e ELSE cs[i - 1]]
    BY <1>10, <1>11
<1> QED
    BY <1>12 DEF r, InsertedSeq

\* RemoveAt moves the later children down.
LEMMA Removed ==
    ASSUME NEW m \in Nat, NEW cs, IsSeqOf(cs, m), NEW p \in 1..m
    PROVE  RemoveAt(cs, p) = [i \in 1 .. m - 1 |-> IF i < p THEN cs[i] ELSE cs[i + 1]]
<1>1. PICK T : cs \in Seq(T) /\ Len(cs) = m /\ DOMAIN cs = 1..m
    BY ChildrenSeq
<1> DEFINE a == SubSeq(cs, 1, p - 1)
           b == SubSeq(cs, p + 1, m)
           r == RemoveAt(cs, p)
<1>2. p \in Nat /\ p >= 1 /\ p =< m /\ p - 1 \in Nat
    OBVIOUS
<1>3. a \in Seq(T) /\ Len(a) = p - 1 /\ \A i \in 1 .. p - 1 : a[i] = cs[i]
    BY <1>1, <1>2
<1>4. b \in Seq(T) /\ Len(b) = m - p /\ \A i \in 1 .. m - p : b[i] = cs[p + i]
    BY <1>1, <1>2
<1>5. r = a \o b
    BY <1>1 DEF RemoveAt
<1> HIDE DEF a, b, r
<1>6. r \in Seq(T) /\ Len(r) = m - 1
    BY <1>2, <1>3, <1>4, <1>5
<1>7. ASSUME NEW i \in 1 .. m - 1 PROVE r[i] = IF i < p THEN cs[i] ELSE cs[i + 1]
    <2>1. CASE i < p
        <3>1. r[i] = a[i] /\ i \in 1 .. p - 1
            BY <1>2, <1>3, <1>4, <1>5, <2>1
        <3> QED
            BY <1>3, <2>1, <3>1
    <2>2. CASE ~(i < p)
        <3>1. r[i] = b[i - (p - 1)]
            BY <1>2, <1>3, <1>4, <1>5, <2>2
        <3>2. i - (p - 1) \in 1 .. m - p /\ p + (i - (p - 1)) = i + 1
            BY <1>2, <2>2
        <3> QED
            BY <1>4, <2>2, <3>1, <3>2
    <2> QED
        BY <2>1, <2>2
<1>8. r = [i \in 1 .. m - 1 |-> r[i]]
    BY <1>2, <1>6
<1> QED
    BY <1>7, <1>8 DEF r

IsBits(bm) == bm \in SUBSET Nat /\ IsFiniteSet(bm)

\* The place of a branch lies within the children, and places grow with branches.
LEMMA IndexOrder ==
    ASSUME NEW bm, IsBits(bm), NEW c \in Nat, NEW d \in Nat
    PROVE  /\ Cardinality(bm) \in Nat /\ ChildIndex(bm, c) \in Nat /\ ChildIndex(bm, c) =< Cardinality(bm)
           /\ c \in bm => ChildIndex(bm, c) < Cardinality(bm)
           /\ c =< d => ChildIndex(bm, c) =< ChildIndex(bm, d)
           /\ c < d /\ c \in bm => ChildIndex(bm, c) < ChildIndex(bm, d)
<1> DEFINE A == {b \in bm : b < c}
           B == {b \in bm : b < d}
<1>1. IsFiniteSet(bm) /\ bm \in SUBSET Nat
    BY DEF IsBits
<1>2. A \subseteq bm /\ B \subseteq bm /\ c \notin A
    <2>1. ~(c < c)
        OBVIOUS
    <2> QED
        BY <2>1
<1>3. c =< d => A \subseteq B
    <2>1. SUFFICES ASSUME c =< d, NEW b \in A PROVE b \in B
        OBVIOUS
    <2>2. b \in Nat /\ b < c
        BY <1>1
    <2> QED
        BY <2>1, <2>2
<1>4. c < d /\ c \in bm => c \in B
    OBVIOUS
<1>5. ChildIndex(bm, c) = Cardinality(A) /\ ChildIndex(bm, d) = Cardinality(B)
    BY DEF ChildIndex
<1>6. c < d => c =< d
    OBVIOUS
<1> HIDE DEF A, B
<1>7. IsFiniteSet(A) /\ IsFiniteSet(B)
    BY <1>1, <1>2, FS_Subset
<1>8. Cardinality(bm) \in Nat /\ Cardinality(A) \in Nat /\ Cardinality(B) \in Nat
    BY <1>1, <1>7, FS_CardinalityType
<1>9. Cardinality(A) =< Cardinality(bm) /\ (Cardinality(bm) = Cardinality(A) => bm = A)
    BY <1>1, <1>2, FS_Subset
<1>10. A \subseteq B => Cardinality(A) =< Cardinality(B) /\ (Cardinality(B) = Cardinality(A) => B = A)
    BY <1>7, FS_Subset
<1>11. c \in bm => Cardinality(A) # Cardinality(bm)
    BY <1>2, <1>9
<1>12. c < d /\ c \in bm => Cardinality(A) # Cardinality(B)
    BY <1>2, <1>3, <1>4, <1>6, <1>10
<1>13. c \in bm => Cardinality(A) < Cardinality(bm)
    BY <1>8, <1>9, <1>11
<1>14. c =< d => Cardinality(A) =< Cardinality(B)
    BY <1>3, <1>10
<1>15. c < d /\ c \in bm => Cardinality(A) < Cardinality(B)
    BY <1>6, <1>8, <1>12, <1>14
<1> QED
    BY <1>5, <1>8, <1>9, <1>13, <1>14, <1>15

\* One more bit moves the branches above it.
LEMMA IndexAdded ==
    ASSUME NEW bm, IsBits(bm), NEW c \in Nat, c \notin bm, NEW d \in Nat
    PROVE  /\ IsBits(bm \cup {c}) /\ Cardinality(bm \cup {c}) = Cardinality(bm) + 1
           /\ ChildIndex(bm \cup {c}, d) = IF c < d THEN ChildIndex(bm, d) + 1 ELSE ChildIndex(bm, d)
<1> DEFINE A == {b \in bm : b < d}
           B == {b \in bm \cup {c} : b < d}
<1>1. IsFiniteSet(bm) /\ bm \in SUBSET Nat
    BY DEF IsBits
<1>2. IsFiniteSet(bm \cup {c}) /\ Cardinality(bm \cup {c}) = Cardinality(bm) + 1
    BY <1>1, FS_AddElement
<1>3. IsFiniteSet(A)
    <2>1. A \subseteq bm
        OBVIOUS
    <2> HIDE DEF A
    <2> QED
        BY <1>1, <2>1, FS_Subset
<1>4. (c < d => B = A \cup {c}) /\ (~(c < d) => B = A) /\ c \notin A
    OBVIOUS
<1>5. ChildIndex(bm, d) = Cardinality(A) /\ ChildIndex(bm \cup {c}, d) = Cardinality(B)
    BY DEF ChildIndex
<1> HIDE DEF A, B
<1>6. Cardinality(A \cup {c}) = Cardinality(A) + 1
    BY <1>3, <1>4, FS_AddElement
<1> QED
    BY <1>1, <1>2, <1>4, <1>5, <1>6 DEF IsBits

\* One bit less moves them back.
LEMMA IndexTaken ==
    ASSUME NEW bm, IsBits(bm), NEW c \in Nat, c \in bm, NEW d \in Nat
    PROVE  /\ IsBits(bm \ {c}) /\ Cardinality(bm) = Cardinality(bm \ {c}) + 1
           /\ ChildIndex(bm, d) = IF c < d THEN ChildIndex(bm \ {c}, d) + 1 ELSE ChildIndex(bm \ {c}, d)
<1> DEFINE r == bm \ {c}
<1>1. IsFiniteSet(bm) /\ bm \in SUBSET Nat
    BY DEF IsBits
<1>2. r \subseteq bm /\ c \notin r /\ r \cup {c} = bm
    OBVIOUS
<1> HIDE DEF r
<1>3. IsFiniteSet(r)
    BY <1>1, <1>2, FS_Subset
<1>4. IsBits(r)
    BY <1>1, <1>2, <1>3 DEF IsBits
<1> QED
    BY <1>2, <1>4, IndexAdded DEF r

-----------------------------------------------------------------------------
(* Nodes with one child changed *)

ChildOf(n, c) == n.children[Place(n, c)]

\* r has the bits bm and the children of n, but for the one at c.
Rebuilt(n, r, c, bm) ==
    IsBitmap(r) /\ r.bitmap = bm /\ \A d \in bm \ {c} : ChildOf(r, d) = ChildOf(n, d)

\* What a bitmap node is made of.
LEMMA BitmapFacts ==
    ASSUME NEW n, IsBitmap(n)
    PROVE  /\ n.tag = "bitmap" /\ IsBits(n.bitmap) /\ n.bitmap # {}
           /\ Cardinality(n.bitmap) \in Nat /\ Cardinality(n.bitmap) > 0
           /\ IsSeqOf(n.children, Cardinality(n.bitmap)) /\ Len(n.children) = Cardinality(n.bitmap)
           /\ \A i \in 1 .. Cardinality(n.bitmap) : n.children[i] # NoNode
           /\ n # NoNode
<1>1. n.tag = "bitmap"
    BY DEF IsBitmap, Bitmap
<1>2. n # NoNode
    BY <1>1 DEF NoNode
<1>3. IsBits(n.bitmap) /\ n.bitmap # {}
    BY DEF IsBitmap, IsBits
<1>4. IsFiniteSet(n.bitmap)
    BY DEF IsBitmap
<1>5. Cardinality(n.bitmap) \in Nat
    BY <1>4, FS_CardinalityType
<1>6. Cardinality(n.bitmap) # 0
    BY <1>3, <1>4, FS_EmptySet
<1>7. IsSeqOf(n.children, Cardinality(n.bitmap))
    BY DEF IsBitmap, IsSeqOf
<1>8. Len(n.children) = Cardinality(n.bitmap)
    BY <1>5, <1>7, ChildrenSeq
<1>9. \A i \in 1 .. Cardinality(n.bitmap) : n.children[i] # NoNode
    BY DEF IsBitmap
<1>10. Cardinality(n.bitmap) > 0
    BY <1>5, <1>6
<1> QED
    BY <1>1, <1>2, <1>3, <1>5, <1>7, <1>8, <1>9, <1>10

\* A node built from bits and as many children.
LEMMA BitmapMade ==
    ASSUME NEW bm, IsBits(bm), bm # {}, NEW m, m = Cardinality(bm), NEW cs, IsSeqOf(cs, m),
           \A i \in 1..m : cs[i] # NoNode
    PROVE  IsBitmap(Bitmap(bm, cs)) /\ Bitmap(bm, cs).bitmap = bm /\ Bitmap(bm, cs).children = cs
<1> DEFINE r == Bitmap(bm, cs)
<1>1. r.bitmap = bm /\ r.children = cs /\ r = Bitmap(r.bitmap, r.children)
    BY DEF Bitmap
<1> HIDE DEF r
<1>2. IsBitmap(r)
    BY <1>1 DEF IsBitmap, IsBits, IsSeqOf
<1> QED
    BY <1>1, <1>2 DEF r

\* Branches of a node have places among its children, different ones.
LEMMA PlaceFacts ==
    ASSUME NEW n, IsBitmap(n), NEW c \in n.bitmap
    PROVE  /\ Place(n, c) \in 1 .. Cardinality(n.bitmap) /\ ChildOf(n, c) # NoNode
           /\ \A d \in n.bitmap : d # c => Place(n, d) # Place(n, c)
<1> DEFINE bm == n.bitmap
<1>1. IsBits(bm) /\ c \in Nat
    BY BitmapFacts DEF IsBits
<1>2. Cardinality(bm) \in Nat /\ ChildIndex(bm, c) \in Nat /\ ChildIndex(bm, c) < Cardinality(bm)
    BY <1>1, IndexOrder
<1>3. Place(n, c) \in 1 .. Cardinality(bm)
    BY <1>2 DEF Place
<1>4. ChildOf(n, c) # NoNode
    BY <1>3, BitmapFacts DEF ChildOf
<1>5. ASSUME NEW d \in bm, d # c PROVE Place(n, d) # Place(n, c)
    <2>1. d \in Nat /\ ChildIndex(bm, d) \in Nat
        BY <1>1, IndexOrder DEF IsBits
    <2>2. CASE c < d
        <3>1. ChildIndex(bm, c) < ChildIndex(bm, d)
            BY <1>1, <2>1, <2>2, IndexOrder
        <3> QED
            BY <1>2, <2>1, <3>1 DEF Place
    <2>3. CASE d < c
        <3>1. ChildIndex(bm, d) < ChildIndex(bm, c)
            BY <1>1, <2>1, <2>3, IndexOrder
        <3> QED
            BY <1>2, <2>1, <3>1 DEF Place
    <2> QED
        BY <1>1, <1>5, <2>1, <2>2, <2>3
<1> QED
    BY <1>3, <1>4, <1>5

\* A child replaced.
LEMMA WithReplaced ==
    ASSUME NEW n, IsBitmap(n), NEW c \in n.bitmap, NEW u, u # NoNode, NEW r, r = WithChild(n, c, u)
    PROVE  Rebuilt(n, r, c, n.bitmap) /\ ChildOf(r, c) = u
<1> DEFINE bm == n.bitmap
           cs == n.children
           m == Cardinality(bm)
           p == Place(n, c)
           es == [i \in 1..m |-> IF i = p THEN u ELSE cs[i]]
<1>1. /\ IsBits(bm) /\ bm # {} /\ m \in Nat /\ IsSeqOf(cs, m) /\ \A i \in 1..m : cs[i] # NoNode
    BY BitmapFacts
<1>2. p \in 1..m /\ \A d \in bm : d # c => Place(n, d) # p
    BY PlaceFacts
<1>3. \A d \in bm : Place(n, d) \in 1..m
    BY PlaceFacts
<1> HIDE DEF p, m
<1>4. ReplaceAt(cs, p, u) = es
    BY <1>1, <1>2, Replaced
<1>5. r = Bitmap(bm, es)
    BY <1>4 DEF WithChild, p
<1>6. IsSeqOf(es, m) /\ \A i \in 1..m : es[i] # NoNode
    BY <1>1 DEF IsSeqOf
<1>7. es[p] = u /\ \A i \in 1..m : i # p => es[i] = cs[i]
    BY <1>2
<1> HIDE DEF es
<1>8. IsBitmap(r) /\ r.bitmap = bm /\ r.children = es
    BY <1>1, <1>5, <1>6, BitmapMade DEF m
<1>9. \A d : Place(r, d) = Place(n, d)
    BY <1>8 DEF Place
<1>10. ChildOf(r, c) = u
    BY <1>7, <1>8, <1>9 DEF ChildOf, p
<1>11. ASSUME NEW d \in bm \ {c} PROVE ChildOf(r, d) = ChildOf(n, d)
    <2>1. Place(n, d) \in 1..m /\ Place(n, d) # p
        BY <1>2, <1>3
    <2> QED
        BY <1>7, <1>8, <1>9, <2>1 DEF ChildOf
<1> QED
    BY <1>8, <1>10, <1>11 DEF Rebuilt

\* Putting back the child that is there changes nothing.
LEMMA WithSame ==
    ASSUME NEW n, IsBitmap(n), NEW c \in n.bitmap
    PROVE  WithChild(n, c, ChildOf(n, c)) = n
<1> DEFINE cs == n.children
           m == Cardinality(n.bitmap)
           p == Place(n, c)
           u == ChildOf(n, c)
<1>1. m \in Nat /\ IsSeqOf(cs, m)
    BY BitmapFacts
<1>2. p \in 1..m /\ u # NoNode
    BY PlaceFacts
<1>3. u = cs[p]
    BY DEF ChildOf
<1>4. WithChild(n, c, u) = Bitmap(n.bitmap, ReplaceAt(cs, p, u))
    BY <1>2 DEF WithChild
<1>5. n = Bitmap(n.bitmap, cs)
    BY DEF IsBitmap
<1> HIDE DEF p, m, u, cs
<1>6. ReplaceAt(cs, p, u) = cs
    <2>1. ReplaceAt(cs, p, u) = [i \in 1..m |-> IF i = p THEN u ELSE cs[i]]
        BY <1>1, <1>2, Replaced
    <2>2. [i \in 1..m |-> IF i = p THEN u ELSE cs[i]] = [i \in 1..m |-> cs[i]]
        BY <1>3
    <2> QED
        BY <1>1, <2>1, <2>2 DEF IsSeqOf
<1> QED
    BY <1>4, <1>5, <1>6 DEF u

\* r is n with the child u added at branch c.
Grown(n, r, c, u) == Rebuilt(n, r, c, n.bitmap \cup {c}) /\ ChildOf(r, c) = u

\* A child added.
LEMMA WithInserted ==
    ASSUME NEW n, IsBitmap(n), NEW c \in Nat, c \notin n.bitmap, NEW u, u # NoNode, NEW r,
           r = WithNewChild(n, c, u)
    PROVE  Grown(n, r, c, u)
<1> DEFINE bm == n.bitmap
           bn == bm \cup {c}
           cs == n.children
           m == Cardinality(bm)
           p == Place(n, c)
           es == [i \in 1 .. m + 1 |-> IF i < p THEN cs[i] ELSE IF i = p THEN u ELSE cs[i - 1]]
<1>1. /\ IsBits(bm) /\ m \in Nat /\ IsSeqOf(cs, m) /\ \A i \in 1..m : cs[i] # NoNode
    BY BitmapFacts
<1>2. p \in 1 .. m + 1 /\ p = ChildIndex(bm, c) + 1 /\ ChildIndex(bm, c) \in Nat
    <2>1. ChildIndex(bm, c) \in Nat /\ ChildIndex(bm, c) =< m
        BY <1>1, IndexOrder
    <2> QED
        BY <1>1, <2>1 DEF Place
<1>3. IsBits(bn) /\ Cardinality(bn) = m + 1
    BY <1>1, IndexAdded
<1>4. bn # {}
    OBVIOUS
<1> HIDE DEF p, m, bn
<1>5. InsertAt(cs, p, u) = es
    <2>1. InsertAt(cs, p, u) = InsertedSeq(cs, m, p, u)
        BY <1>1, <1>2, Inserted
    <2> QED
        BY <2>1 DEF InsertedSeq
<1>6. r = Bitmap(bn, es)
    <2> HIDE DEF es
    <2>1. r = Bitmap(bn, InsertAt(cs, p, u))
        BY DEF p, bn, WithNewChild
    <2> QED
        BY <1>5, <2>1
<1>7. IsSeqOf(es, m + 1)
    BY <1>1 DEF IsSeqOf
<1>8. ASSUME NEW i \in 1 .. m + 1 PROVE es[i] # NoNode
    <2>1. es[i] = IF i < p THEN cs[i] ELSE IF i = p THEN u ELSE cs[i - 1]
        OBVIOUS
    <2>2. (i < p => i \in 1..m) /\ (~(i < p) /\ i # p => i - 1 \in 1..m)
        BY <1>1, <1>2
    <2> HIDE DEF es
    <2> QED
        BY <1>1, <2>1, <2>2
<1>9. es[p] = u /\ (\A i \in 1 .. m + 1 : i < p => es[i] = cs[i]) /\ \A i \in 1..m : p =< i => es[i + 1] = cs[i]
    BY <1>1, <1>2
<1> HIDE DEF es
<1>10. IsBitmap(r) /\ r.bitmap = bn /\ r.children = es
    <2> DEFINE m1 == m + 1
    <2>1. m1 = Cardinality(bn) /\ IsSeqOf(es, m1) /\ \A i \in 1..m1 : es[i] # NoNode
        BY <1>3, <1>7, <1>8
    <2> HIDE DEF m1
    <2> QED
        BY <1>3, <1>4, <1>6, <2>1, BitmapMade
<1>11. ChildOf(r, c) = u
    <2>1. ChildIndex(bn, c) = ChildIndex(bm, c)
        <3>1. ~(c < c)
            OBVIOUS
        <3> QED
            BY <1>1, <3>1, IndexAdded DEF bn
    <2>2. Place(r, c) = p
        BY <1>2, <1>10, <2>1 DEF Place
    <2> QED
        BY <1>9, <1>10, <2>2 DEF ChildOf
<1>12. ASSUME NEW d \in bn \ {c} PROVE ChildOf(r, d) = ChildOf(n, d)
    <2>1. d \in bm /\ d \in Nat /\ d # c
        BY <1>1 DEF bn, IsBits
    <2> DEFINE q == Place(n, d)
    <2>2. q \in 1..m /\ q = ChildIndex(bm, d) + 1 /\ ChildIndex(bm, d) \in Nat
        <3>1. q \in 1..m
            BY <2>1, PlaceFacts DEF m
        <3>2. ChildIndex(bm, d) \in Nat
            BY <1>1, <2>1, IndexOrder
        <3> QED
            BY <3>1, <3>2 DEF Place
    <2>3. ChildIndex(bn, d) = IF c < d THEN ChildIndex(bm, d) + 1 ELSE ChildIndex(bm, d)
        BY <1>1, <2>1, IndexAdded DEF bn
    <2>4. Place(r, d) = IF c < d THEN q + 1 ELSE q
        BY <1>10, <2>2, <2>3 DEF Place
    <2>5. ChildOf(n, d) = cs[q] /\ ChildOf(r, d) = es[Place(r, d)]
        BY <1>10 DEF ChildOf
    <2> HIDE DEF q
    <2>6. CASE c < d
        <3>1. ChildIndex(bm, c) =< ChildIndex(bm, d)
            <4>1. c =< d
                BY <2>1, <2>6
            <4> QED
                BY <1>1, <2>1, <4>1, IndexOrder
        <3>2. p =< q
            BY <1>2, <2>2, <3>1
        <3> QED
            BY <1>9, <2>2, <2>4, <2>5, <2>6, <3>2
    <2>7. CASE ~(c < d)
        <3>1. ChildIndex(bm, d) < ChildIndex(bm, c)
            <4>1. d < c
                BY <2>1, <2>7
            <4> QED
                BY <1>1, <2>1, <4>1, IndexOrder
        <3>2. q < p /\ q \in 1 .. m + 1
            BY <1>1, <1>2, <2>2, <3>1
        <3> QED
            BY <1>9, <2>4, <2>5, <2>7, <3>2
    <2> QED
        BY <2>6, <2>7
<1> QED
    BY <1>10, <1>11, <1>12 DEF Rebuilt, bn, Grown

\* A child removed.
LEMMA WithRemoved ==
    ASSUME NEW n, IsBitmap(n), NEW c \in n.bitmap, NEW r, r = WithoutChild(n, c)
    PROVE  /\ n.bitmap = {c} => r = NoNode
           /\ n.bitmap # {c} => Rebuilt(n, r, c, n.bitmap \ {c})
<1> DEFINE bm == n.bitmap
           bn == bm \ {c}
           cs == n.children
           m == Cardinality(bm)
           p == Place(n, c)
           es == [i \in 1 .. m - 1 |-> IF i < p THEN cs[i] ELSE cs[i + 1]]
<1>1. /\ IsBits(bm) /\ m \in Nat /\ IsSeqOf(cs, m) /\ (\A i \in 1..m : cs[i] # NoNode)
      /\ Len(cs) = m /\ c \in Nat
    BY BitmapFacts DEF IsBits
<1>2. p \in 1..m /\ p = ChildIndex(bm, c) + 1 /\ ChildIndex(bm, c) \in Nat
    <2>1. p \in 1..m
        BY PlaceFacts
    <2>2. ChildIndex(bm, c) \in Nat
        BY <1>1, IndexOrder
    <2> QED
        BY <2>1, <2>2 DEF Place
<1>3. IsBits(bn) /\ m = Cardinality(bn) + 1
    BY <1>1, IndexTaken
<1>4. CASE bm = {c}
    <2>1. m = 1
        BY <1>4, FS_Singleton
    <2> QED
        BY <1>1, <1>4, <2>1 DEF WithoutChild
<1>5. CASE bm # {c}
    <2>1. bn # {}
        BY <1>5
    <2>2. m # 1
        <3>1. IsFiniteSet(bm)
            BY <1>1 DEF IsBits
        <3>2. m = 1 => \E x : bm = {x}
            BY <3>1, FS_Singleton
        <3> QED
            BY <1>5, <3>2
    <2> HIDE DEF p, m, bn
    <2>3. RemoveAt(cs, p) = es
        <3> HIDE DEF cs
        <3>1. m \in Nat /\ IsSeqOf(cs, m) /\ p \in 1..m
            BY <1>1, <1>2
        <3> QED
            BY <3>1, Removed
    <2>4. r = Bitmap(bn, es)
        BY <1>1, <2>2, <2>3 DEF p, bn, WithoutChild
    <2> DEFINE m1 == m - 1
    <2>5. m1 \in Nat /\ m1 = Cardinality(bn)
        <3>1. IsFiniteSet(bn)
            BY <1>3 DEF IsBits
        <3>2. Cardinality(bn) \in Nat
            BY <3>1, FS_CardinalityType
        <3> QED
            BY <1>1, <1>3, <3>2
    <2>6. IsSeqOf(es, m1) /\ \A i \in 1..m1 : es[i] = IF i < p THEN cs[i] ELSE cs[i + 1]
        BY <2>5 DEF IsSeqOf
    <2> HIDE DEF es
    <2>7. \A i \in 1..m1 : i \in 1..m /\ i + 1 \in 1..m
        BY <1>1, <2>5
    <2> HIDE DEF m1
    <2>8. IsBitmap(r) /\ r.bitmap = bn /\ r.children = es
        <3>1. \A i \in 1..m1 : es[i] # NoNode
            BY <1>1, <2>6, <2>7
        <3> QED
            BY <1>3, <2>1, <2>4, <2>5, <2>6, <3>1, BitmapMade
    <2>9. ASSUME NEW d \in bn \ {c} PROVE ChildOf(r, d) = ChildOf(n, d)
        <3>1. d \in bm /\ d \in Nat /\ d # c /\ d \in bn
            BY <1>1 DEF bn, IsBits
        <3> DEFINE q == Place(n, d)
                   t == Place(r, d)
        <3>2. q = ChildIndex(bm, d) + 1 /\ ChildIndex(bm, d) \in Nat
            BY <1>1, <3>1, IndexOrder DEF Place
        <3>3. t \in 1..m1 /\ t = ChildIndex(bn, d) + 1 /\ ChildIndex(bn, d) \in Nat
            <4>1. t \in 1..m1
                BY <2>5, <2>8, <3>1, PlaceFacts
            <4>2. ChildIndex(bn, d) \in Nat
                BY <1>3, <3>1, IndexOrder
            <4> QED
                BY <2>8, <4>1, <4>2 DEF Place
        <3>4. ChildIndex(bm, d) = IF c < d THEN ChildIndex(bn, d) + 1 ELSE ChildIndex(bn, d)
            BY <1>1, <3>1, IndexTaken DEF bn
        <3>5. ChildOf(n, d) = cs[q] /\ ChildOf(r, d) = es[t]
            BY <2>8 DEF ChildOf
        <3> HIDE DEF q, t
        <3>6. CASE c < d
            <4>1. ChildIndex(bm, c) < ChildIndex(bm, d)
                BY <1>1, <3>1, <3>6, IndexOrder
            <4>2. q = t + 1 /\ ~(t < p)
                BY <1>2, <3>2, <3>3, <3>4, <3>6, <4>1
            <4> QED
                BY <2>6, <3>3, <3>5, <4>2
        <3>7. CASE ~(c < d)
            <4>1. ChildIndex(bm, d) < ChildIndex(bm, c)
                <5>1. d < c
                    BY <1>1, <3>1, <3>7
                <5> QED
                    BY <1>1, <3>1, <5>1, IndexOrder
            <4>2. q = t /\ t < p
                BY <1>2, <3>2, <3>3, <3>4, <3>7, <4>1
            <4> QED
                BY <2>6, <3>3, <3>5, <4>2
        <3> QED
            BY <3>6, <3>7
    <2>10. Rebuilt(n, r, c, bn)
        BY <2>8, <2>9 DEF Rebuilt
    <2> QED
        BY <1>5, <2>10 DEF bn
<1> QED
    BY <1>4, <1>5

-----------------------------------------------------------------------------
(* What a changed node means to the paths through it *)

\* What a lookup of l returns at the end x of its path.
Reads(x, l) == IF x.tag = "leaf" /\ x.key = l THEN x.val ELSE NoVal

\* With u in the place of n, at depth d, every path still ends, and if b holds
\* then k reads w and the other keys read what they did.
Becomes(n, u, k, w, b, d) ==
    \A l \in Key : \A x : Ends(n, l, d, x) =>
        \E y : Ends(u, l, d, y) /\ (b => Reads(y, l) = IF l = k THEN w ELSE Reads(x, l))

\* Chunks are branches.
LEMMA ChunkType ==
    ASSUME NEW k \in Key, NEW d \in Nat
    PROVE  Chunk(k, d) \in Nat
<1> DEFINE h == HashChunks[k]
<1>1. h \in Seq(Branch) /\ h # <<>> /\ Branch \subseteq Nat
    BY HamtAssumption
<1> HIDE DEF h
<1>2. Len(h) \in Nat /\ Len(h) > 0
    BY <1>1
<1>3. CASE d < Len(h)
    <2>1. d + 1 \in 1 .. Len(h)
        BY <1>2, <1>3
    <2>2. h[d + 1] \in Branch
        BY <1>1, <2>1
    <2> QED
        BY <1>1, <1>3, <2>2 DEF Chunk, h
<1>4. CASE ~(d < Len(h))
    <2>1. Len(h) \in 1 .. Len(h)
        BY <1>2
    <2>2. h[Len(h)] \in Branch
        BY <1>1, <2>1
    <2> QED
        BY <1>1, <1>4, <2>2 DEF Chunk, Last, h
<1> QED
    BY <1>3, <1>4

\* Which nodes have a node below.
LEMMA DescendsFacts ==
    ASSUME NEW n, NodeOK(n), NEW l, NEW d
    PROVE  /\ Descends(n, l, d) <=> IsBitmap(n) /\ Chunk(l, d) \in n.bitmap
           /\ Descends(n, l, d) => Below(n, l, d) = ChildOf(n, Chunk(l, d))
           /\ IsLeaf(n) => n.tag = "leaf" /\ n # NoNode
           /\ IsBitmap(n) => n.tag = "bitmap" /\ n # NoNode
           /\ NoNode.tag = "none"
<1>1. IsBitmap(n) => n.tag = "bitmap"
    BY BitmapFacts
<1>2. IsLeaf(n) => n.tag = "leaf"
    BY DEF IsLeaf, Leaf
<1>3. NoNode.tag = "none"
    BY DEF NoNode
<1>4. n.tag = "bitmap" => IsBitmap(n)
    BY <1>2, <1>3 DEF NodeOK
<1>5. Descends(n, l, d) <=> n.tag = "bitmap" /\ Chunk(l, d) \in n.bitmap
    BY DEF Descends
<1>6. Descends(n, l, d) => Below(n, l, d) = ChildOf(n, Chunk(l, d))
    BY DEF Below, ChildOf
<1>7. n = NoNode => n.tag = "none"
    BY <1>3
<1> QED
    BY <1>1, <1>2, <1>3, <1>4, <1>5, <1>6, <1>7

\* A leaf, or no node at all, is the end of every path.
LEMMA LeafEnds ==
    ASSUME NEW x, x = NoNode \/ IsLeaf(x), NEW l, NEW d \in Nat
    PROVE  Ends(x, l, d, x) /\ ~Descends(x, l, d)
<1>1. NodeOK(x)
    BY DEF NodeOK
<1>2. ~Descends(x, l, d)
    <2>1. x.tag # "bitmap"
        BY <1>1, DescendsFacts
    <2> QED
        BY <2>1 DEF Descends
<1> QED
    BY <1>1, <1>2, EndsHere

\* A node that goes down for l reads what its child reads ...
LEMMA EndsThrough ==
    ASSUME NEW n, IsBitmap(n), NEW l, NEW d \in Nat, Chunk(l, d) \in n.bitmap, NEW x
    PROVE  Ends(n, l, d, x) <=> Ends(ChildOf(n, Chunk(l, d)), l, d + 1, x)
<1>1. NodeOK(n)
    BY DEF NodeOK
<1>2. Descends(n, l, d) /\ Below(n, l, d) = ChildOf(n, Chunk(l, d))
    BY <1>1, DescendsFacts
<1>3. Ends(n, l, d, x) => Ends(Below(n, l, d), l, d + 1, x)
    BY <1>2, EndsInv
<1>4. Ends(Below(n, l, d), l, d + 1, x) => Ends(n, l, d, x)
    BY <1>1, <1>2, EndsBelow
<1> QED
    BY <1>2, <1>3, <1>4

\* ... and one that does not go down reads nothing.
LEMMA EndsAtBitmap ==
    ASSUME NEW n, IsBitmap(n), NEW l, NEW d \in Nat, Chunk(l, d) \notin n.bitmap
    PROVE  /\ Ends(n, l, d, n) /\ Reads(n, l) = NoVal
           /\ \A x : Ends(n, l, d, x) => x = n
<1>1. NodeOK(n)
    BY DEF NodeOK
<1>2. ~Descends(n, l, d) /\ n.tag = "bitmap"
    BY <1>1, DescendsFacts
<1>3. Ends(n, l, d, n)
    BY <1>1, <1>2, EndsHere
<1>4. Reads(n, l) = NoVal
    BY <1>2 DEF Reads
<1>5. ASSUME NEW x, Ends(n, l, d, x) PROVE x = n
    BY <1>2, <1>5, EndsInv
<1> QED
    BY <1>3, <1>4, <1>5

\* The node above a changed one, with the changed child.
LEMMA StepUp ==
    ASSUME NEW n, NodeOK(n), NEW k \in Key, NEW d \in Nat, Descends(n, k, d), NEW u, NodeOK(u), NEW w, NEW b,
           Becomes(Below(n, k, d), u, k, w, b, d + 1), NEW r, r = WithChild(n, Chunk(k, d), u)
    PROVE  Becomes(n, r, k, w, b, d) /\ NodeOK(r)
<1> DEFINE c == Chunk(k, d)
<1>1. IsBitmap(n) /\ c \in n.bitmap /\ Below(n, k, d) = ChildOf(n, c)
    BY DescendsFacts
<1>2. d + 1 \in Nat
    OBVIOUS
<1>3. CASE u # NoNode
    <2>1. Rebuilt(n, r, c, n.bitmap) /\ ChildOf(r, c) = u
        BY <1>1, <1>3, WithReplaced
    <2>2. IsBitmap(r) /\ r.bitmap = n.bitmap
        BY <2>1 DEF Rebuilt
    <2>3. NodeOK(r)
        BY <2>2 DEF NodeOK
    <2> HIDE DEF c
    <2>4. ASSUME NEW l \in Key, NEW x, Ends(n, l, d, x)
          PROVE  \E y : Ends(r, l, d, y) /\ (b => Reads(y, l) = IF l = k THEN w ELSE Reads(x, l))
        <3>1. CASE Chunk(l, d) \notin n.bitmap
            <4>1. x = n /\ Ends(r, l, d, r) /\ Reads(r, l) = NoVal /\ Reads(x, l) = NoVal
                BY <1>1, <2>2, <2>4, <3>1, EndsAtBitmap
            <4>2. l # k
                BY <1>1, <3>1 DEF c
            <4> QED
                BY <4>1, <4>2
        <3>2. CASE Chunk(l, d) \in n.bitmap /\ Chunk(l, d) = c
            <4>1. Ends(ChildOf(n, c), l, d + 1, x)
                BY <1>1, <2>4, <3>2, EndsThrough
            <4>2. PICK y : /\ Ends(u, l, d + 1, y)
                           /\ b => Reads(y, l) = IF l = k THEN w ELSE Reads(x, l)
                BY <1>1, <4>1 DEF Becomes
            <4>3. Ends(r, l, d, y)
                BY <2>1, <2>2, <3>2, <4>2, EndsThrough
            <4> QED
                BY <4>2, <4>3
        <3>3. CASE Chunk(l, d) \in n.bitmap /\ Chunk(l, d) # c
            <4>1. Ends(ChildOf(n, Chunk(l, d)), l, d + 1, x)
                BY <1>1, <2>4, <3>3, EndsThrough
            <4>2. ChildOf(r, Chunk(l, d)) = ChildOf(n, Chunk(l, d))
                BY <2>1, <3>3 DEF Rebuilt
            <4>3. Ends(r, l, d, x)
                BY <2>2, <3>3, <4>1, <4>2, EndsThrough
            <4>4. l # k
                BY <3>3 DEF c
            <4> QED
                BY <4>3, <4>4
        <3> QED
            BY <3>1, <3>2, <3>3
    <2> QED
        BY <2>3, <2>4 DEF Becomes
<1>4. CASE u = NoNode
    <2>1. r = WithoutChild(n, c)
        BY <1>4 DEF WithChild
    <2>2. /\ n.bitmap = {c} => r = NoNode
          /\ n.bitmap # {c} => Rebuilt(n, r, c, n.bitmap \ {c})
        BY <1>1, <2>1, WithRemoved
    <2>3. NodeOK(r)
        BY <2>2 DEF NodeOK, Rebuilt
    <2> HIDE DEF c
    <2>4. ASSUME NEW l \in Key, Chunk(l, d) \notin n.bitmap \ {c} PROVE Ends(r, l, d, r) /\ Reads(r, l) = NoVal
        <3>1. CASE n.bitmap = {c}
            <4>1. r = NoNode
                BY <2>2, <3>1
            <4>2. Ends(r, l, d, r)
                BY <4>1, LeafEnds
            <4>3. Reads(r, l) = NoVal
                BY <4>1 DEF Reads, NoNode
            <4> QED
                BY <4>2, <4>3
        <3>2. CASE n.bitmap # {c}
            <4>1. IsBitmap(r) /\ r.bitmap = n.bitmap \ {c}
                BY <2>2, <3>2 DEF Rebuilt
            <4> QED
                BY <2>4, <4>1, EndsAtBitmap
        <3> QED
            BY <3>1, <3>2
    <2>5. ASSUME NEW l \in Key, NEW x, Ends(n, l, d, x)
          PROVE  \E y : Ends(r, l, d, y) /\ (b => Reads(y, l) = IF l = k THEN w ELSE Reads(x, l))
        <3>1. CASE Chunk(l, d) \notin n.bitmap
            <4>1. x = n /\ Reads(x, l) = NoVal
                BY <1>1, <2>5, <3>1, EndsAtBitmap
            <4>2. l # k
                BY <1>1, <3>1 DEF c
            <4>3. Ends(r, l, d, r) /\ Reads(r, l) = NoVal
                BY <2>4, <3>1
            <4> QED
                BY <4>1, <4>2, <4>3
        <3>2. CASE Chunk(l, d) \in n.bitmap /\ Chunk(l, d) = c
            <4>1. Ends(ChildOf(n, c), l, d + 1, x)
                BY <1>1, <2>5, <3>2, EndsThrough
            <4>2. PICK y : /\ Ends(u, l, d + 1, y)
                           /\ b => Reads(y, l) = IF l = k THEN w ELSE Reads(x, l)
                BY <1>1, <4>1 DEF Becomes
            <4>3. y = NoNode
                <5>1. ~Descends(u, l, d + 1)
                    BY <1>2, <1>4, LeafEnds
                <5> QED
                    BY <1>2, <1>4, <4>2, <5>1, EndsInv
            <4>4. Reads(y, l) = NoVal
                BY <4>3 DEF Reads, NoNode
            <4>5. Ends(r, l, d, r) /\ Reads(r, l) = NoVal
                BY <2>4, <3>2
            <4> QED
                BY <4>2, <4>4, <4>5
        <3>3. CASE Chunk(l, d) \in n.bitmap /\ Chunk(l, d) # c
            <4>1. Ends(ChildOf(n, Chunk(l, d)), l, d + 1, x)
                BY <1>1, <2>5, <3>3, EndsThrough
            <4>2. Rebuilt(n, r, c, n.bitmap \ {c})
                BY <2>2, <3>3
            <4>3. /\ ChildOf(r, Chunk(l, d)) = ChildOf(n, Chunk(l, d)) /\ IsBitmap(r)
                  /\ Chunk(l, d) \in r.bitmap
                BY <3>3, <4>2 DEF Rebuilt
            <4>4. Ends(r, l, d, x)
                BY <4>1, <4>3, EndsThrough
            <4>5. l # k
                BY <3>3 DEF c
            <4> QED
                BY <4>4, <4>5
        <3> QED
            BY <3>1, <3>2, <3>3
    <2> QED
        BY <2>3, <2>5 DEF Becomes
<1> QED
    BY <1>3, <1>4

\* The copied path.
LEMMA CopiedPath ==
    ASSUME NEW n, NEW k \in Key, NEW x, RootPath(n, k, x), NEW last, NodeOK(last), NEW w, NEW b,
           Becomes(x, last, k, w, b, Depth(n, k))
    PROVE  Becomes(n, CopyPath(n, k, last), k, w, b, 0)
<1> DEFINE s == Depth(n, k)
<1>1. s \in Nat /\ NodeAt(n, k, 0) = n /\ NodeAt(n, k, s) = x
    BY DEF RootPath
<1>2. \A d \in 0 .. s - 1 :
          /\ NodeOK(NodeAt(n, k, d)) /\ Descends(NodeAt(n, k, d), k, d)
          /\ NodeAt(n, k, d + 1) = Below(NodeAt(n, k, d), k, d)
    BY DEF RootPath
<1>3. PICK f : CopyRun(f, n, k, last, s) /\ CopyPath(n, k, last) = f[s]
    BY <1>1, CopyPathRun
<1> HIDE DEF s
<1> DEFINE T == {j \in Nat : j =< s => Becomes(NodeAt(n, k, s - j), f[j], k, w, b, s - j) /\ NodeOK(f[j])}
<1>4. 0 \in T
    <2>1. s - 0 = s /\ f[0] = last
        BY <1>1, <1>3 DEF CopyRun
    <2> QED
        BY <1>1, <2>1 DEF s
<1>5. ASSUME NEW j \in Nat, j \in T PROVE j + 1 \in T
    <2>1. SUFFICES ASSUME j + 1 =< s
                   PROVE  Becomes(NodeAt(n, k, s - (j + 1)), f[j + 1], k, w, b, s - (j + 1)) /\ NodeOK(f[j + 1])
        OBVIOUS
    <2> DEFINE d == s - (j + 1)
    <2>2. d \in Nat /\ d \in 0 .. s - 1 /\ d + 1 = s - j /\ j =< s /\ j + 1 \in 1..s /\ (j + 1) - 1 = j
        BY <1>1, <2>1
    <2>3. f[j + 1] = WithChild(NodeAt(n, k, d), Chunk(k, d), f[j])
        BY <1>3, <2>2 DEF CopyRun
    <2>4. Becomes(NodeAt(n, k, s - j), f[j], k, w, b, s - j) /\ NodeOK(f[j])
        BY <1>5, <2>2
    <2> HIDE DEF d
    <2>5. Becomes(Below(NodeAt(n, k, d), k, d), f[j], k, w, b, d + 1)
        BY <1>2, <2>2, <2>4
    <2>6. Becomes(NodeAt(n, k, d), f[j + 1], k, w, b, d) /\ NodeOK(f[j + 1])
        BY <1>2, <2>2, <2>3, <2>4, <2>5, StepUp
    <2> QED
        BY <2>6 DEF d
<1>6. s \in T
    <2> HIDE DEF T
    <2> QED
        BY <1>1, <1>4, <1>5, Induction
<1>7. s - s = 0
    BY <1>1
<1> QED
    BY <1>1, <1>3, <1>6, <1>7

\* A path that is copied unchanged is the same path.
LEMMA CopiedSame ==
    ASSUME NEW n, NEW k \in Key, NEW x, RootPath(n, k, x)
    PROVE  CopyPath(n, k, x) = n
<1> DEFINE s == Depth(n, k)
<1>1. s \in Nat /\ NodeAt(n, k, 0) = n /\ NodeAt(n, k, s) = x
    BY DEF RootPath
<1>2. \A d \in 0 .. s - 1 :
          /\ NodeOK(NodeAt(n, k, d)) /\ Descends(NodeAt(n, k, d), k, d)
          /\ NodeAt(n, k, d + 1) = Below(NodeAt(n, k, d), k, d)
    BY DEF RootPath
<1>3. PICK f : CopyRun(f, n, k, x, s) /\ CopyPath(n, k, x) = f[s]
    BY <1>1, CopyPathRun
<1> HIDE DEF s
<1> DEFINE T == {j \in Nat : j =< s => f[j] = NodeAt(n, k, s - j)}
<1>4. 0 \in T
    <2>1. s - 0 = s /\ f[0] = x
        BY <1>1, <1>3 DEF CopyRun
    <2> QED
        BY <1>1, <2>1
<1>5. ASSUME NEW j \in Nat, j \in T PROVE j + 1 \in T
    <2>1. SUFFICES ASSUME j + 1 =< s PROVE f[j + 1] = NodeAt(n, k, s - (j + 1))
        OBVIOUS
    <2> DEFINE d == s - (j + 1)
    <2>2. d \in Nat /\ d \in 0 .. s - 1 /\ d + 1 = s - j /\ j =< s /\ j + 1 \in 1..s /\ (j + 1) - 1 = j
        BY <1>1, <2>1
    <2>3. f[j + 1] = WithChild(NodeAt(n, k, d), Chunk(k, d), f[j])
        BY <1>3, <2>2 DEF CopyRun
    <2>4. f[j] = NodeAt(n, k, s - j)
        BY <1>5, <2>2
    <2> HIDE DEF d
    <2>5. f[j] = Below(NodeAt(n, k, d), k, d)
        BY <1>2, <2>2, <2>4
    <2>6. /\ IsBitmap(NodeAt(n, k, d)) /\ Chunk(k, d) \in NodeAt(n, k, d).bitmap
          /\ Below(NodeAt(n, k, d), k, d) = ChildOf(NodeAt(n, k, d), Chunk(k, d))
        BY <1>2, <2>2, DescendsFacts
    <2>7. f[j + 1] = NodeAt(n, k, d)
        BY <2>3, <2>5, <2>6, WithSame
    <2> QED
        BY <2>7 DEF d
<1>6. s \in T
    <2> HIDE DEF T
    <2> QED
        BY <1>1, <1>4, <1>5, Induction
<1>7. s - s = 0
    BY <1>1
<1> QED
    BY <1>1, <1>3, <1>6, <1>7

-----------------------------------------------------------------------------
(* The end of the path, changed *)

\* A node with two children.
LEMMA Pair ==
    ASSUME NEW a \in Nat, NEW b \in Nat, a < b, NEW x, x # NoNode, NEW y, y # NoNode,
           NEW bm, bm = {a, b}, NEW cs, cs = <<x, y>>, NEW r, r = Bitmap(bm, cs)
    PROVE  IsBitmap(r) /\ r.bitmap = bm /\ ChildOf(r, a) = x /\ ChildOf(r, b) = y
<1>1. IsFiniteSet({a}) /\ Cardinality({a}) = 1
    BY FS_Singleton
<1>2. bm = {a} \cup {b} /\ b \notin {a}
    OBVIOUS
<1>3. IsFiniteSet(bm) /\ Cardinality(bm) = 2
    <2>1. IsFiniteSet({a} \cup {b}) /\ Cardinality({a} \cup {b}) = Cardinality({a}) + 1
        <3> DEFINE A == {a}
        <3>1. IsFiniteSet(A) /\ b \notin A
            BY <1>1, <1>2
        <3> HIDE DEF A
        <3>2. IsFiniteSet(A \cup {b}) /\ Cardinality(A \cup {b}) = Cardinality(A) + 1
            BY <3>1, FS_AddElement
        <3> QED
            BY <3>2 DEF A
    <2>2. 1 + 1 = 2
        OBVIOUS
    <2> QED
        BY <1>1, <1>2, <2>1, <2>2
<1>4. IsBits(bm) /\ bm # {}
    BY <1>3 DEF IsBits
<1>5. IsSeqOf(cs, 2) /\ cs[1] = x /\ cs[2] = y
    BY DEF IsSeqOf
<1>6. \A i \in 1..2 : cs[i] # NoNode
    <2>1. \A i \in 1..2 : i = 1 \/ i = 2
        OBVIOUS
    <2> QED
        BY <1>5, <2>1
<1>7. {z \in bm : z < a} = {} /\ {z \in bm : z < b} = {a}
    OBVIOUS
<1>8. ChildIndex(bm, a) = 0 /\ ChildIndex(bm, b) = 1
    BY <1>1, <1>7, FS_EmptySet DEF ChildIndex
<1>10. IsBitmap(r) /\ r.bitmap = bm /\ r.children = cs
    BY <1>3, <1>4, <1>5, <1>6, BitmapMade
<1>11. Place(r, a) = 1 /\ Place(r, b) = 2
    BY <1>8, <1>10 DEF Place
<1> QED
    BY <1>5, <1>10, <1>11 DEF ChildOf

\* Some depth from s on tells the keys apart.
ToldApart(o, k, s) == \E e \in DepthsFrom(o, k, s) : Chunk(o, e) # Chunk(k, e)

\* Two keys that some depth tells apart split at the first that does.
LEMMA SplitFacts ==
    ASSUME NEW old, NEW o \in Key, old.key = o, NEW k \in Key, NEW s \in Nat, NEW e,
           e = SplitDepth(old, k, s), ToldApart(o, k, s)
    PROVE  /\ e \in Nat /\ Chunk(o, e) # Chunk(k, e)
           /\ Chunk(o, s) # Chunk(k, s) => e = s
<1> DEFINE lo == Len(HashChunks[o])
           lk == Len(HashChunks[k])
           E == s + lo + lk
           T == {d \in Nat : s =< d /\ Chunk(o, d) # Chunk(k, d)}
           First(d) == /\ Chunk(old.key, d) # Chunk(k, d)
                       /\ \A i \in s .. d - 1 : Chunk(old.key, i) = Chunk(k, i)
<1>1. lo \in Nat /\ lk \in Nat
    BY HamtAssumption
<1>2. E \in Nat /\ s =< E
    <2> HIDE DEF lo, lk
    <2> QED
        BY <1>1
<1>3. PICK E0 \in s .. E : Chunk(o, E0) # Chunk(k, E0)
    BY DEF ToldApart, DepthsFrom
<1> HIDE DEF E
<1>4. E0 \in T /\ E0 =< E
    BY <1>2, <1>3
<1>5. PICK m \in T : \A d \in T : m =< d
    <2>1. T \in SUBSET Nat
        OBVIOUS
    <2> HIDE DEF T
    <2> QED
        BY <1>4, <2>1, LeastNumber
<1>6. m \in s..E
    <2>1. m \in Nat /\ s =< m /\ m =< E0
        BY <1>4, <1>5
    <2>2. E0 \in Nat /\ E0 =< E
        BY <1>4
    <2> QED
        BY <1>2, <2>1, <2>2
<1>7. First(m)
    <2>1. Chunk(old.key, m) # Chunk(k, m)
        BY <1>5
    <2>2. ASSUME NEW i \in s .. m - 1 PROVE Chunk(old.key, i) = Chunk(k, i)
        <3>1. m \in Nat
            BY <1>5
        <3>2. i \in Nat /\ s =< i /\ ~(m =< i)
            BY <3>1
        <3>3. i \notin T
            BY <1>5, <3>2
        <3> QED
            BY <3>2, <3>3
    <2> QED
        BY <2>1, <2>2
<1>8. e = CHOOSE d \in s..E : First(d)
    <2>1. DepthsFrom(old.key, k, s) = s..E
        BY DEF E, DepthsFrom
    <2> QED
        BY <2>1 DEF SplitDepth
<1> HIDE DEF First
<1>9. e \in s..E /\ First(e)
    BY <1>6, <1>7, <1>8
<1>10. e \in Nat /\ s =< e
    BY <1>2, <1>9
<1>11. Chunk(o, e) # Chunk(k, e)
    BY <1>9 DEF First
<1>12. ASSUME Chunk(o, s) # Chunk(k, s) PROVE e = s
    <2>1. SUFFICES ASSUME s < e PROVE FALSE
        BY <1>10
    <2>2. s \in s .. e - 1
        BY <1>10, <2>1
    <2> QED
        BY <1>9, <1>12, <2>2 DEF First
<1> QED
    BY <1>10, <1>11, <1>12

\* The node that takes the place of a leaf.
LEMMA Expanded ==
    ASSUME NEW old, IsLeaf(old), NEW k \in Key, old.key # k, NEW v \in Val, NEW s \in Nat, NEW r,
           r = ExpandLeafCollision(old, k, v, s), NEW e, e = SplitDepth(old, k, s),
           ToldApart(old.key, k, s)
    PROVE  /\ e \in Nat /\ Chunk(old.key, e) # Chunk(k, e)
           /\ Chunk(old.key, s) # Chunk(k, s) => e = s
           /\ IsBitmap(r) /\ r.bitmap = {Chunk(old.key, e), Chunk(k, e)}
           /\ ChildOf(r, Chunk(old.key, e)) = old /\ ChildOf(r, Chunk(k, e)) = Leaf(k, v)
<1> DEFINE co == Chunk(old.key, e)
           cn == Chunk(k, e)
           new == Leaf(k, v)
<1>1. old.key \in Key
    BY DEF IsLeaf
<1>2. /\ e \in Nat /\ co # cn
      /\ Chunk(old.key, s) # Chunk(k, s) => e = s
    BY <1>1, SplitFacts
<1>3. co \in Nat /\ cn \in Nat
    BY <1>1, <1>2, ChunkType
<1>4. old # NoNode /\ new # NoNode
    BY DEF IsLeaf, Leaf, NoNode
<1>5. PICK bm, cs : bm = {co, cn} /\ (cs = IF co < cn THEN <<old, new>> ELSE <<new, old>>) /\ r = Bitmap(bm, cs)
    BY DEF ExpandLeafCollision
<1> HIDE DEF co, cn, new
<1>6. CASE co < cn
    <2>1. cs = <<old, new>>
        BY <1>5, <1>6
    <2>2. IsBitmap(r) /\ r.bitmap = bm /\ ChildOf(r, co) = old /\ ChildOf(r, cn) = new
        BY <1>3, <1>4, <1>5, <1>6, <2>1, Pair
    <2> QED
        BY <1>2, <1>5, <2>2 DEF co, cn, new
<1>7. CASE ~(co < cn)
    <2>1. cn < co
        BY <1>2, <1>3, <1>7
    <2>2. cs = <<new, old>> /\ bm = {cn, co}
        BY <1>5, <1>7
    <2>3. IsBitmap(r) /\ r.bitmap = bm /\ ChildOf(r, cn) = new /\ ChildOf(r, co) = old
        BY <1>3, <1>4, <1>5, <2>1, <2>2, Pair
    <2> QED
        BY <1>2, <1>5, <2>3 DEF co, cn, new
<1> QED
    BY <1>6, <1>7

\* The leaf that is stored.
LEMMA NewLeaf ==
    ASSUME NEW k \in Key, NEW v \in Val, NEW l \in Key, NEW d \in Nat
    PROVE  /\ IsLeaf(Leaf(k, v)) /\ Ends(Leaf(k, v), l, d, Leaf(k, v))
           /\ Reads(Leaf(k, v), l) = IF l = k THEN v ELSE NoVal
           /\ Leaf(k, v) # NoNode
<1>1. IsLeaf(Leaf(k, v)) /\ Leaf(k, v) # NoNode
    BY DEF IsLeaf, Leaf, NoNode
<1>2. Reads(Leaf(k, v), l) = IF l = k THEN v ELSE NoVal
    BY DEF Reads, Leaf
<1> QED
    BY <1>1, <1>2, LeafEnds

\* x is the leaf of another key with the same chunk at depth d.
Meets(x, k, d) == x.tag = "leaf" /\ x.key # k /\ Chunk(x.key, d) = Chunk(k, d)

\* Where an insert of k ends, the leaf of another key can be told apart from it.
Splits(x, k, d) == x.tag = "leaf" /\ x.key # k => ToldApart(x.key, k, d)

\* What an insert makes of the end of the path.
LEMMA InsertHereFacts ==
    ASSUME NEW x, NodeOK(x), NEW k \in Key, NEW v \in Val, NEW s \in Nat, ~Descends(x, k, s), NEW r,
           r = InsertHere(x, k, v, s), Splits(x, k, s)
    PROVE  NodeOK(r) /\ Becomes(x, r, k, v, ~Meets(x, k, s), s)
<1> DEFINE new == Leaf(k, v)
           c == Chunk(k, s)
<1>1. IsLeaf(new) /\ new # NoNode
    BY NewLeaf
<1>2. s + 1 \in Nat /\ c \in Nat
    BY ChunkType
<1>3. CASE x = NoNode \/ (IsLeaf(x) /\ x.key = k)
    <2>1. r = new
        <3>1. CASE x = NoNode
            <4>1. x.tag = "none"
                BY <3>1 DEF NoNode
            <4> QED
                BY <4>1 DEF InsertHere
        <3>2. CASE IsLeaf(x) /\ x.key = k
            <4>1. x.tag = "leaf"
                BY <3>2 DEF IsLeaf, Leaf
            <4> QED
                BY <3>2, <4>1 DEF InsertHere
        <3> QED
            BY <1>3, <3>1, <3>2
    <2>2. NodeOK(r)
        BY <1>1, <2>1 DEF NodeOK
    <2>3. ASSUME NEW l \in Key, NEW z, Ends(x, l, s, z)
          PROVE  Ends(r, l, s, new) /\ (Reads(new, l) = IF l = k THEN v ELSE Reads(z, l))
        <3>1. z = x
            <4>1. ~Descends(x, l, s)
                BY <1>3, LeafEnds
            <4> QED
                BY <2>3, <4>1, EndsInv
        <3>2. l # k => Reads(x, l) = NoVal
            BY <1>3 DEF Reads, NoNode
        <3>3. Ends(r, l, s, new) /\ Reads(new, l) = IF l = k THEN v ELSE NoVal
            BY <2>1, NewLeaf
        <3> QED
            BY <3>1, <3>2, <3>3
    <2> QED
        BY <2>2, <2>3 DEF Becomes
<1>4. CASE IsLeaf(x) /\ x.key # k
    <2> DEFINE e == SplitDepth(x, k, s)
               co == Chunk(x.key, e)
               cn == Chunk(k, e)
    <2>1. x.tag = "leaf" /\ x.key \in Key /\ x # NoNode
        BY <1>4 DEF IsLeaf, Leaf, NoNode
    <2>2. r = ExpandLeafCollision(x, k, v, s)
        BY <1>4, <2>1 DEF InsertHere
    <2>3. /\ e \in Nat /\ co # cn /\ (Chunk(x.key, s) # c => e = s)
          /\ IsBitmap(r) /\ r.bitmap = {co, cn}
          /\ ChildOf(r, co) = x /\ ChildOf(r, cn) = new
        <3>1. ToldApart(x.key, k, s)
            BY <1>4, <2>1 DEF Splits
        <3> QED
            BY <1>4, <2>2, <3>1, Expanded
    <2>4. NodeOK(r)
        BY <2>3 DEF NodeOK
    <2>5. ~Meets(x, k, s) => e = s
        BY <1>4, <2>1, <2>3 DEF Meets
    <2> HIDE DEF e, new
    <2>6. ASSUME NEW l \in Key, NEW z, Ends(x, l, s, z)
          PROVE  \E y : Ends(r, l, s, y) /\ (~Meets(x, k, s) => Reads(y, l) = IF l = k THEN v ELSE Reads(z, l))
        <3>1. z = x
            <4>1. ~Descends(x, l, s)
                BY <1>4, LeafEnds
            <4> QED
                BY <2>6, <4>1, EndsInv
        <3>2. l # x.key => Reads(x, l) = NoVal
            BY DEF Reads
        <3>3. CASE Chunk(l, s) = cn
            <4>1. Ends(new, l, s + 1, new) /\ Reads(new, l) = IF l = k THEN v ELSE NoVal
                BY <1>2, NewLeaf DEF new
            <4>2. Ends(r, l, s, new)
                <5>1. Chunk(l, s) \in r.bitmap
                    BY <2>3, <3>3
                <5> QED
                    BY <2>3, <3>3, <4>1, <5>1, EndsThrough
            <4>3. e = s => l # x.key
                BY <2>3, <3>3
            <4> QED
                BY <2>5, <3>1, <3>2, <4>1, <4>2, <4>3
        <3>4. CASE Chunk(l, s) = co
            <4>1. Ends(x, l, s + 1, x)
                BY <1>2, <1>4, LeafEnds
            <4>2. Ends(r, l, s, x)
                <5>1. Chunk(l, s) \in r.bitmap
                    BY <2>3, <3>4
                <5> QED
                    BY <2>3, <3>4, <4>1, <5>1, EndsThrough
            <4>3. e = s => l # k
                BY <2>3, <3>4
            <4> QED
                BY <2>5, <3>1, <4>2, <4>3
        <3>5. CASE Chunk(l, s) # cn /\ Chunk(l, s) # co
            <4>1. Ends(r, l, s, r) /\ Reads(r, l) = NoVal
                BY <2>3, <3>5, EndsAtBitmap
            <4>2. e = s => l # k /\ l # x.key
                BY <3>5
            <4> QED
                BY <2>5, <3>1, <3>2, <4>1, <4>2
        <3> QED
            BY <3>3, <3>4, <3>5
    <2> QED
        BY <2>4, <2>6 DEF Becomes
<1>5. CASE IsBitmap(x)
    <2>1. x.tag = "bitmap" /\ c \notin x.bitmap
        BY <1>5, DescendsFacts
    <2>2. r = WithNewChild(x, c, new)
        BY <2>1 DEF InsertHere
    <2> HIDE DEF new
    <2>3. Rebuilt(x, r, c, x.bitmap \cup {c}) /\ ChildOf(r, c) = new
        <3>1. Grown(x, r, c, new)
            BY <1>1, <1>2, <1>5, <2>1, <2>2, WithInserted
        <3> QED
            BY <3>1 DEF Grown
    <2>4. IsBitmap(r) /\ r.bitmap = x.bitmap \cup {c}
        BY <2>3 DEF Rebuilt
    <2>5. NodeOK(r)
        BY <2>4 DEF NodeOK
    <2>6. ASSUME NEW l \in Key, NEW z, Ends(x, l, s, z)
          PROVE  \E y : Ends(r, l, s, y) /\ (Reads(y, l) = IF l = k THEN v ELSE Reads(z, l))
        <3>1. CASE Chunk(l, s) = c
            <4>1. Ends(new, l, s + 1, new) /\ Reads(new, l) = IF l = k THEN v ELSE NoVal
                BY <1>2, NewLeaf DEF new
            <4>2. Ends(r, l, s, new)
                <5>1. Chunk(l, s) \in r.bitmap
                    BY <2>4, <3>1
                <5> QED
                    BY <2>3, <2>4, <3>1, <4>1, <5>1, EndsThrough
            <4>3. z = x /\ Reads(x, l) = NoVal
                BY <1>5, <2>1, <2>6, <3>1, EndsAtBitmap
            <4> QED
                BY <4>1, <4>2, <4>3
        <3>2. CASE Chunk(l, s) # c /\ Chunk(l, s) \in x.bitmap
            <4>1. Ends(ChildOf(x, Chunk(l, s)), l, s + 1, z)
                BY <1>5, <2>6, <3>2, EndsThrough
            <4>2. ChildOf(r, Chunk(l, s)) = ChildOf(x, Chunk(l, s)) /\ Chunk(l, s) \in r.bitmap
                BY <2>3, <2>4, <3>2 DEF Rebuilt
            <4>3. Ends(r, l, s, z)
                BY <2>4, <4>1, <4>2, EndsThrough
            <4>4. l # k
                BY <3>2
            <4> QED
                BY <4>3, <4>4
        <3>3. CASE Chunk(l, s) # c /\ Chunk(l, s) \notin x.bitmap
            <4>1. z = x /\ Reads(x, l) = NoVal
                BY <1>5, <2>6, <3>3, EndsAtBitmap
            <4>2. Ends(r, l, s, r) /\ Reads(r, l) = NoVal
                <5>1. Chunk(l, s) \notin r.bitmap
                    BY <2>4, <3>3
                <5> QED
                    BY <2>4, <5>1, EndsAtBitmap
            <4>3. l # k
                BY <3>3
            <4> QED
                BY <4>1, <4>2, <4>3
        <3> QED
            BY <3>1, <3>2, <3>3
    <2> QED
        BY <2>5, <2>6 DEF Becomes
<1> QED
    BY <1>3, <1>4, <1>5 DEF NodeOK

\* What a remove makes of the leaf it finds.
LEMMA RemoveHereFacts ==
    ASSUME NEW x, IsLeaf(x), NEW k \in Key, x.key = k, NEW s \in Nat
    PROVE  Becomes(x, NoNode, k, NoVal, TRUE, s)
<1>1. ASSUME NEW l \in Key, NEW z, Ends(x, l, s, z)
      PROVE  Ends(NoNode, l, s, NoNode) /\ Reads(NoNode, l) = IF l = k THEN NoVal ELSE Reads(z, l)
    <2>1. z = x
        <3>1. ~Descends(x, l, s)
            BY LeafEnds
        <3> QED
            BY <1>1, <3>1, EndsInv
    <2>2. l # k => Reads(x, l) = NoVal
        BY DEF Reads
    <2>3. Reads(NoNode, l) = NoVal
        BY DEF Reads, NoNode
    <2>4. Ends(NoNode, l, s, NoNode)
        BY LeafEnds
    <2> QED
        BY <2>1, <2>2, <2>3, <2>4
<1> QED
    BY <1>1 DEF Becomes

-----------------------------------------------------------------------------
(* The specification *)

\* The inductive invariant: the path of every key ends, through nodes with one
\* child for each bit, and as long as no insert met another key's leaf it ends
\* at what the map has for the key.
HamtInv ==
    /\ model \in [Key -> Val \cup {NoVal}]
    /\ collided \in BOOLEAN
    /\ \A l \in Key : \E x : Ends(root, l, 0, x) /\ (~collided => Reads(x, l) = model[l])

\* The tree of a new map.
LEMMA InitInv ==
    ASSUME Init
    PROVE  HamtInv
<1>1. root = NoNode /\ model = [k \in Key |-> NoVal] /\ collided = FALSE
    BY DEF Init
<1>2. ASSUME NEW l \in Key PROVE Ends(root, l, 0, root) /\ Reads(root, l) = model[l]
    <2>1. Ends(root, l, 0, root)
        BY <1>1, LeafEnds
    <2>2. Reads(root, l) = NoVal
        BY <1>1 DEF Reads, NoNode
    <2> QED
        BY <1>1, <2>1, <2>2
<1>3. model \in [Key -> Val \cup {NoVal}] /\ collided \in BOOLEAN
    BY <1>1
<1> QED
    BY <1>2, <1>3 DEF HamtInv

\* A node at the end of a path is a leaf when it says so.
LEMMA LeafByTag ==
    ASSUME NEW x, NodeOK(x), x.tag = "leaf"
    PROVE  IsLeaf(x)
<1>1. x # NoNode
    BY DEF NoNode
<1>2. ~IsBitmap(x)
    BY BitmapFacts
<1> QED
    BY <1>1, <1>2 DEF NodeOK

\* An insert.
LEMMA InsertInv ==
    ASSUME HamtInv, NEW k \in Key, NEW v \in Val, InsertKey(k, v)
    PROVE  HamtInv'
<1>1. /\ root' = InsertInternal(root, k, v) /\ model' = [model EXCEPT ![k] = v]
      /\ collided' = (collided \/ Collides(root, k))
    BY DEF InsertKey
<1>2. PICK x : Ends(root, k, 0, x)
    BY DEF HamtInv
<1>3. RootPath(root, k, x)
    BY <1>2, EndsAtRoot
<1> DEFINE s == Depth(root, k)
           last == InsertHere(x, k, v, s)
<1>4. s \in Nat /\ PathEnd(root, k) = x /\ NodeOK(x) /\ ~Descends(x, k, s)
    BY <1>3 DEF RootPath, PathEnd
<1>5. Collides(root, k) <=> Meets(x, k, s)
    BY <1>4 DEF Collides, Meets
<1>6. NodeOK(last) /\ Becomes(x, last, k, v, ~Meets(x, k, s), s)
    <2>1. Splits(x, k, s)
        BY <1>4 DEF InsertKey, InsertReturns, ToldApart, Splits
    <2> QED
        BY <1>4, <2>1, InsertHereFacts
<1>7. root' = CopyPath(root, k, last)
    BY <1>1, <1>4 DEF InsertInternal
<1>8. Becomes(root, root', k, v, ~Meets(x, k, s), 0)
    <2> HIDE DEF last
    <2> QED
        BY <1>3, <1>6, <1>7, CopiedPath
<1> HIDE DEF s, last
<1>9. model' \in [Key -> Val \cup {NoVal}] /\ \A l \in Key : model'[l] = IF l = k THEN v ELSE model[l]
    BY <1>1 DEF HamtInv
<1>10. collided' \in BOOLEAN /\ (~collided' => ~collided /\ ~Meets(x, k, s))
    BY <1>1, <1>5 DEF HamtInv
<1>11. ASSUME NEW l \in Key PROVE \E y : Ends(root', l, 0, y) /\ (~collided' => Reads(y, l) = model'[l])
    <2>1. PICK z : Ends(root, l, 0, z) /\ (~collided => Reads(z, l) = model[l])
        BY DEF HamtInv
    <2>2. PICK y : /\ Ends(root', l, 0, y)
                   /\ ~Meets(x, k, s) => Reads(y, l) = IF l = k THEN v ELSE Reads(z, l)
        BY <1>8, <2>1 DEF Becomes
    <2>3. ~collided' => Reads(y, l) = model'[l]
        BY <1>9, <1>10, <2>1, <2>2
    <2> QED
        BY <2>2, <2>3
<1>12. (\A l \in Key : \E y : Ends(root, l, 0, y) /\ (~collided => Reads(y, l) = model[l]))'
    BY <1>11
<1> QED
    BY <1>9, <1>10, <1>12 DEF HamtInv

\* A remove of a key that is not there leaves the tree as it is, and a remove of
\* one that is there takes it out of the map.
LEMMA RemoveFacts ==
    ASSUME HamtInv, NEW k \in Key, RemoveKey(k), NEW x, Ends(root, k, 0, x)
    PROVE  /\ ~(x.tag = "leaf" /\ x.key = k) => root' = root /\ Reads(x, k) = NoVal
           /\ x.tag = "leaf" /\ x.key = k => Becomes(root, root', k, NoVal, TRUE, 0)
<1>1. root' = IF root = NoNode THEN NoNode ELSE RemoveInternal(root, k)
    BY DEF RemoveKey
<1>2. RootPath(root, k, x)
    BY EndsAtRoot
<1> DEFINE s == Depth(root, k)
<1>3. s \in Nat /\ PathEnd(root, k) = x /\ NodeOK(x)
    BY <1>2 DEF RootPath, PathEnd
<1>4. CASE ~(x.tag = "leaf" /\ x.key = k)
    <2>1. Reads(x, k) = NoVal
        BY <1>4 DEF Reads
    <2>2. RemoveInternal(root, k) = CopyPath(root, k, x)
        BY <1>3, <1>4 DEF RemoveInternal
    <2>3. root' = root
        BY <1>1, <1>2, <2>2, CopiedSame
    <2> QED
        BY <1>4, <2>1, <2>3
<1>5. CASE x.tag = "leaf" /\ x.key = k
    <2>1. IsLeaf(x)
        BY <1>3, <1>5, LeafByTag
    <2>2. root # NoNode
        <3>1. SUFFICES ASSUME root = NoNode PROVE FALSE
            OBVIOUS
        <3>2. ~Descends(root, k, 0)
            BY <3>1, LeafEnds
        <3>3. x = NoNode
            BY <3>1, <3>2, EndsInv
        <3> QED
            BY <1>5, <3>3 DEF NoNode
    <2>3. root' = CopyPath(root, k, NoNode)
        BY <1>1, <1>3, <1>5, <2>2 DEF RemoveInternal
    <2>4. Becomes(x, NoNode, k, NoVal, TRUE, s)
        BY <1>3, <1>5, <2>1, RemoveHereFacts
    <2>5. NodeOK(NoNode)
        BY DEF NodeOK
    <2>6. Becomes(root, CopyPath(root, k, NoNode), k, NoVal, TRUE, 0)
        BY <1>2, <2>4, <2>5, CopiedPath
    <2> QED
        BY <1>5, <2>3, <2>6
<1> QED
    BY <1>4, <1>5

\* A remove.
LEMMA RemoveInv ==
    ASSUME HamtInv, NEW k \in Key, RemoveKey(k)
    PROVE  HamtInv'
<1>1. model' = [model EXCEPT ![k] = NoVal] /\ collided' = collided
    BY DEF RemoveKey
<1>2. PICK x : Ends(root, k, 0, x) /\ (~collided => Reads(x, k) = model[k])
    BY DEF HamtInv
<1>3. /\ ~(x.tag = "leaf" /\ x.key = k) => root' = root /\ Reads(x, k) = NoVal
      /\ x.tag = "leaf" /\ x.key = k => Becomes(root, root', k, NoVal, TRUE, 0)
    BY <1>2, RemoveFacts
<1>4. model' \in [Key -> Val \cup {NoVal}] /\ \A l \in Key : model'[l] = IF l = k THEN NoVal ELSE model[l]
    BY <1>1 DEF HamtInv
<1>5. collided' \in BOOLEAN
    BY <1>1 DEF HamtInv
<1>6. ASSUME NEW l \in Key PROVE \E y : Ends(root', l, 0, y) /\ (~collided' => Reads(y, l) = model'[l])
    <2>1. PICK z : Ends(root, l, 0, z) /\ (~collided => Reads(z, l) = model[l])
        BY DEF HamtInv
    <2>2. CASE ~(x.tag = "leaf" /\ x.key = k)
        <3>1. root' = root
            BY <1>3, <2>2
        <3>2. ~collided' => model'[l] = model[l]
            BY <1>1, <1>2, <1>3, <1>4, <2>2
        <3> QED
            BY <1>1, <2>1, <3>1, <3>2
    <2>3. CASE x.tag = "leaf" /\ x.key = k
        <3>1. PICK y : Ends(root', l, 0, y) /\ Reads(y, l) = IF l = k THEN NoVal ELSE Reads(z, l)
            BY <1>3, <2>1, <2>3 DEF Becomes
        <3>2. ~collided' => Reads(y, l) = model'[l]
            BY <1>1, <1>4, <2>1, <3>1
        <3> QED
            BY <3>1, <3>2
    <2> QED
        BY <2>2, <2>3
<1>7. (\A l \in Key : \E y : Ends(root, l, 0, y) /\ (~collided => Reads(y, l) = model[l]))'
    BY <1>6
<1> QED
    BY <1>4, <1>5, <1>7 DEF HamtInv

\* Every step keeps the invariant.
LEMMA NextInv ==
    ASSUME HamtInv, [Next]_vars
    PROVE  HamtInv'
<1>1. CASE \E k \in Key, v \in Val : InsertKey(k, v)
    BY <1>1, InsertInv
<1>2. CASE \E k \in Key : RemoveKey(k)
    BY <1>2, RemoveInv
<1>3. CASE UNCHANGED vars
    <2>1. root' = root /\ model' = model /\ collided' = collided
        BY <1>3 DEF vars
    <2> QED
        BY <2>1 DEF HamtInv
<1> QED
    BY <1>1, <1>2, <1>3 DEF Next

\* What the invariant says about lookups.
LEMMA InvReads ==
    ASSUME HamtInv
    PROVE  ReadsMatchMap
<1>1. ASSUME NEW k \in Key, NEW d \in 0 .. Depth(root, k), NEW n, n = NodeAt(root, k, d), n.tag = "bitmap"
      PROVE  Len(n.children) = Cardinality(n.bitmap) /\ n.bitmap # {}
    <2>1. PICK x : Ends(root, k, 0, x)
        BY DEF HamtInv
    <2>2. RootPath(root, k, x)
        BY <2>1, EndsAtRoot
    <2> DEFINE s == Depth(root, k)
    <2>3. /\ s \in Nat /\ NodeAt(root, k, s) = x /\ NodeOK(x)
          /\ \A i \in 0 .. s - 1 : NodeOK(NodeAt(root, k, i))
        BY <2>2 DEF RootPath
    <2> HIDE DEF s
    <2>4. d \in 0 .. s - 1 \/ d = s
        BY <2>3 DEF s
    <2>5. NodeOK(n)
        BY <1>1, <2>3, <2>4
    <2>6. IsBitmap(n)
        BY <1>1, <2>5 DEF NodeOK, NoNode, IsLeaf, Leaf
    <2> QED
        BY <2>6, BitmapFacts
<1>2. ASSUME ~collided, NEW k \in Key
      PROVE  /\ Get(root, k) = model[k]
             /\ LeafHash(root, k) = IF model[k] = NoVal THEN NoNode ELSE Leaf(k, model[k])
    <2>1. PICK x : Ends(root, k, 0, x) /\ Reads(x, k) = model[k]
        BY <1>2 DEF HamtInv
    <2>2. PathEnd(root, k) = x /\ NodeOK(x)
        <3>1. RootPath(root, k, x)
            BY <2>1, EndsAtRoot
        <3> QED
            BY <3>1 DEF RootPath, PathEnd
    <2>3. CASE x.tag = "leaf" /\ x.key = k
        <3>1. IsLeaf(x)
            BY <2>2, <2>3, LeafByTag
        <3>2. x = Leaf(k, x.val) /\ x.val \in Val /\ x # NoNode
            BY <2>3, <3>1 DEF IsLeaf, Leaf, NoNode
        <3>3. LeafHash(root, k) = x
            BY <2>2, <2>3 DEF LeafHash
        <3>4. Get(root, k) = x.val
            BY <3>2, <3>3 DEF Get
        <3>5. model[k] = x.val
            BY <2>1, <2>3 DEF Reads
        <3>6. x.val # NoVal
            BY <3>2, HamtAssumption
        <3> QED
            BY <3>2, <3>3, <3>4, <3>5, <3>6
    <2>4. CASE ~(x.tag = "leaf" /\ x.key = k)
        <3>1. LeafHash(root, k) = NoNode
            BY <2>2, <2>4 DEF LeafHash
        <3>2. Get(root, k) = NoVal
            BY <3>1 DEF Get
        <3>3. model[k] = NoVal
            BY <2>1, <2>4 DEF Reads
        <3> QED
            BY <3>1, <3>2, <3>3
    <2> QED
        BY <2>3, <2>4
<1>3. ChildrenMatchBitmap
    BY <1>1 DEF ChildrenMatchBitmap
<1> QED
    BY <1>2, <1>3 DEF ReadsMatchMap

\* Every lookup ends without a panic, and until an insert meets another key's leaf
\* with an equal chunk get and leaf_hash see the map that was built.
THEOREM ReadsAreTheMap == Spec => []ReadsMatchMap
<1>1. Init => HamtInv
    BY InitInv
<1>2. HamtInv /\ [Next]_vars => HamtInv'
    BY NextInv
<1>3. HamtInv => ReadsMatchMap
    BY InvReads
<1> QED
    BY <1>1, <1>2, <1>3, PTL DEF Spec

\* A step that leaves the map as it is, and meets no other leaf, leaves the root.
LEMMA SameStep ==
    ASSUME HamtInv, Next, model' = model, ~collided'
    PROVE  root' = root
<1>1. ASSUME NEW k \in Key, NEW v \in Val, InsertKey(k, v) PROVE root' = root
    <2>1. /\ root' = InsertInternal(root, k, v) /\ model' = [model EXCEPT ![k] = v]
          /\ collided' = (collided \/ Collides(root, k))
        BY <1>1 DEF InsertKey
    <2>2. model[k] = v /\ ~collided
        BY <2>1 DEF HamtInv
    <2>3. PICK x : Ends(root, k, 0, x) /\ Reads(x, k) = v
        BY <2>2 DEF HamtInv
    <2>4. RootPath(root, k, x)
        BY <2>3, EndsAtRoot
    <2>5. PathEnd(root, k) = x /\ NodeOK(x)
        BY <2>4 DEF RootPath, PathEnd
    <2>6. x.tag = "leaf" /\ x.key = k /\ x.val = v
        BY <2>3, HamtAssumption DEF Reads
    <2>7. x = Leaf(k, v)
        BY <2>5, <2>6, LeafByTag DEF IsLeaf
    <2>8. InsertHere(x, k, v, Depth(root, k)) = x
        BY <2>6, <2>7 DEF InsertHere
    <2>9. root' = CopyPath(root, k, x)
        BY <2>1, <2>5, <2>8 DEF InsertInternal
    <2> QED
        BY <2>4, <2>9, CopiedSame
<1>2. ASSUME NEW k \in Key, RemoveKey(k) PROVE root' = root
    <2>1. model' = [model EXCEPT ![k] = NoVal] /\ collided' = collided
        BY <1>2 DEF RemoveKey
    <2>2. model[k] = NoVal /\ ~collided
        BY <2>1 DEF HamtInv
    <2>3. PICK x : Ends(root, k, 0, x) /\ Reads(x, k) = NoVal
        BY <2>2 DEF HamtInv
    <2>4. ~(x.tag = "leaf" /\ x.key = k)
        <3>1. SUFFICES ASSUME x.tag = "leaf", x.key = k PROVE FALSE
            OBVIOUS
        <3>2. NodeOK(x)
            BY <2>3, EndsInv
        <3>3. x.val \in Val
            BY <3>1, <3>2, LeafByTag DEF IsLeaf
        <3> QED
            BY <2>3, <3>1, <3>3, HamtAssumption DEF Reads
    <2> QED
        BY <1>2, <2>3, <2>4, RemoveFacts
<1> QED
    BY <1>1, <1>2 DEF Next

\* Storing a value again or removing an absent key returns the root it was given.
THEOREM NoChangeNoNewRoot == Spec => SameMapSameRoot
<1>1. Init => HamtInv
    BY InitInv
<1>2. HamtInv /\ [Next]_vars => HamtInv'
    BY NextInv
<1>3. HamtInv /\ [Next]_vars => [model' = model /\ ~collided' => root' = root]_vars
    BY SameStep
<1> QED
    BY <1>1, <1>2, <1>3, PTL DEF Spec, SameMapSameRoot
=============================================================================
