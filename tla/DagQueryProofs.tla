--------------------------- MODULE DagQueryProofs ---------------------------
(***************************************************************************)
(* The walks over the commit graph return what they are meant to return, on *)
(* graphs of any size, for any tips, depths, edges and patterns.            *)
(*                                                                          *)
(* What a walk is meant to compute is a recursive function on the number of *)
(* steps; Walk is shown to satisfy its recursion once, for every graph, and *)
(* induction on the number of steps is used in the form of a set of numbers *)
(* that is closed under successor.                                          *)
(***************************************************************************)
EXTENDS DagQuery, FiniteSetTheorems, SequenceTheorems, TLAPS

-----------------------------------------------------------------------------
(* Numbers, recursion, sequences *)

\* A set of natural numbers has a least member.
LEMMA LeastNumber ==
    ASSUME NEW T \in SUBSET Nat, T # {}
    PROVE  \E m \in T : \A k \in T : m =< k
<1>1. IsWellFoundedOn(OpToRel(<, Nat), Nat)
    BY NatLessThanWellFounded
<1>2. PICK m \in T : \A k \in T : ~(<<k, m>> \in OpToRel(<, Nat))
    BY <1>1, WFMin
<1>3. \A k \in T : ~(k < m)
    BY <1>2, Zenon DEF OpToRel
<1> QED
    BY <1>3

\* Induction: a set with 0 and the successor of each of its numbers holds all.
LEMMA Induction ==
    ASSUME NEW T, 0 \in T, \A k \in Nat : k \in T => k + 1 \in T
    PROVE  Nat \subseteq T
<1> DEFINE Bad == {k \in Nat : k \notin T}
<1>1. SUFFICES ASSUME Bad # {} PROVE FALSE
    OBVIOUS
<1>2. PICK m \in Bad : \A k \in Bad : m =< k
    <2>1. Bad \in SUBSET Nat
        OBVIOUS
    <2> HIDE DEF Bad
    <2> QED
        BY <1>1, <2>1, LeastNumber
<1>3. m # 0 /\ m - 1 \in Nat /\ m - 1 \notin Bad
    BY <1>2
<1> QED
    BY <1>3

\* f starts with x and gets its next values from F.
Follows(f, x, F) == f[0] = x /\ \A k \in Nat : f[k + 1] = F[k][f[k]]

\* A recursion in which a value depends on the one before it defines a function.
LEMMA Recursion ==
    ASSUME NEW S, NEW x \in S, NEW F \in [Nat -> [S -> S]]
    PROVE  \E f \in [Nat -> S] : Follows(f, x, F)
<1> DEFINE Upto(n) == {g \in [0..n -> S] : g[0] = x /\ \A k \in 0 .. n - 1 : g[k + 1] = F[k][g[k]]}
           T == {n \in Nat : Upto(n) # {}}
<1>1. Nat \subseteq T
    <2>1. 0 \in T
        <3>1. [i \in 0..0 |-> x] \in Upto(0)
            OBVIOUS
        <3> QED
            BY <3>1
    <2>2. ASSUME NEW n \in Nat, n \in T PROVE n + 1 \in T
        <3>1. PICK g \in Upto(n) : TRUE
            BY <2>2
        <3> DEFINE h == [i \in 0 .. n + 1 |-> IF i = n + 1 THEN F[n][g[n]] ELSE g[i]]
        <3>2. h \in [0 .. n + 1 -> S]
            BY <3>1
        <3>3. h[0] = x
            BY <3>1
        <3>4. ASSUME NEW k \in 0 .. (n + 1) - 1 PROVE h[k + 1] = F[k][h[k]]
            <4>1. CASE k = n
                <5>1. n \in 0 .. n + 1 /\ n + 1 \in 0 .. n + 1 /\ n # n + 1
                    OBVIOUS
                <5>2. h[n + 1] = F[n][g[n]] /\ h[n] = g[n]
                    BY <5>1
                <5> HIDE DEF h
                <5> QED
                    BY <4>1, <5>2
            <4>2. CASE k # n
                <5>1. k \in 0 .. n - 1 /\ h[k + 1] = g[k + 1] /\ h[k] = g[k]
                    BY <4>2
                <5> QED
                    BY <3>1, <5>1
            <4> QED
                BY <4>1, <4>2
        <3>5. h \in Upto(n + 1)
            <4> HIDE DEF h
            <4> QED
                BY <3>2, <3>3, <3>4
        <3> HIDE DEF h, Upto
        <3> QED
            BY <3>5
    <2> HIDE DEF T
    <2> QED
        BY <2>1, <2>2, Induction
<1>2. ASSUME NEW n \in Nat, NEW g \in Upto(n), NEW h \in Upto(n + 1)
      PROVE  g[n] = h[n]
    <2> DEFINE A == {i \in Nat : i \in 0..n => g[i] = h[i]}
    <2>1. 0 \in A
        OBVIOUS
    <2>2. ASSUME NEW i \in Nat, i \in A PROVE i + 1 \in A
        <3>1. CASE i + 1 \in 0..n
            <4>1. i \in 0 .. n - 1 /\ i \in 0 .. (n + 1) - 1 /\ g[i] = h[i]
                BY <2>2, <3>1
            <4>2. g[i + 1] = F[i][g[i]] /\ h[i + 1] = F[i][h[i]]
                BY <4>1
            <4> QED
                BY <4>1, <4>2
        <3> QED
            BY <3>1
    <2>3. Nat \subseteq A
        <3> HIDE DEF A
        <3> QED
            BY <2>1, <2>2, Induction
    <2> QED
        BY <2>3
<1> DEFINE G(n) == CHOOSE g : g \in Upto(n)
           f == [n \in Nat |-> G(n)[n]]
<1>3. ASSUME NEW n \in Nat PROVE G(n) \in Upto(n)
    <2>1. n \in T
        BY <1>1
    <2>2. \E g : g \in Upto(n)
        BY <2>1
    <2> HIDE DEF Upto
    <2> QED
        BY <2>2
<1>4. \A n \in Nat : G(n) \in [0..n -> S] /\ G(n)[0] = x /\ \A k \in 0 .. n - 1 : G(n)[k + 1] = F[k][G(n)[k]]
    BY <1>3
<1>5. f \in [Nat -> S]
    <2> HIDE DEF G
    <2> QED
        BY <1>4
<1>6. f[0] = x
    <2> HIDE DEF G
    <2> QED
        BY <1>4
<1>7. ASSUME NEW k \in Nat PROVE f[k + 1] = F[k][f[k]]
    <2>1. G(k)[k] = G(k + 1)[k]
        <3>1. k + 1 \in Nat
            OBVIOUS
        <3> HIDE DEF G, Upto
        <3> QED
            BY <1>2, <1>3, <3>1
    <2>2. k \in 0 .. (k + 1) - 1 /\ k + 1 \in Nat
        OBVIOUS
    <2> HIDE DEF G
    <2>3. G(k + 1)[k + 1] = F[k][G(k + 1)[k]]
        BY <1>4, <2>2
    <2> QED
        BY <2>1, <2>2, <2>3
<1> HIDE DEF f
<1> QED
    BY <1>5, <1>6, <1>7 DEF Follows

\* The steps of a walk.
LEMMA WalkSteps ==
    ASSUME NEW V, NEW next \in [V -> SUBSET V], NEW n \in V
    PROVE  /\ Walk(next, n, 0) = {n}
           /\ \A k \in Nat : Walk(next, n, k + 1) = UNION {next[m] : m \in Walk(next, n, k)}
           /\ \A k \in Nat : Walk(next, n, k) \subseteq V
<1> DEFINE F == [k \in Nat |-> [s \in SUBSET V |-> UNION {next[m] : m \in s}]]
           Is(w) == w = [k \in Nat |-> IF k = 0 THEN {n} ELSE UNION {next[m] : m \in w[k - 1]}]
           w0 == CHOOSE w : Is(w)
<1>1. \A s \in SUBSET V : UNION {next[m] : m \in s} \in SUBSET V
    OBVIOUS
<1>2. F \in [Nat -> [SUBSET V -> SUBSET V]]
    BY <1>1
<1>3. \A k \in Nat, s \in SUBSET V : F[k][s] = UNION {next[m] : m \in s}
    OBVIOUS
<1>4. PICK f \in [Nat -> SUBSET V] : Follows(f, {n}, F)
    <2>1. {n} \in SUBSET V
        OBVIOUS
    <2> HIDE DEF F
    <2> QED
        BY <1>2, <2>1, Recursion, Zenon
<1>5. \A k \in Nat : f[k + 1] = UNION {next[m] : m \in f[k]}
    <2> HIDE DEF F
    <2> QED
        BY <1>3, <1>4 DEF Follows
<1>6. Is(f)
    <2>1. ASSUME NEW k \in Nat PROVE f[k] = IF k = 0 THEN {n} ELSE UNION {next[m] : m \in f[k - 1]}
        <3>1. CASE k = 0
            BY <1>4, <3>1 DEF Follows
        <3>2. CASE k # 0
            <4>1. k - 1 \in Nat /\ (k - 1) + 1 = k
                BY <3>2
            <4>2. f[(k - 1) + 1] = UNION {next[m] : m \in f[k - 1]}
                BY <1>5, <4>1
            <4> QED
                BY <3>2, <4>1, <4>2
        <3> QED
            BY <3>1, <3>2
    <2> QED
        BY <1>4, <2>1
<1>7. Is(w0)
    <2>1. \E w : Is(w)
        BY <1>6
    <2> HIDE DEF Is
    <2> QED
        BY <2>1
<1>8. \A k \in Nat : Walk(next, n, k) = w0[k]
    BY DEF Walk
<1> HIDE DEF w0
<1>9. w0[0] = {n} /\ \A k \in Nat : w0[k + 1] = UNION {next[m] : m \in w0[k]}
    <2>1. w0[0] = {n}
        BY <1>7
    <2>2. ASSUME NEW k \in Nat PROVE w0[k + 1] = UNION {next[m] : m \in w0[k]}
        <3>1. k + 1 \in Nat /\ k + 1 # 0 /\ (k + 1) - 1 = k
            OBVIOUS
        <3> QED
            BY <1>7, <3>1
    <2> QED
        BY <2>1, <2>2
<1> DEFINE T == {k \in Nat : w0[k] \subseteq V}
<1>10. Nat \subseteq T
    <2> HIDE DEF Is
    <2>1. 0 \in T
        BY <1>9
    <2>2. ASSUME NEW k \in Nat, k \in T PROVE k + 1 \in T
        <3>1. w0[k] \subseteq V
            BY <2>2
        <3>2. UNION {next[m] : m \in w0[k]} \subseteq V
            BY <3>1
        <3> QED
            BY <1>9, <3>2
    <2> HIDE DEF T
    <2> QED
        BY <2>1, <2>2, Induction
<1> QED
    BY <1>8, <1>9, <1>10

\* What appending does to the members of a sequence without repetition.
LEMMA AppendNew ==
    ASSUME NEW V, NEW s \in Seq(V), NEW v \in V
    PROVE  /\ Append(s, v) \in Seq(V) /\ ToSet(Append(s, v)) = ToSet(s) \cup {v}
           /\ IsInjective(s) /\ v \notin ToSet(s) => IsInjective(Append(s, v))
<1> DEFINE t == Append(s, v)
           n == Len(s)
<1>1. /\ n \in Nat /\ DOMAIN s = 1..n /\ DOMAIN t = 1 .. n + 1 /\ t[n + 1] = v
      /\ \A i \in 1..n : t[i] = s[i]
      /\ t \in Seq(V)
    OBVIOUS
<1> HIDE DEF t, n
<1>2. ToSet(t) = ToSet(s) \cup {v}
    <2>1. ASSUME NEW x \in ToSet(t) PROVE x \in ToSet(s) \cup {v}
        <3>1. PICK i \in 1 .. n + 1 : x = t[i]
            BY <1>1 DEF ToSet
        <3>2. i = n + 1 \/ i \in 1..n
            BY <1>1
        <3> QED
            BY <1>1, <3>1, <3>2 DEF ToSet
    <2>2. ASSUME NEW x \in ToSet(s) PROVE x \in ToSet(t)
        <3>1. PICK i \in 1..n : x = s[i]
            BY <1>1 DEF ToSet
        <3>2. i \in DOMAIN t /\ x = t[i]
            BY <1>1, <3>1
        <3> QED
            BY <3>2 DEF ToSet
    <2>3. v \in ToSet(t)
        <3>1. n + 1 \in DOMAIN t
            BY <1>1
        <3> QED
            BY <1>1, <3>1 DEF ToSet
    <2> QED
        BY <2>1, <2>2, <2>3
<1>3. ASSUME IsInjective(s), v \notin ToSet(s) PROVE IsInjective(t)
    <2>1. \A i \in 1..n : s[i] # v
        BY <1>1, <1>3 DEF ToSet
    <2>2. \A i, j \in 1..n : s[i] = s[j] => i = j
        BY <1>1, <1>3 DEF IsInjective
    <2> SUFFICES ASSUME NEW i \in 1 .. n + 1, NEW j \in 1 .. n + 1, t[i] = t[j] PROVE i = j
        BY <1>1 DEF IsInjective
    <2> QED
        BY <1>1, <2>1, <2>2
<1> QED
    BY <1>1, <1>2, <1>3 DEF t

\* An interval of numbers grows by its next number.
LEMMA OneMore ==
    ASSUME NEW i \in Nat
    PROVE  1 .. i + 1 = 1..i \cup {i + 1}
OBVIOUS

\* New keeps exactly what was not seen, once.
LEMMA NewExact ==
    ASSUME NEW V, NEW ns \in Seq(V), NEW seen
    PROVE  /\ New(ns, seen) \in Seq(V)
           /\ ToSet(New(ns, seen)) = ToSet(ns) \ seen
           /\ IsInjective(New(ns, seen))
<1> DEFINE n == Len(ns)
           S == Seq(V)
           Add(i, s) == IF ns[i] \in seen \/ ns[i] \in ToSet(s) THEN s ELSE Append(s, ns[i])
           F == [k \in Nat |-> [s \in S |-> IF k < n THEN Add(k + 1, s) ELSE s]]
           Is(w) == w = [i \in 0..n |-> IF i = 0 THEN <<>> ELSE Add(i, w[i - 1])]
           c == CHOOSE w : Is(w)
<1>1. n \in Nat /\ DOMAIN ns = 1..n /\ \A i \in 1..n : ns[i] \in V
    OBVIOUS
<1>2. ASSUME NEW i \in 1..n, NEW s \in S PROVE Add(i, s) \in S
    BY <1>1, AppendNew
<1>3. F \in [Nat -> [S -> S]]
    <2> HIDE DEF S, Add, n
    <2>1. ASSUME NEW k \in Nat, NEW s \in S PROVE (IF k < n THEN Add(k + 1, s) ELSE s) \in S
        <3>1. k < n => k + 1 \in 1..n
            BY <1>1
        <3> QED
            BY <1>2, <3>1
    <2> QED
        BY <2>1
<1>4. PICK f \in [Nat -> S] : Follows(f, <<>>, F)
    <2>1. <<>> \in S
        OBVIOUS
    <2> HIDE DEF F, S
    <2> QED
        BY <1>3, <2>1, Recursion, Zenon
<1>5. \E w : Is(w)
    <2> DEFINE g == [i \in 0..n |-> f[i]]
    <2> HIDE DEF Add, n, S
    <2>1. f[0] = <<>>
        BY <1>4 DEF Follows
    <2>2. ASSUME NEW i \in 0..n, i # 0 PROVE f[i] = Add(i, f[i - 1])
        <3>1. i - 1 \in Nat /\ i - 1 < n /\ (i - 1) + 1 = i /\ f[i - 1] \in S
            BY <1>1, <2>2
        <3>2. f[(i - 1) + 1] = F[i - 1][f[i - 1]]
            <4> HIDE DEF F
            <4> QED
                BY <1>4, <3>1 DEF Follows
        <3> QED
            BY <3>1, <3>2
    <2>3. ASSUME NEW i \in 0..n PROVE g[i] = IF i = 0 THEN <<>> ELSE Add(i, g[i - 1])
        <3>1. CASE i = 0
            BY <2>1, <3>1
        <3>2. CASE i # 0
            <4>1. i - 1 \in 0..n
                BY <1>1, <3>2
            <4> QED
                BY <2>2, <3>2, <4>1
        <3> QED
            BY <3>1, <3>2
    <2>4. Is(g)
        BY <2>3
    <2> QED
        BY <2>4
<1>6. Is(c)
    <2> HIDE DEF Is
    <2> QED
        BY <1>5
<1>7. New(ns, seen) = c[n]
    BY DEF New
<1> HIDE DEF c
<1>8. /\ c[0] = <<>>
      /\ \A i \in 0..n : i # 0 => c[i] = Add(i, c[i - 1])
    <2>1. \A i \in 0..n : c[i] = IF i = 0 THEN <<>> ELSE Add(i, c[i - 1])
        <3> HIDE DEF Add
        <3> QED
            BY <1>6
    <2>2. 0 \in 0..n
        BY <1>1
    <2> HIDE DEF Add, n, Is
    <2> QED
        BY <2>1, <2>2
<1> DEFINE T == {i \in Nat : i =< n => /\ c[i] \in S /\ IsInjective(c[i])
                                       /\ ToSet(c[i]) = {ns[j] : j \in 1..i} \ seen}
<1>9. Nat \subseteq T
    <2>1. 0 \in T
        <3>1. c[0] \in S /\ IsInjective(c[0])
            BY <1>8 DEF IsInjective
        <3>2. ToSet(c[0]) = {} /\ {ns[j] : j \in 1..0} = {}
            BY <1>8 DEF ToSet
        <3> QED
            BY <3>1, <3>2
    <2>2. ASSUME NEW i \in Nat, i \in T PROVE i + 1 \in T
        <3> SUFFICES ASSUME i + 1 =< n
                     PROVE  /\ c[i + 1] \in S /\ IsInjective(c[i + 1])
                            /\ ToSet(c[i + 1]) = {ns[j] : j \in 1 .. i + 1} \ seen
            OBVIOUS
        <3> HIDE DEF Is
        <3>1. i + 1 \in 1..n /\ i + 1 \in 0..n /\ i + 1 # 0 /\ (i + 1) - 1 = i /\ i =< n
            BY <1>1, SMTT(30)
        <3>2. c[i + 1] = Add(i + 1, c[i])
            BY <1>8, <3>1
        <3>3. c[i] \in S /\ IsInjective(c[i]) /\ ToSet(c[i]) = {ns[j] : j \in 1..i} \ seen
            BY <2>2, <3>1
        <3>4. {ns[j] : j \in 1 .. i + 1} = {ns[j] : j \in 1..i} \cup {ns[i + 1]}
            <4>1. 1 .. i + 1 = 1..i \cup {i + 1}
                BY OneMore
            <4> QED
                BY <4>1
        <3>5. ns[i + 1] \in V
            BY <1>1, <3>1
        <3>6. CASE ns[i + 1] \in seen \/ ns[i + 1] \in ToSet(c[i])
            <4>1. c[i + 1] = c[i]
                BY <3>2, <3>6
            <4> QED
                BY <3>3, <3>4, <3>6, <4>1
        <3>7. CASE ~(ns[i + 1] \in seen \/ ns[i + 1] \in ToSet(c[i]))
            <4>1. c[i + 1] = Append(c[i], ns[i + 1])
                BY <3>2, <3>7
            <4> DEFINE a == Append(c[i], ns[i + 1])
            <4>3. a \in S /\ IsInjective(a) /\ ToSet(a) = ToSet(c[i]) \cup {ns[i + 1]}
                <5>1. c[i] \in Seq(V) /\ ns[i + 1] \in V /\ IsInjective(c[i]) /\ ns[i + 1] \notin ToSet(c[i])
                    BY <3>3, <3>5, <3>7
                <5>2. \A s \in Seq(V), v \in V :
                          /\ Append(s, v) \in Seq(V) /\ ToSet(Append(s, v)) = ToSet(s) \cup {v}
                          /\ IsInjective(s) /\ v \notin ToSet(s) => IsInjective(Append(s, v))
                    BY AppendNew
                <5> QED
                    BY <5>1, <5>2, Zenon
            <4>2. /\ c[i + 1] \in S /\ IsInjective(c[i + 1])
                  /\ ToSet(c[i + 1]) = ToSet(c[i]) \cup {ns[i + 1]}
                BY <4>1, <4>3
            <4> QED
                BY <3>3, <3>4, <3>7, <4>2
        <3> QED
            BY <3>6, <3>7
    <2> HIDE DEF T
    <2> QED
        BY <2>1, <2>2, Induction
<1>10. ToSet(ns) = {ns[j] : j \in 1..n}
    BY <1>1 DEF ToSet
<1>11. n \in T
    BY <1>1, <1>9
<1> QED
    BY <1>1, <1>7, <1>10, <1>11, SMTT(30)

\* The orders of a finite set list all of it.
LEMMA SeqOfSet ==
    ASSUME NEW S, IsFiniteSet(S), NEW f \in SetToSeqs(S)
    PROVE  f \in Seq(S) /\ ToSet(f) = S
<1> DEFINE n == Cardinality(S)
<1>1. n \in Nat
    BY FS_CardinalityType
<1>2. f \in [1..n -> S] /\ \A i, j \in 1..n : i # j => f[i] # f[j]
    BY DEF SetToSeqs
<1>3. f \in Injection(1..n, S)
    BY <1>2 DEF Injection, IsInjective
<1>4. Cardinality(1..n) = n
    BY <1>1, FS_Interval
<1>5. f \in Surjection(1..n, S)
    BY <1>3, <1>4, FS_Injection
<1>6. \A t \in S : \E i \in 1..n : f[i] = t
    BY <1>5 DEF Surjection
<1> HIDE DEF n
<1>7. f \in Seq(S)
    BY <1>1, <1>2
<1>8. ToSet(f) = S
    BY <1>2, <1>6 DEF ToSet
<1> QED
    BY <1>7, <1>8

\* SetToSeq is one of them.
LEMMA SetToSeqExact ==
    ASSUME NEW S, IsFiniteSet(S)
    PROVE  SetToSeq(S) \in Seq(S) /\ ToSet(SetToSeq(S)) = S
<1> DEFINE n == Cardinality(S)
<1>1. n \in Nat
    BY FS_CardinalityType
<1>2. ExistsBijection(1..n, S)
    BY FS_CardinalityType
<1>3. \E f \in [1..n -> S] : IsInjective(f)
    BY <1>2 DEF ExistsBijection, Bijection, Injection, IsInjective
<1>4. SetToSeq(S) \in [1..n -> S] /\ IsInjective(SetToSeq(S))
    BY <1>3 DEF SetToSeq
<1>5. SetToSeq(S) \in SetToSeqs(S)
    BY <1>4 DEF SetToSeqs, IsInjective
<1> QED
    BY <1>5, SeqOfSet

-----------------------------------------------------------------------------
(* The graph *)

\* A history: the parents of a commit are older; tips are commits.
GraphOK ==
    /\ parents \in Seq(Seq(Nat))
    /\ \A n \in Commits : \A i \in DOMAIN parents[n] : parents[n][i] \in 1 .. n - 1
    /\ tips \subseteq Commits

\* The parents of a commit are commits with smaller numbers.
LEMMA ParentsOlder ==
    ASSUME GraphOK
    PROVE  /\ Len(parents) \in Nat /\ Commits = 1 .. Len(parents)
           /\ IsFiniteSet(Commits) /\ Cardinality(Commits) = Len(parents)
           /\ \A n \in Commits : /\ n \in Nat /\ parents[n] \in Seq(Commits)
                                 /\ ToSet(parents[n]) \subseteq 1 .. n - 1
                                 /\ ToSet(parents[n]) \subseteq Commits
           /\ ParentsOf \in [Commits -> SUBSET Commits]
           /\ \A n \in Commits : ParentsOf[n] = ToSet(parents[n])
<1>1. Len(parents) \in Nat /\ Commits = 1 .. Len(parents)
    BY DEF GraphOK, Commits
<1>2. IsFiniteSet(Commits) /\ Cardinality(Commits) = Len(parents)
    BY <1>1, FS_Interval, SMTT(30)
<1>3. ASSUME NEW n \in Commits
      PROVE  /\ n \in Nat /\ parents[n] \in Seq(Commits)
             /\ ToSet(parents[n]) \subseteq 1 .. n - 1
             /\ ToSet(parents[n]) \subseteq Commits
    <2>1. parents[n] \in Seq(Nat) /\ n \in Nat
        BY <1>1 DEF GraphOK
    <2>2. \A i \in DOMAIN parents[n] : parents[n][i] \in 1 .. n - 1
        BY DEF GraphOK
    <2>3. 1 .. n - 1 \subseteq Commits
        BY <1>1
    <2>4. ToSet(parents[n]) \subseteq 1 .. n - 1
        BY <2>2 DEF ToSet
    <2>5. parents[n] \in Seq(Commits)
        BY <2>1, <2>2, <2>3
    <2> QED
        BY <2>1, <2>3, <2>4, <2>5
<1>4. ParentsOf \in [Commits -> SUBSET Commits] /\ \A n \in Commits : ParentsOf[n] = ToSet(parents[n])
    BY <1>3 DEF ParentsOf
<1> QED
    BY <1>1, <1>2, <1>3, <1>4

\* A walk along parents goes to smaller and smaller numbers.
LEMMA UpSteps ==
    ASSUME GraphOK, NEW n \in Commits
    PROVE  /\ Up(n, 0) = {n}
           /\ \A k \in Nat : Up(n, k + 1) = UNION {ToSet(parents[m]) : m \in Up(n, k)}
           /\ \A k \in Nat : Up(n, k) \subseteq Commits
           /\ \A k \in Nat : \A m \in Up(n, k) : m + k =< n
<1>1. ParentsOf \in [Commits -> SUBSET Commits] /\ \A m \in Commits : ParentsOf[m] = ToSet(parents[m])
    BY ParentsOlder
<1>2. /\ Walk(ParentsOf, n, 0) = {n}
      /\ \A k \in Nat : Walk(ParentsOf, n, k + 1) = UNION {ParentsOf[m] : m \in Walk(ParentsOf, n, k)}
      /\ \A k \in Nat : Walk(ParentsOf, n, k) \subseteq Commits
    BY <1>1, WalkSteps
<1>3. Up(n, 0) = {n} /\ \A k \in Nat : Up(n, k) \subseteq Commits
    BY <1>2 DEF Up
<1>4. ASSUME NEW k \in Nat PROVE Up(n, k + 1) = UNION {ToSet(parents[m]) : m \in Up(n, k)}
    <2>1. Up(n, k + 1) = UNION {ParentsOf[m] : m \in Up(n, k)}
        BY <1>2 DEF Up
    <2>2. \A m \in Up(n, k) : ParentsOf[m] = ToSet(parents[m])
        BY <1>1, <1>3
    <2> QED
        BY <2>1, <2>2
<1> DEFINE T == {k \in Nat : \A m \in Up(n, k) : m + k =< n}
<1>5. 0 \in T
    BY <1>3, ParentsOlder
<1>6. ASSUME NEW k \in Nat, k \in T PROVE k + 1 \in T
    <2> SUFFICES ASSUME NEW p \in Up(n, k + 1) PROVE p + (k + 1) =< n
        OBVIOUS
    <2>1. PICK m \in Up(n, k) : p \in ToSet(parents[m])
        BY <1>4
    <2>2. m \in Commits /\ m \in Nat /\ p \in 1 .. m - 1 /\ m + k =< n
        BY <1>3, <1>6, <2>1, ParentsOlder
    <2> QED
        BY <2>2, ParentsOlder
<1>7. Nat \subseteq T
    <2> HIDE DEF T
    <2> QED
        BY <1>5, <1>6, Induction
<1> QED
    BY <1>3, <1>4, <1>7

\* The ancestors of a commit are what walks of any length reach: the smallest
\* set that has the commit and the parents of all its members.
LEMMA AncestorsClosed ==
    ASSUME GraphOK, NEW n \in Commits
    PROVE  /\ n \in Ancestors(n) /\ Ancestors(n) \subseteq Commits
           /\ \A k \in Nat : Up(n, k) \subseteq Ancestors(n)
           /\ \A m \in Ancestors(n) : \E k \in Nat : m \in Up(n, k)
           /\ \A m \in Ancestors(n) : ToSet(parents[m]) \subseteq Ancestors(n)
<1> DEFINE C == Cardinality(Commits)
<1>1. n \in 1..C /\ C \in Nat /\ \A m \in Commits : m \in 1..C
    BY ParentsOlder
<1>2. Ancestors(n) = UNION {Up(n, d) : d \in 0..C}
    BY DEF Ancestors
<1> HIDE DEF C
<1>3. ASSUME NEW k \in Nat PROVE Up(n, k) \subseteq Ancestors(n)
    <2> SUFFICES ASSUME NEW m \in Up(n, k) PROVE m \in Ancestors(n)
        OBVIOUS
    <2>1. m \in 1..C /\ m + k =< n
        BY <1>1, UpSteps
    <2>2. k \in 0..C
        BY <1>1, <2>1
    <2> QED
        BY <1>2, <2>2
<1>4. ASSUME NEW m \in Ancestors(n) PROVE \E k \in Nat : m \in Up(n, k)
    BY <1>2
<1>5. n \in Ancestors(n)
    BY <1>3, UpSteps
<1>6. Ancestors(n) \subseteq Commits
    BY <1>4, UpSteps
<1>7. ASSUME NEW m \in Ancestors(n) PROVE ToSet(parents[m]) \subseteq Ancestors(n)
    <2>1. PICK k \in Nat : m \in Up(n, k)
        BY <1>4
    <2>2. ToSet(parents[m]) \subseteq Up(n, k + 1)
        BY <2>1, UpSteps
    <2> QED
        BY <1>3, <2>2
<1> QED
    BY <1>3, <1>4, <1>5, <1>6, <1>7

\* Every set with the commit and the parents of its members has the ancestors.
LEMMA AncestorsLeast ==
    ASSUME GraphOK, NEW n \in Commits, NEW X, n \in X,
           \A m \in X \cap Commits : ToSet(parents[m]) \subseteq X
    PROVE  Ancestors(n) \subseteq X
<1> DEFINE T == {k \in Nat : Up(n, k) \subseteq X}
<1>1. 0 \in T
    BY UpSteps
<1>2. ASSUME NEW k \in Nat, k \in T PROVE k + 1 \in T
    <2>1. Up(n, k) \subseteq X \cap Commits
        BY <1>2, UpSteps
    <2>2. Up(n, k + 1) = UNION {ToSet(parents[m]) : m \in Up(n, k)}
        BY UpSteps
    <2> QED
        BY <2>1, <2>2
<1>3. Nat \subseteq T
    <2> HIDE DEF T
    <2> QED
        BY <1>1, <1>2, Induction
<1> QED
    BY <1>3, AncestorsClosed

\* Children and neighbours are commits.
LEMMA ChildrenFacts ==
    ASSUME GraphOK
    PROVE  /\ Reachable \subseteq Commits
           /\ \A n : Children(n) \subseteq Reachable /\ IsFiniteSet(Children(n))
           /\ ChildrenOf \in [Commits -> SUBSET Commits]
           /\ \A n \in Commits : ChildrenOf[n] = Children(n)
           /\ \A n \in Commits : Neighbours(n) \subseteq Commits
           /\ AtMostOneStep \in [Commits -> SUBSET Commits]
           /\ \A n \in Commits : AtMostOneStep[n] = {n} \cup Neighbours(n)
<1>1. Reachable \subseteq Commits
    <2>1. \A t \in tips : t \in Commits /\ Ancestors(t) \subseteq Commits
        BY AncestorsClosed DEF GraphOK
    <2> QED
        BY <2>1 DEF Reachable
<1>2. \A n : Children(n) \subseteq Reachable
    BY DEF Children
<1>3. ASSUME NEW n PROVE IsFiniteSet(Children(n))
    <2>1. Children(n) \subseteq Commits /\ IsFiniteSet(Commits)
        BY <1>1, <1>2, ParentsOlder
    <2> QED
        BY <2>1, FS_Subset
<1>4. \A n : Children(n) \subseteq Commits
    BY <1>1, <1>2
<1>5. \A n \in Commits : Neighbours(n) \subseteq Commits
    BY <1>4, ParentsOlder DEF Neighbours
<1>6. ChildrenOf \in [Commits -> SUBSET Commits] /\ \A n \in Commits : ChildrenOf[n] = Children(n)
    BY <1>4 DEF ChildrenOf
<1>7. AtMostOneStep \in [Commits -> SUBSET Commits]
      /\ \A n \in Commits : AtMostOneStep[n] = {n} \cup Neighbours(n)
    BY <1>5 DEF AtMostOneStep
<1> QED
    BY <1>1, <1>2, <1>3, <1>5, <1>6, <1>7

-----------------------------------------------------------------------------
(* Breadth-first search *)

\* m is d steps from a, and not fewer.
At(next, a, m, d) ==
    /\ m \in Walk(next, a, d)
    /\ \A e \in 0 .. d - 1 : m \notin Walk(next, a, e)

NoLimit == -1

\* v is too far away to be expanded.
Far(next, a, limit, v) == limit # NoLimit /\ \A e \in 0 .. limit - 1 : v \notin Walk(next, a, e)

\* The queue of a search from a: nodes in the order of their distances, which
\* span at most two values; every node nearer than the front has been seen; what
\* was seen waits, has had its successors seen, or is too far away.
BfsShape(V, a, nodes, depths, seen) ==
    /\ nodes \in Seq(seen) /\ depths \in Seq(Nat) /\ Len(nodes) = Len(depths)
    /\ seen \subseteq V /\ a \in seen
BfsAt(next, a, limit, nodes, depths) ==
    \A i \in DOMAIN nodes : /\ At(next, a, nodes[i], depths[i])
                            /\ limit # NoLimit => depths[i] =< limit
BfsOrder(nodes, depths) ==
    /\ \A i, j \in DOMAIN nodes : i < j => depths[i] =< depths[j]
    /\ \A i \in DOMAIN nodes : depths[i] =< depths[1] + 1
BfsSeen(next, a, nodes, depths, seen) ==
    nodes # <<>> => \A d \in 0 .. depths[1] : Walk(next, a, d) \subseteq seen
BfsDone(next, a, limit, nodes, seen) ==
    \A v \in seen : v \in ToSet(nodes) \/ next[v] \subseteq seen \/ Far(next, a, limit, v)

Bfs(V, next, a, limit, nodes, depths, seen) ==
    /\ BfsShape(V, a, nodes, depths, seen)
    /\ BfsAt(next, a, limit, nodes, depths)
    /\ BfsOrder(nodes, depths)
    /\ BfsSeen(next, a, nodes, depths, seen)
    /\ BfsDone(next, a, limit, nodes, seen)

\* The places of a concatenation.
LEMMA Concat ==
    ASSUME NEW S, NEW s \in Seq(S), NEW t \in Seq(S)
    PROVE  /\ s \o t \in Seq(S) /\ Len(s \o t) = Len(s) + Len(t)
           /\ Len(s) \in Nat /\ Len(t) \in Nat
           /\ DOMAIN (s \o t) = 1 .. Len(s) + Len(t)
           /\ \A i \in 1 .. Len(s) : (s \o t)[i] = s[i]
           /\ \A i \in Len(s) + 1 .. Len(s) + Len(t) : (s \o t)[i] = t[i - Len(s)]
OBVIOUS

\* The places of a tail.
LEMMA TailPlaces ==
    ASSUME NEW S, NEW s \in Seq(S), s # <<>>
    PROVE  /\ Len(s) \in Nat /\ Len(s) >= 1
           /\ Tail(s) \in Seq(S) /\ Len(Tail(s)) = Len(s) - 1
           /\ \A i \in 1 .. Len(s) - 1 : Tail(s)[i] = s[i + 1]
OBVIOUS

\* The members of a concatenation.
LEMMA ConcatMembers ==
    ASSUME NEW S, NEW s \in Seq(S), NEW t \in Seq(S)
    PROVE  s \o t \in Seq(S) /\ ToSet(s \o t) = ToSet(s) \cup ToSet(t)
<1> DEFINE c == s \o t
           m == Len(s)
           n == Len(t)
<1>1. /\ c \in Seq(S) /\ m \in Nat /\ n \in Nat /\ DOMAIN c = 1 .. m + n
      /\ DOMAIN s = 1..m /\ DOMAIN t = 1..n
      /\ \A i \in 1..m : c[i] = s[i]
      /\ \A i \in m + 1 .. m + n : c[i] = t[i - m]
    BY Concat
<1> HIDE DEF c, m, n
<1>2. ASSUME NEW x \in ToSet(c) PROVE x \in ToSet(s) \cup ToSet(t)
    <2>1. PICK i \in 1 .. m + n : x = c[i]
        BY <1>1 DEF ToSet
    <2>2. CASE i \in 1..m
        BY <1>1, <2>1, <2>2 DEF ToSet
    <2>3. CASE i \notin 1..m
        <3>1. i \in m + 1 .. m + n /\ i - m \in 1..n
            BY <1>1, <2>3
        <3> QED
            BY <1>1, <2>1, <3>1 DEF ToSet
    <2> QED
        BY <2>2, <2>3
<1>3. ASSUME NEW x \in ToSet(s) PROVE x \in ToSet(c)
    <2>1. PICK i \in 1..m : x = s[i]
        BY <1>1 DEF ToSet
    <2>2. i \in 1 .. m + n
        BY <1>1
    <2> QED
        BY <1>1, <2>1, <2>2 DEF ToSet
<1>4. ASSUME NEW x \in ToSet(t) PROVE x \in ToSet(c)
    <2>1. PICK i \in 1..n : x = t[i]
        BY <1>1 DEF ToSet
    <2>2. i + m \in 1 .. m + n /\ i + m \in m + 1 .. m + n /\ (i + m) - m = i
        BY <1>1
    <2>3. c[i + m] = x
        BY <1>1, <2>1, <2>2
    <2> QED
        BY <1>1, <2>2, <2>3 DEF ToSet
<1>5. ToSet(c) = ToSet(s) \cup ToSet(t)
    BY <1>2, <1>3, <1>4
<1> QED
    BY <1>1, <1>5 DEF c

\* The members of a sequence are its head and those of its tail.
LEMMA HeadAndTail ==
    ASSUME NEW S, NEW s \in Seq(S), s # <<>>
    PROVE  /\ Head(s) \in S /\ Head(s) = s[1] /\ Tail(s) \in Seq(S)
           /\ ToSet(s) = {Head(s)} \cup ToSet(Tail(s))
<1> DEFINE t == Tail(s)
           n == Len(s)
<1>1. /\ n \in Nat /\ n >= 1 /\ DOMAIN s = 1..n /\ Head(s) = s[1] /\ s[1] \in S
      /\ t \in Seq(S) /\ DOMAIN t = 1 .. n - 1 /\ \A i \in 1 .. n - 1 : t[i] = s[i + 1]
    BY TailPlaces
<1> HIDE DEF t, n
<1>2. ASSUME NEW x \in ToSet(s) PROVE x = s[1] \/ x \in ToSet(t)
    <2>1. PICK i \in 1..n : x = s[i]
        BY <1>1 DEF ToSet
    <2>2. CASE i # 1
        <3>1. i - 1 \in 1 .. n - 1 /\ (i - 1) + 1 = i
            BY <1>1, <2>2
        <3>2. t[i - 1] = x
            BY <1>1, <2>1, <3>1
        <3> QED
            BY <1>1, <3>1, <3>2 DEF ToSet
    <2> QED
        BY <2>1, <2>2
<1>3. s[1] \in ToSet(s)
    <2>1. 1 \in DOMAIN s
        BY <1>1
    <2> QED
        BY <2>1 DEF ToSet
<1>4. ASSUME NEW x \in ToSet(t) PROVE x \in ToSet(s)
    <2>1. PICK i \in 1 .. n - 1 : x = t[i]
        BY <1>1 DEF ToSet
    <2>2. i + 1 \in DOMAIN s /\ s[i + 1] = x
        BY <1>1, <2>1
    <2> QED
        BY <2>2 DEF ToSet
<1>5. ToSet(s) = {s[1]} \cup ToSet(t)
    BY <1>2, <1>3, <1>4
<1> QED
    BY <1>1, <1>5 DEF t

\* A sequence is one over every set that has its members.
LEMMA SeqOver ==
    ASSUME NEW S, NEW s \in Seq(S), NEW T, ToSet(s) \subseteq T
    PROVE  s \in Seq(T)
<1>1. Len(s) \in Nat /\ DOMAIN s = 1 .. Len(s) /\ \A i \in 1 .. Len(s) : s[i] \in T
    BY DEF ToSet
<1> QED
    BY <1>1

\* A function applied to every member of a sequence.
Image(f, s) == [i \in DOMAIN s |-> f[s[i]]]

\* What a turn makes of the image of a queue is the image of what it makes of
\* the queue.
ImageOfTurn(f, q, r) == Image(f, Tail(q) \o r) = Tail(Image(f, q)) \o Image(f, r)

\* Taking the image and taking a turn can be exchanged.
LEMMA ImageTurn ==
    ASSUME NEW S, NEW T, NEW f \in [S -> T], NEW q \in Seq(S), q # <<>>, NEW r \in Seq(S)
    PROVE  ImageOfTurn(f, q, r)
<1> DEFINE t == Tail(q)
           c == t \o r
           L == Len(q)
           M == Len(r)
           fq == Image(f, q)
           fr == Image(f, r)
           ft == Tail(fq)
           d  == ft \o fr
<1>1. L \in Nat /\ L >= 1 /\ t \in Seq(S) /\ Len(t) = L - 1 /\ \A i \in 1 .. L - 1 : t[i] = q[i + 1]
    BY TailPlaces
<1>2. M \in Nat /\ DOMAIN r = 1..M /\ DOMAIN q = 1..L /\ Len(r) = M
      /\ (\A i \in 1..L : q[i] \in S) /\ (\A i \in 1..M : r[i] \in S)
    OBVIOUS
<1>3. /\ c \in Seq(S) /\ Len(c) = (L - 1) + M /\ DOMAIN c = 1 .. (L - 1) + M
      /\ \A i \in 1 .. L - 1 : c[i] = q[i + 1]
      /\ \A i \in L .. (L - 1) + M : c[i] = r[i - (L - 1)]
    <2> HIDE DEF t, L, M
    <2>1. /\ c \in Seq(S) /\ Len(c) = Len(t) + Len(r) /\ DOMAIN c = 1 .. Len(t) + Len(r)
          /\ \A i \in 1 .. Len(t) : c[i] = t[i]
          /\ \A i \in Len(t) + 1 .. Len(t) + Len(r) : c[i] = r[i - Len(t)]
        <3>1. t \in Seq(S) /\ r \in Seq(S)
            BY <1>1
        <3> QED
            BY <3>1, Concat, ZenonT(30)
    <2> HIDE DEF c
    <2> QED
        BY <1>1, <1>2, <2>1
<1>4. /\ fq \in Seq(T) /\ fq # <<>> /\ Len(fq) = L /\ (\A i \in 1..L : fq[i] = f[q[i]])
      /\ fr \in Seq(T) /\ Len(fr) = M /\ (\A i \in 1..M : fr[i] = f[r[i]])
    <2> HIDE DEF t, c, L, M
    <2> QED
        BY <1>1, <1>2 DEF Image
<1>5. ft \in Seq(T) /\ Len(ft) = L - 1 /\ \A i \in 1 .. L - 1 : ft[i] = fq[i + 1]
    <2> HIDE DEF fq, L
    <2> QED
        BY <1>4, TailPlaces
<1>6. /\ d \in Seq(T) /\ Len(d) = (L - 1) + M /\ DOMAIN d = 1 .. (L - 1) + M
      /\ \A i \in 1 .. L - 1 : d[i] = fq[i + 1]
      /\ \A i \in L .. (L - 1) + M : d[i] = fr[i - (L - 1)]
    <2> HIDE DEF ft, fr, fq, L, M
    <2>1. /\ d \in Seq(T) /\ Len(d) = Len(ft) + Len(fr) /\ DOMAIN d = 1 .. Len(ft) + Len(fr)
          /\ \A i \in 1 .. Len(ft) : d[i] = ft[i]
          /\ \A i \in Len(ft) + 1 .. Len(ft) + Len(fr) : d[i] = fr[i - Len(ft)]
        <3>1. ft \in Seq(T) /\ fr \in Seq(T)
            BY <1>4, <1>5
        <3> QED
            BY <3>1, Concat, Zenon
    <2> HIDE DEF d
    <2> QED
        BY <1>1, <1>2, <1>4, <1>5, <2>1
<1> HIDE DEF t, c, L, M, fq, fr, ft, d
<1>7. ASSUME NEW i \in 1 .. (L - 1) + M PROVE d[i] = f[c[i]]
    <2>1. CASE i \in 1 .. L - 1
        <3>1. i + 1 \in 1..L
            BY <1>1, <2>1
        <3> QED
            BY <1>3, <1>4, <1>6, <2>1, <3>1, ZenonT(30)
    <2>2. CASE i \in L .. (L - 1) + M
        <3>1. i - (L - 1) \in 1..M
            BY <1>1, <1>2, <2>2
        <3> QED
            BY <1>3, <1>4, <1>6, <2>2, <3>1, ZenonT(30)
    <2> QED
        BY <1>1, <1>2, <2>1, <2>2
<1>8. d = [i \in 1 .. (L - 1) + M |-> d[i]]
    BY <1>6
<1>9. d = [i \in 1 .. (L - 1) + M |-> f[c[i]]]
    BY <1>7, <1>8
<1>10. d = Image(f, c)
    BY <1>3, <1>9 DEF Image
<1> QED
    BY <1>10 DEF c, d, t, ft, fq, fr, ImageOfTurn

\* A sequence without repetition keeps that when its front leaves and members
\* come that it does not have.
LEMMA InjectiveTurn ==
    ASSUME NEW S, NEW s \in Seq(S), s # <<>>, IsInjective(s), NEW r \in Seq(S), IsInjective(r),
           ToSet(s) \cap ToSet(r) = {}
    PROVE  IsInjective(Tail(s) \o r) /\ s[1] \notin ToSet(Tail(s))
<1> DEFINE t == Tail(s)
           c == t \o r
           L == Len(s)
           M == Len(r)
<1>1. L \in Nat /\ L >= 1 /\ t \in Seq(S) /\ Len(t) = L - 1 /\ \A i \in 1 .. L - 1 : t[i] = s[i + 1]
    BY TailPlaces
<1>2. M \in Nat /\ DOMAIN r = 1..M /\ DOMAIN s = 1..L /\ Len(r) = M /\ DOMAIN t = 1 .. L - 1
    BY <1>1
<1>3. /\ DOMAIN c = 1 .. (L - 1) + M
      /\ \A i \in 1 .. L - 1 : c[i] = s[i + 1]
      /\ \A i \in L .. (L - 1) + M : c[i] = r[i - (L - 1)]
    <2> HIDE DEF t, L, M
    <2>1. /\ c \in Seq(S) /\ Len(c) = Len(t) + Len(r) /\ DOMAIN c = 1 .. Len(t) + Len(r)
          /\ \A i \in 1 .. Len(t) : c[i] = t[i]
          /\ \A i \in Len(t) + 1 .. Len(t) + Len(r) : c[i] = r[i - Len(t)]
        <3>1. t \in Seq(S) /\ r \in Seq(S)
            BY <1>1
        <3>2. c \in Seq(S) /\ Len(c) = Len(t) + Len(r) /\ DOMAIN c = 1 .. Len(t) + Len(r)
            BY <3>1
        <3>3. ASSUME NEW i \in 1 .. Len(t) PROVE c[i] = t[i]
            BY <3>1, <3>3
        <3>4. ASSUME NEW i \in Len(t) + 1 .. Len(t) + Len(r) PROVE c[i] = r[i - Len(t)]
            BY <3>1, <3>4
        <3> QED
            BY <3>2, <3>3, <3>4, Zenon
    <2> HIDE DEF c
    <2> QED
        BY <1>1, <1>2, <2>1
<1> HIDE DEF t, c, L, M
<1>4. /\ \A i, j \in 1..L : s[i] = s[j] => i = j
      /\ \A i, j \in 1..M : r[i] = r[j] => i = j
    BY <1>2 DEF IsInjective
<1>5. \A i \in 1..L, j \in 1..M : s[i] # r[j]
    BY <1>2 DEF ToSet
<1>6. IsInjective(c)
    <2> SUFFICES ASSUME NEW i \in 1 .. (L - 1) + M, NEW j \in 1 .. (L - 1) + M, c[i] = c[j] PROVE i = j
        BY <1>3 DEF IsInjective
    <2>1. \A k \in 1 .. (L - 1) + M : \/ k \in 1 .. L - 1 /\ k + 1 \in 1..L /\ c[k] = s[k + 1]
                                      \/ k \in L .. (L - 1) + M /\ k - (L - 1) \in 1..M /\ c[k] = r[k - (L - 1)]
        BY <1>1, <1>2, <1>3
    <2>2. CASE i \in 1 .. L - 1 /\ j \in 1 .. L - 1
        <3>1. i + 1 \in 1..L /\ j + 1 \in 1..L /\ s[i + 1] = s[j + 1]
            BY <1>1, <1>3, <2>2
        <3>2. i + 1 = j + 1
            BY <1>4, <3>1
        <3> QED
            BY <3>2
    <2>3. CASE i \in L .. (L - 1) + M /\ j \in L .. (L - 1) + M
        <3>1. i - (L - 1) \in 1..M /\ j - (L - 1) \in 1..M /\ r[i - (L - 1)] = r[j - (L - 1)]
            BY <1>1, <1>2, <1>3, <2>3
        <3>2. i - (L - 1) = j - (L - 1)
            BY <1>4, <3>1
        <3> QED
            BY <1>1, <3>2
    <2>4. CASE i \in 1 .. L - 1 /\ j \in L .. (L - 1) + M
        BY <1>1, <1>2, <1>3, <1>5, <2>4
    <2>5. CASE i \in L .. (L - 1) + M /\ j \in 1 .. L - 1
        BY <1>1, <1>2, <1>3, <1>5, <2>5
    <2> QED
        BY <1>1, <1>2, <2>2, <2>3, <2>4, <2>5
<1>7. s[1] \notin ToSet(t)
    <2> SUFFICES ASSUME NEW i \in 1 .. L - 1, s[1] = t[i] PROVE FALSE
        BY <1>2 DEF ToSet
    <2>1. s[1] = s[i + 1] /\ 1 \in 1..L /\ i + 1 \in 1..L /\ i + 1 # 1
        BY <1>1
    <2> QED
        BY <1>4, <2>1
<1> QED
    BY <1>6, <1>7 DEF c, t

\* A search starts with its first node.
LEMMA BfsStart ==
    ASSUME NEW V, NEW next \in [V -> SUBSET V], NEW a \in V, NEW limit \in Nat \cup {NoLimit},
           NEW nodes, NEW depths
    PROVE  nodes = <<a>> /\ depths = <<0>> => Bfs(V, next, a, limit, nodes, depths, {a})
<1> HAVE nodes = <<a>> /\ depths = <<0>>
<1>1. DOMAIN nodes = {1} /\ nodes[1] = a /\ depths[1] = 0 /\ Len(nodes) = 1 /\ Len(depths) = 1
    OBVIOUS
<1>2. Walk(next, a, 0) = {a}
    BY WalkSteps
<1>3. BfsShape(V, a, nodes, depths, {a})
    BY DEF BfsShape
<1>4. BfsAt(next, a, limit, nodes, depths)
    BY <1>1, <1>2 DEF BfsAt, At, NoLimit
<1>5. BfsOrder(nodes, depths)
    BY <1>1 DEF BfsOrder
<1>6. BfsSeen(next, a, nodes, depths, {a})
    BY <1>1, <1>2 DEF BfsSeen
<1>7. BfsDone(next, a, limit, nodes, {a})
    BY <1>1 DEF BfsDone, ToSet
<1> QED
    BY <1>3, <1>4, <1>5, <1>6, <1>7 DEF Bfs

\* One turn of the loop: the front leaves, its unseen successors are queued one
\* step further, unless the front is at the limit.
BfsTurn(V, next, limit, nodes, depths, seen, new, ns, ds, sn) ==
    /\ nodes # <<>>
    /\ new \in Seq(V)
    /\ depths[1] = limit => new = <<>>
    /\ depths[1] # limit => ToSet(new) = next[nodes[1]] \ seen
    /\ ns = Tail(nodes) \o new
    /\ ds = Tail(depths) \o [i \in DOMAIN new |-> depths[1] + 1]
    /\ sn = seen \cup ToSet(new)

\* A turn keeps what Bfs says of the queue.
LEMMA BfsStep ==
    ASSUME NEW V, NEW next \in [V -> SUBSET V], NEW a \in V, NEW limit \in Nat \cup {NoLimit},
           NEW nodes, NEW depths, NEW seen, NEW new, NEW ns, NEW ds, NEW sn,
           Bfs(V, next, a, limit, nodes, depths, seen),
           BfsTurn(V, next, limit, nodes, depths, seen, new, ns, ds, sn)
    PROVE  Bfs(V, next, a, limit, ns, ds, sn) /\ (ns # <<>> => depths[1] =< ds[1])
<1> DEFINE L == Len(nodes)
           M == Len(new)
           D == depths[1]
           W(k) == Walk(next, a, k)
<1>0. /\ BfsShape(V, a, nodes, depths, seen) /\ BfsAt(next, a, limit, nodes, depths)
      /\ BfsOrder(nodes, depths) /\ BfsSeen(next, a, nodes, depths, seen)
      /\ BfsDone(next, a, limit, nodes, seen)
    BY DEF Bfs
<1>b. /\ nodes \in Seq(seen) /\ depths \in Seq(Nat) /\ new \in Seq(V)
      /\ nodes # <<>> /\ Len(depths) = L /\ Len(nodes) = L /\ Len(new) = M
    BY <1>0 DEF BfsShape, BfsTurn
<1>1. /\ L \in Nat /\ L >= 1 /\ DOMAIN nodes = 1..L /\ DOMAIN depths = 1..L
      /\ M \in Nat /\ DOMAIN new = 1..M /\ D \in Nat /\ depths[1] = D
      /\ seen \subseteq V /\ a \in seen
      /\ \A i \in 1..L : nodes[i] \in seen /\ depths[i] \in Nat
      /\ \A i \in 1..M : new[i] \in V
    BY <1>0, <1>b DEF BfsShape
<1>a. depths # <<>>
    BY <1>1, <1>b
<1>c. /\ D = limit => new = <<>>
      /\ D # limit => ToSet(new) = next[nodes[1]] \ seen
      /\ sn = seen \cup ToSet(new)
    BY DEF BfsTurn
<1>d. ns = Tail(nodes) \o new
    BY DEF BfsTurn
<1>e. ds = Tail(depths) \o [i \in 1..M |-> D + 1]
    BY <1>1 DEF BfsTurn
<1> HIDE DEF L, M, D
<1>2. ToSet(new) \subseteq V /\ \A i \in 1..M : new[i] \in ToSet(new) /\ new[i] \in sn
    BY <1>1, <1>c DEF ToSet
<1>3. /\ ns \in Seq(sn) /\ Len(ns) = (L - 1) + M /\ DOMAIN ns = 1 .. (L - 1) + M
      /\ \A i \in 1 .. L - 1 : ns[i] = nodes[i + 1]
      /\ \A i \in L .. (L - 1) + M : ns[i] = new[i - (L - 1)]
    <2> DEFINE t == Tail(nodes)
    <2>1. nodes \in Seq(sn) /\ new \in Seq(sn)
        BY <1>1, <1>2, <1>b, <1>c
    <2>2. t \in Seq(sn) /\ Len(t) = L - 1 /\ \A i \in 1 .. L - 1 : t[i] = nodes[i + 1]
        BY <1>b, <2>1, TailPlaces
    <2>3. ns = t \o new
        BY <1>d
    <2> HIDE DEF t
    <2>4. /\ ns \in Seq(sn) /\ Len(ns) = Len(t) + Len(new) /\ DOMAIN ns = 1 .. Len(t) + Len(new)
          /\ \A i \in 1 .. Len(t) : ns[i] = t[i]
          /\ \A i \in Len(t) + 1 .. Len(t) + Len(new) : ns[i] = new[i - Len(t)]
        BY <2>1, <2>2, <2>3, Concat
    <2> QED
        BY <1>1, <1>b, <2>2, <2>4
<1>4. /\ ds \in Seq(Nat) /\ Len(ds) = (L - 1) + M
      /\ \A i \in 1 .. L - 1 : ds[i] = depths[i + 1]
      /\ \A i \in L .. (L - 1) + M : ds[i] = D + 1
    <2> DEFINE t == Tail(depths)
               u == [i \in 1..M |-> D + 1]
    <2>1. t \in Seq(Nat) /\ Len(t) = L - 1 /\ \A i \in 1 .. L - 1 : t[i] = depths[i + 1]
        BY <1>a, <1>b, TailPlaces
    <2>2. u \in Seq(Nat) /\ Len(u) = M /\ \A i \in 1..M : u[i] = D + 1
        BY <1>1
    <2>3. ds = t \o u
        BY <1>e
    <2> HIDE DEF t, u
    <2>4. /\ ds \in Seq(Nat) /\ Len(ds) = Len(t) + Len(u)
          /\ \A i \in 1 .. Len(t) : ds[i] = t[i]
          /\ \A i \in Len(t) + 1 .. Len(t) + Len(u) : ds[i] = u[i - Len(t)]
        <3>1. t \in Seq(Nat) /\ u \in Seq(Nat)
            BY <2>1, <2>2
        <3> QED
            BY <2>3, <3>1, Concat, ZenonT(30)
    <2>5. L \in Nat /\ L > 0 /\ M \in Nat
        BY <1>1
    <2>6. Len(ds) = (L - 1) + M
        BY <2>1, <2>2, <2>4
    <2>7. ASSUME NEW i \in 1 .. L - 1 PROVE ds[i] = depths[i + 1]
        BY <2>1, <2>4, Zenon
    <2>8. ASSUME NEW i \in L .. (L - 1) + M PROVE ds[i] = D + 1
        <3>1. Len(t) = L - 1 /\ Len(u) = M
            BY <2>1, <2>2
        <3>2. i \in Len(t) + 1 .. Len(t) + Len(u) /\ i - Len(t) \in 1..M
            BY <2>5, <2>8, <3>1
        <3> QED
            BY <2>2, <2>4, <3>2, Zenon
    <2> QED
        BY <2>4, <2>6, <2>7, <2>8, Zenon
<1>5. BfsShape(V, a, ns, ds, sn)
    BY <1>1, <1>2, <1>3, <1>4, <1>c DEF BfsShape
<1>6. \A i \in 1..L : D =< depths[i] /\ depths[i] =< D + 1
    <2>1. \A i \in 1..L : 1 < i => depths[1] =< depths[i]
        BY <1>0, <1>1, SMTT(30) DEF BfsOrder
    <2> QED
        BY <1>0, <1>1, <2>1 DEF BfsOrder
<1>7. /\ W(D) \subseteq V /\ W(D + 1) = UNION {next[m] : m \in W(D)}
      /\ \A d \in 0..D : W(d) \subseteq seen
    <2>1. W(D) \subseteq V /\ W(D + 1) = UNION {next[m] : m \in W(D)}
        BY <1>1, WalkSteps
    <2>2. \A d \in 0..D : W(d) \subseteq seen
        BY <1>0, <1>1, <1>b DEF BfsSeen
    <2> QED
        BY <2>1, <2>2
<1>8. ASSUME NEW m \in ToSet(new) PROVE At(next, a, m, D + 1) /\ (limit # NoLimit => D + 1 =< limit)
    <2>1. new # <<>>
        BY DEF ToSet
    <2>2. D # limit /\ m \in next[nodes[1]] /\ m \notin seen
        BY <1>c, <2>1
    <2>3. nodes[1] \in W(D) /\ (limit # NoLimit => D =< limit)
        BY <1>0, <1>1, SMTT(30) DEF BfsAt, At
    <2>4. m \in W(D + 1)
        BY <1>7, <2>2, <2>3
    <2>5. \A e \in 0 .. (D + 1) - 1 : m \notin W(e)
        BY <1>1, <1>7, <2>2
    <2>6. limit # NoLimit => D + 1 =< limit
        BY <1>1, <2>2, <2>3 DEF NoLimit
    <2> QED
        BY <2>4, <2>5, <2>6 DEF At
<1>9. ASSUME NEW i \in 1 .. (L - 1) + M
      PROVE  /\ At(next, a, ns[i], ds[i]) /\ (limit # NoLimit => ds[i] =< limit)
             /\ ds[i] \in Nat /\ D =< ds[i] /\ ds[i] =< D + 1
    <2>1. CASE i \in 1 .. L - 1
        <3>1. i + 1 \in 1..L /\ ns[i] = nodes[i + 1] /\ ds[i] = depths[i + 1]
            BY <1>1, <1>3, <1>4, <2>1
        <3>2. At(next, a, nodes[i + 1], depths[i + 1]) /\ (limit # NoLimit => depths[i + 1] =< limit)
            BY <1>0, <1>1, <3>1 DEF BfsAt
        <3> QED
            BY <1>1, <1>6, <3>1, <3>2
    <2>2. CASE i \in L .. (L - 1) + M
        <3>1. i - (L - 1) \in 1..M /\ ns[i] = new[i - (L - 1)] /\ ds[i] = D + 1
            BY <1>1, <1>3, <1>4, <2>2
        <3> QED
            BY <1>1, <1>2, <1>8, <3>1
    <2> QED
        BY <1>1, <2>1, <2>2
<1>10. BfsAt(next, a, limit, ns, ds)
    BY <1>3, <1>9 DEF BfsAt
<1>11. BfsOrder(ns, ds)
    <2>1. ASSUME NEW i \in 1 .. (L - 1) + M, NEW j \in 1 .. (L - 1) + M, i < j PROVE ds[i] =< ds[j]
        <3>1. CASE j \in 1 .. L - 1
            <4>a. i \in 1 .. L - 1 /\ i + 1 \in 1..L /\ j + 1 \in 1..L /\ i + 1 < j + 1
                BY <1>1, <2>1, <3>1
            <4>1. i + 1 \in 1..L /\ j + 1 \in 1..L /\ i + 1 < j + 1 /\ ds[i] = depths[i + 1] /\ ds[j] = depths[j + 1]
                BY <1>4, <3>1, <4>a
            <4> QED
                BY <1>0, <1>1, <4>1 DEF BfsOrder
        <3>2. CASE j \in L .. (L - 1) + M
            BY <1>4, <1>9, <3>2
        <3> QED
            BY <1>1, <3>1, <3>2
    <2>2. ASSUME NEW i \in 1 .. (L - 1) + M PROVE ds[i] =< ds[1] + 1
        <3>1. 1 \in 1 .. (L - 1) + M
            BY <1>1
        <3> QED
            BY <1>1, <1>9, <3>1
    <2> QED
        BY <1>3, <2>1, <2>2 DEF BfsOrder
<1>12. ASSUME NEW v \in sn
       PROVE  v \in ToSet(ns) \/ next[v] \subseteq sn \/ Far(next, a, limit, v)
    <2>1. CASE v \in ToSet(new)
        <3>1. PICK i \in 1..M : v = new[i]
            BY <1>1, <2>1 DEF ToSet
        <3>2. i + (L - 1) \in L .. (L - 1) + M /\ (i + (L - 1)) - (L - 1) = i /\ i + (L - 1) \in DOMAIN ns
            BY <1>1, <1>3
        <3>3. v = ns[i + (L - 1)]
            BY <1>3, <3>1, <3>2
        <3> QED
            BY <3>2, <3>3 DEF ToSet
    <2>2. CASE v \in seen /\ v \in ToSet(nodes)
        <3>1. PICK i \in 1..L : v = nodes[i]
            BY <1>1, <2>2 DEF ToSet
        <3>2. CASE i # 1
            <4>1. i - 1 \in 1 .. L - 1 /\ (i - 1) + 1 = i /\ i - 1 \in DOMAIN ns
                BY <1>1, <1>3, <3>2
            <4>2. v = ns[i - 1]
                BY <1>3, <3>1, <4>1
            <4> QED
                BY <4>1, <4>2 DEF ToSet
        <3>3. CASE i = 1 /\ D = limit
            <4>1. At(next, a, v, D)
                BY <1>0, <1>1, <3>1, <3>3 DEF BfsAt
            <4> QED
                BY <1>1, <3>3, <4>1 DEF At, Far, NoLimit
        <3>4. CASE i = 1 /\ D # limit
            BY <1>c, <3>1, <3>4
        <3> QED
            BY <3>2, <3>3, <3>4
    <2>3. CASE v \in seen /\ v \notin ToSet(nodes)
        BY <1>0, <1>c, <2>3 DEF BfsDone
    <2> QED
        BY <1>c, <2>1, <2>2, <2>3
<1>13. BfsDone(next, a, limit, ns, sn)
    BY <1>12 DEF BfsDone
<1>14. BfsSeen(next, a, ns, ds, sn)
    <2> SUFFICES ASSUME ns # <<>>, NEW d \in 0 .. ds[1] PROVE W(d) \subseteq sn
        BY DEF BfsSeen
    <2>1. 1 \in 1 .. (L - 1) + M
        BY <1>1, <1>3
    <2>2. ds[1] \in Nat /\ D =< ds[1] /\ ds[1] =< D + 1 /\ (limit # NoLimit => ds[1] =< limit)
        BY <1>9, <2>1
    <2>3. CASE d \in 0..D
        BY <1>7, <1>c, <2>3
    <2>4. CASE d \notin 0..D
        <3>1. d = D + 1 /\ ds[1] = D + 1
            BY <1>1, <2>2, <2>4
        <3> SUFFICES ASSUME NEW w \in W(D + 1) PROVE w \in sn
            BY <3>1
        <3>2. PICK u \in W(D) : w \in next[u]
            BY <1>7
        <3>3. u \in sn /\ D \in 0..D
            BY <1>1, <1>7, <1>c
        <3>4. ~ Far(next, a, limit, u)
            <4>1. limit # NoLimit => D \in 0 .. limit - 1
                BY <1>1, <2>2, <3>1 DEF NoLimit
            <4> QED
                BY <4>1 DEF Far
        <3>5. u \notin ToSet(ns)
            <4> SUFFICES ASSUME NEW i \in 1 .. (L - 1) + M, u = ns[i] PROVE FALSE
                BY <1>3 DEF ToSet
            <4>1. ds[i] = D + 1
                <5>1. i = 1 \/ 1 < i
                    BY <1>1
                <5>2. ds[1] =< ds[i]
                    BY <1>3, <1>9, <1>11, <2>1, <5>1 DEF BfsOrder
                <5> QED
                    BY <1>1, <1>9, <3>1, <5>2
            <4>2. D \in 0 .. ds[i] - 1
                BY <1>1, <4>1
            <4> QED
                BY <1>9, <4>2 DEF At
        <3> QED
            BY <1>12, <3>2, <3>3, <3>4, <3>5
    <2> QED
        BY <2>3, <2>4
<1>15. ns # <<>> => depths[1] =< ds[1]
    <2>1. ns # <<>> => 1 \in 1 .. (L - 1) + M
        BY <1>1, <1>3
    <2> QED
        BY <1>1, <1>9, <2>1
<1> QED
    BY <1>5, <1>10, <1>11, <1>13, <1>14, <1>15 DEF Bfs

\* When the queue is empty, everything up to the limit has been seen.
LEMMA BfsEnd ==
    ASSUME NEW V, NEW next \in [V -> SUBSET V], NEW a \in V, NEW limit \in Nat \cup {NoLimit},
           NEW depths, NEW seen, Bfs(V, next, a, limit, <<>>, depths, seen)
    PROVE  \A d \in Nat : (limit # NoLimit => d =< limit) => Walk(next, a, d) \subseteq seen
<1> DEFINE T == {d \in Nat : (limit # NoLimit => d =< limit) => Walk(next, a, d) \subseteq seen}
<1>0. a \in seen /\ seen \subseteq V /\ \A v \in seen : next[v] \subseteq seen \/ Far(next, a, limit, v)
    BY DEF Bfs, BfsShape, BfsDone, ToSet
<1>1. 0 \in T
    BY <1>0, WalkSteps
<1>2. ASSUME NEW d \in Nat, d \in T PROVE d + 1 \in T
    <2> SUFFICES ASSUME limit # NoLimit => d + 1 =< limit, NEW w \in Walk(next, a, d + 1) PROVE w \in seen
        OBVIOUS
    <2>1. limit # NoLimit => d =< limit /\ d \in 0 .. limit - 1
        BY DEF NoLimit
    <2>2. PICK u \in Walk(next, a, d) : w \in next[u]
        BY WalkSteps
    <2>3. u \in seen
        BY <1>2, <2>1, <2>2
    <2>4. ~ Far(next, a, limit, u)
        BY <2>1, <2>2 DEF Far
    <2> QED
        BY <1>0, <2>2, <2>3, <2>4
<1>3. Nat \subseteq T
    <2> HIDE DEF T
    <2> QED
        BY <1>1, <1>2, Induction
<1> QED
    BY <1>3

-----------------------------------------------------------------------------
(* The invariants of the loops *)

CallOK ==
    /\ call.a \in Commits /\ call.b \in Commits
    /\ call.alg = "within_depth" => call.hops \in Nat
    /\ call.alg = "expand_edge" => call.edge \in AllEdges /\ call.hops = HopBounds(call.edge)[2]
    /\ call.alg = "match" => call.pattern \in Patterns

\* collect_ancestors: what is queued or visited is an ancestor; the parents of
\* what was visited are.
CollectLoop ==
    /\ queue \in Seq(Ancestors(call.a)) /\ visited \subseteq Ancestors(call.a)
    /\ call.a \in visited \cup ToSet(queue)
    /\ \A v \in visited : ToSet(parents[v]) \subseteq visited \cup ToSet(queue)

\* merge_base: a search from b; what left the queue is no ancestor of a.
MergeBaseLoop ==
    /\ \E depths : Bfs(Commits, ParentsOf, call.b, NoLimit, queue, depths, visited)
    /\ \A v \in visited : v \in ToSet(queue) \/ v \notin Ancestors(call.a)

\* ancestors_within_depth: a search with a limit; what left the queue was
\* collected, in the order of its distance.
Collected(nodes) ==
    /\ found \in Seq(Commits) /\ IsInjective(found) /\ IsInjective(nodes)
    /\ call.a \notin ToSet(found) /\ ToSet(found) \cap ToSet(nodes) = {}
    /\ visited = {call.a} \cup ToSet(found) \cup ToSet(nodes)
    /\ \A i \in DOMAIN found :
          /\ found[i] \in Ancestors(call.a) /\ Distance(call.a, found[i]) =< call.hops
          /\ queue # <<>> => Distance(call.a, found[i]) =< queue[1][2]
          /\ \A j \in DOMAIN found : i < j => Distance(call.a, found[i]) =< Distance(call.a, found[j])

WithinDepthLoop ==
    /\ queue \in Seq(Commits \X Nat)
    /\ Bfs(Commits, ParentsOf, call.a, call.hops,
           [i \in DOMAIN queue |-> queue[i][1]], [i \in DOMAIN queue |-> queue[i][2]], visited)
    /\ Collected([i \in DOMAIN queue |-> queue[i][1]])

\* A path from the start along parents and children.
PathOK(p) ==
    /\ p \in Seq(Commits) /\ p # <<>> /\ p[1] = call.a
    /\ \A i \in 1 .. Len(p) - 1 : p[i + 1] \in Neighbours(p[i])

\* shortest_commit_path: a search whose nodes are the ends of the queued paths;
\* what left the queue is not the target.
ShortestPathLoop ==
    /\ queue \in Seq(Seq(Commits)) /\ \A i \in DOMAIN queue : PathOK(queue[i])
    /\ Bfs(Commits, AtMostOneStep, call.a, NoLimit,
           [i \in DOMAIN queue |-> Last(queue[i])], [i \in DOMAIN queue |-> Len(queue[i]) - 1], visited)
    /\ \A v \in visited : v # call.b \/ \E i \in DOMAIN queue : Last(queue[i]) = v

\* The steps along an edge.
EdgeSteps(edge) == IF TowardRoot(edge) THEN ParentsOf ELSE ChildrenOf

\* expand_edge: a pair that left the queue has had its successors queued one step
\* further and was collected if it is within the bounds.
ExpandEdgeLoop ==
    LET next == EdgeSteps(call.edge)
        lo   == HopBounds(call.edge)[1]
    IN  /\ visited \subseteq Commits \X (0 .. call.hops) /\ queue \in Seq(visited)
        /\ <<call.a, 0>> \in visited
        /\ found \subseteq EdgeEnds(call.a, call.edge)
        /\ \A p \in visited :
              /\ p[1] \in Walk(next, call.a, p[2])
              /\ \/ p \in ToSet(queue)
                 \/ /\ p[2] < call.hops => \A m \in next[p[1]] : <<m, p[2] + 1>> \in visited
                    /\ lo =< p[2] /\ p[1] # call.a => p[1] \in found

\* The assignments to the first k variables of a pattern under which its first
\* k - 1 edges hold.
Bindings(p, k) ==
    {f \in [{p.vars[i] : i \in 1..k} -> Universe(call.a)] :
        /\ \A i \in 1..k : f[p.vars[i]] \in p.wants[i]
        /\ \A i \in 1 .. k - 1 : f[p.vars[i + 1]] \in EdgeEnds(f[p.vars[i]], p.edges[i])}

\* match_pattern: the edges that are left are the last ones.
MatchLoop ==
    LET p    == call.pattern
        done == Len(p.edges) - Len(queue)
    IN  /\ queue \in Seq(Nat) /\ done \in Nat
        /\ \A i \in DOMAIN queue : queue[i] = done + i
        /\ found = Bindings(p, done + 1)

LoopInv ==
    /\ call.alg = "collect" => CollectLoop
    /\ call.alg = "merge_base" => MergeBaseLoop
    /\ call.alg = "within_depth" => WithinDepthLoop
    /\ call.alg = "shortest_path" => ShortestPathLoop
    /\ call.alg = "expand_edge" => ExpandEdgeLoop
    /\ call.alg = "match" => MatchLoop

ResultInv ==
    /\ MergeBaseIsCommon /\ AncestorWalksAreExact /\ ShortestPathIsShortest
    /\ EdgeEndsAreExact /\ MatchIsExact

\* While a walk runs its loop invariant holds; when it has ended its result is
\* what it is meant to be.
DagInv ==
    /\ GraphOK /\ CallOK
    /\ result = Running => LoopInv
    /\ ResultInv

\* A step that leaves the graph alone leaves alone what is derived from it.
LEMMA SameGraph ==
    ASSUME parents' = parents, tips' = tips
    PROVE  /\ Commits' = Commits /\ ParentsOf' = ParentsOf /\ ChildrenOf' = ChildrenOf
           /\ AtMostOneStep' = AtMostOneStep
           /\ \A n : Ancestors(n)' = Ancestors(n) /\ Universe(n)' = Universe(n) /\ Neighbours(n)' = Neighbours(n)
           /\ \A n, m : Distance(n, m)' = Distance(n, m) /\ Ball(n, m)' = Ball(n, m)
           /\ \A n, e : EdgeEnds(n, e)' = EdgeEnds(n, e)
           /\ GraphOK' = GraphOK
<1>1. Commits' = Commits /\ ParentsOf' = ParentsOf
    BY DEF Commits, ParentsOf
<1>2. \A n, d : Up(n, d)' = Up(n, d)
    BY <1>1 DEF Up
<1>3. \A n : Ancestors(n)' = Ancestors(n)
    BY <1>1, <1>2 DEF Ancestors
<1>4. \A n, m : Distance(n, m)' = Distance(n, m)
    BY <1>1, <1>2 DEF Distance
<1>5. Reachable' = Reachable
    BY <1>3 DEF Reachable
<1>6. \A n : Children(n)' = Children(n)
    BY <1>5 DEF Children
<1>7. \A n : Neighbours(n)' = Neighbours(n)
    BY <1>6 DEF Neighbours
<1>8. ChildrenOf' = ChildrenOf
    BY <1>1, <1>6 DEF ChildrenOf
<1>9. AtMostOneStep' = AtMostOneStep
    BY <1>1, <1>7 DEF AtMostOneStep
<1>10. \A n, d : Down(n, d)' = Down(n, d) /\ Ball(n, d)' = Ball(n, d)
    BY <1>8, <1>9 DEF Down, Ball
<1>11. \A n, e : EdgeEnds(n, e)' = EdgeEnds(n, e)
    BY <1>2, <1>10 DEF EdgeEnds
<1>12. \A n : Universe(n)' = Universe(n)
    BY <1>3, <1>5 DEF Universe
<1>13. GraphOK' = GraphOK
    BY <1>1 DEF GraphOK
<1> QED
    BY <1>1, <1>3, <1>4, <1>7, <1>8, <1>9, <1>10, <1>11, <1>12, <1>13

\* A turn of the loop of an algorithm keeps the invariant if it keeps the loop's
\* and gives the result that the algorithm is meant to give.
LEMMA TurnOK ==
    ASSUME DagInv, NEW alg, Turn(alg)
    PROVE  /\ GraphOK /\ CallOK /\ GraphOK' /\ CallOK' /\ LoopInv
           /\ result = Running /\ call.alg = alg /\ call' = call
           /\ parents' = parents /\ tips' = tips
<1>1. parents' = parents /\ tips' = tips /\ call' = call /\ result = Running /\ call.alg = alg
    BY DEF Turn
<1>2. GraphOK /\ CallOK /\ LoopInv
    BY <1>1 DEF DagInv
<1>3. GraphOK' /\ CallOK'
    BY <1>1, <1>2, SameGraph DEF CallOK
<1> QED
    BY <1>1, <1>2, <1>3

\* A result is not the mark of a running loop.
LEMMA DoneIsNotRunning == \A r : Done(r) # Running /\ Done(r)[2] = r
BY DEF Done, Running

\* collect_ancestors keeps its invariant and returns the ancestors.
LEMMA CollectOK ==
    ASSUME DagInv, CollectStep
    PROVE  DagInv'
<1>1. /\ GraphOK /\ CallOK /\ GraphOK' /\ CallOK' /\ LoopInv
      /\ result = Running /\ call.alg = "collect" /\ call' = call
      /\ parents' = parents /\ tips' = tips
    BY TurnOK DEF CollectStep
<1> DEFINE A == Ancestors(call.a)
<1>2. CollectLoop /\ call.a \in Commits
    BY <1>1 DEF LoopInv, CallOK
<1>3. A' = A
    BY <1>1, SameGraph
<1>4. SUFFICES /\ result' = Running => CollectLoop'
               /\ result' # Running => result'[2] = A
    <2>1. /\ result' = Running => LoopInv'
          /\ AncestorWalksAreExact'
        BY <1>1, <1>3, <1>4 DEF LoopInv, AncestorWalksAreExact, Returns, Value
    <2>2. ResultInv'
        BY <1>1, <2>1 DEF ResultInv, MergeBaseIsCommon, ShortestPathIsShortest, EdgeEndsAreExact,
                          MatchIsExact, Returns
    <2> QED
        BY <1>1, <2>1, <2>2 DEF DagInv
<1>5. CASE queue = <<>> /\ Finish(visited)
    <2>1. result' # Running /\ result'[2] = visited
        BY <1>5, DoneIsNotRunning DEF Finish
    <2>2. call.a \in visited /\ visited \subseteq A /\ \A v \in visited : ToSet(parents[v]) \subseteq visited
        BY <1>2, <1>5 DEF CollectLoop, ToSet
    <2>3. A \subseteq visited
        BY <1>1, <1>2, <2>2, AncestorsLeast
    <2> QED
        BY <2>1, <2>2, <2>3
<1>6. CASE queue # <<>> /\ UNCHANGED result
    <2> DEFINE h == Head(queue)
    <2>1. h \in A /\ Tail(queue) \in Seq(A) /\ ToSet(queue) = {h} \cup ToSet(Tail(queue))
        <3>1. queue \in Seq(A)
            BY <1>2 DEF CollectLoop
        <3> QED
            BY <1>6, <3>1, HeadAndTail
    <2>2. A \subseteq Commits /\ parents[h] \in Seq(Commits) /\ ToSet(parents[h]) \subseteq A
        BY <1>1, <1>2, <2>1, AncestorsClosed, ParentsOlder
    <2>3. CASE h \in visited /\ Pop /\ UNCHANGED visited
        <3>1. queue' = Tail(queue) /\ visited' = visited
            BY <2>3 DEF Pop
        <3>2. visited \cup ToSet(queue') = visited \cup ToSet(queue)
            BY <2>1, <2>3, <3>1
        <3> QED
            BY <1>1, <1>2, <1>3, <1>6, <2>1, <3>1, <3>2 DEF CollectLoop
    <2>4. CASE h \notin visited /\ queue' = Tail(queue) \o parents[h] /\ visited' = visited \cup {h}
        <3>1. parents[h] \in Seq(A)
            BY <2>2, SeqOver
        <3>2. queue' \in Seq(A) /\ ToSet(queue') = ToSet(Tail(queue)) \cup ToSet(parents[h])
            <4>1. Tail(queue) \in Seq(A) /\ parents[h] \in Seq(A) /\ queue' = Tail(queue) \o parents[h]
                BY <2>1, <2>4, <3>1
            <4> HIDE DEF A, h
            <4> QED
                BY <4>1, ConcatMembers, ZenonT(30)
        <3>3. visited' \cup ToSet(queue') = visited \cup ToSet(queue) \cup ToSet(parents[h])
            BY <2>1, <2>4, <3>2
        <3>4. ASSUME NEW v \in visited' PROVE ToSet(parents[v]) \subseteq visited' \cup ToSet(queue')
            <4>1. CASE v = h
                BY <3>3, <4>1
            <4>2. CASE v \in visited
                BY <1>2, <3>3, <4>2 DEF CollectLoop
            <4> QED
                BY <2>4, <4>1, <4>2
        <3>5. visited' \subseteq A /\ call.a \in visited' \cup ToSet(queue')
            BY <1>2, <2>1, <2>4, <3>3 DEF CollectLoop
        <3> HIDE DEF A
        <3> QED
            BY <1>1, <1>3, <1>6, <3>2, <3>4, <3>5 DEF CollectLoop, A
    <2> QED
        BY <1>6, <2>3, <2>4 DEF CollectStep, Finish, QueuedParents
<1> QED
    BY <1>5, <1>6 DEF CollectStep

\* The distance is the number of steps of At.
LEMMA DistanceIs ==
    ASSUME GraphOK, NEW n \in Commits, NEW m, NEW d \in Nat, At(ParentsOf, n, m, d)
    PROVE  Distance(n, m) = d /\ m \in Ancestors(n)
<1> DEFINE C == Cardinality(Commits)
           Is(k) == m \in Up(n, k) /\ \A e \in 0 .. k - 1 : m \notin Up(n, e)
<1>1. Is(d)
    BY DEF At, Up
<1>2. n \in 1..C /\ C \in Nat /\ m \in 1..C /\ m + d =< n
    BY <1>1, UpSteps, ParentsOlder
<1>3. d \in 0..C
    BY <1>2
<1>4. ASSUME NEW k \in 0..C, Is(k) PROVE k = d
    <2>1. CASE k < d
        BY <1>1, <1>4, <2>1
    <2>2. CASE d < k
        BY <1>1, <1>4, <2>2
    <2> QED
        BY <2>1, <2>2
<1>5. Distance(n, m) = CHOOSE k \in 0..C : Is(k)
    BY DEF Distance
<1>6. (CHOOSE k \in 0..C : Is(k)) = d
    <2> HIDE DEF C, Is
    <2> QED
        BY <1>1, <1>3, <1>4
<1>7. m \in Ancestors(n)
    BY <1>1, AncestorsClosed
<1> QED
    BY <1>5, <1>6, <1>7

\* An ancestor has a distance.
LEMMA DistanceExists ==
    ASSUME GraphOK, NEW n \in Commits, NEW m \in Ancestors(n)
    PROVE  \E d \in Nat : At(ParentsOf, n, m, d) /\ Distance(n, m) = d
<1> DEFINE T == {k \in Nat : m \in Up(n, k)}
<1>1. T # {} /\ T \in SUBSET Nat
    BY AncestorsClosed
<1>2. PICK d \in T : \A k \in T : d =< k
    <2> HIDE DEF T
    <2> QED
        BY <1>1, LeastNumber
<1>3. d \in Nat /\ m \in Up(n, d) /\ \A e \in 0 .. d - 1 : m \notin Up(n, e)
    BY <1>2
<1>4. At(ParentsOf, n, m, d)
    BY <1>3 DEF At, Up
<1> QED
    BY <1>3, <1>4, DistanceIs

\* What was not seen through the front's distance is not nearer than the front.
LEMMA BfsNearer ==
    ASSUME NEW V, NEW next, NEW a, NEW limit, NEW nodes, NEW depths, NEW seen,
           Bfs(V, next, a, limit, nodes, depths, seen), nodes # <<>>,
           NEW m, NEW d \in Nat, m \in Walk(next, a, d), d < depths[1]
    PROVE  m \in seen /\ m \notin ToSet(nodes)
<1>1. /\ nodes \in Seq(seen) /\ depths \in Seq(Nat) /\ Len(nodes) = Len(depths)
    BY DEF Bfs, BfsShape
<1>2. 1 \in DOMAIN nodes /\ \A i \in DOMAIN nodes : depths[i] \in Nat
    BY <1>1
<1>3. m \in seen
    <2>1. d \in 0 .. depths[1]
        BY <1>2
    <2> QED
        BY <2>1 DEF Bfs, BfsSeen
<1>4. ASSUME NEW i \in DOMAIN nodes PROVE m # nodes[i]
    <2>1. depths[1] =< depths[i]
        <3>1. i = 1 \/ 1 < i
            BY <1>1
        <3> QED
            BY <1>2, <3>1 DEF Bfs, BfsOrder
    <2>2. d \in 0 .. depths[i] - 1
        BY <1>2, <2>1
    <2>3. At(next, a, nodes[i], depths[i])
        BY DEF Bfs, BfsAt
    <2> QED
        BY <2>2, <2>3 DEF At
<1> QED
    BY <1>3, <1>4 DEF ToSet

\* merge_base keeps its invariant and returns a nearest common ancestor.
LEMMA MergeBaseOK ==
    ASSUME DagInv, MergeBaseStep
    PROVE  DagInv'
<1>1. /\ GraphOK /\ CallOK /\ GraphOK' /\ CallOK' /\ LoopInv
      /\ result = Running /\ call.alg = "merge_base" /\ call' = call
      /\ parents' = parents /\ tips' = tips
    BY TurnOK DEF MergeBaseStep
<1> DEFINE a == call.a
           b == call.b
           A == Ancestors(a)
           common == A \cap Ancestors(b)
           Right(v) == IF common = {} THEN v = NoBase
                       ELSE v \in common /\ \A m \in common : Distance(b, v) =< Distance(b, m)
<1>2. MergeBaseLoop /\ a \in Commits /\ b \in Commits
    BY <1>1 DEF LoopInv, CallOK
<1>3. /\ A' = A /\ Ancestors(b)' = Ancestors(b) /\ \A m : Distance(b, m)' = Distance(b, m)
      /\ Commits' = Commits /\ ParentsOf' = ParentsOf /\ a' = a /\ b' = b
    BY <1>1, SameGraph
<1>4. SUFFICES /\ result' = Running => MergeBaseLoop'
               /\ result' # Running => Right(result'[2])
    <2>1. result' = Running => LoopInv'
        BY <1>1, <1>4 DEF LoopInv
    <2>2. MergeBaseIsCommon'
        BY <1>1, <1>3, <1>4 DEF MergeBaseIsCommon, Returns, Value
    <2>3. ResultInv'
        BY <1>1, <2>2 DEF ResultInv, AncestorWalksAreExact, ShortestPathIsShortest, EdgeEndsAreExact,
                          MatchIsExact, Returns
    <2> QED
        BY <1>1, <2>1, <2>3 DEF DagInv
<1>5. PICK depths : Bfs(Commits, ParentsOf, b, NoLimit, queue, depths, visited)
    BY <1>2 DEF MergeBaseLoop
<1>6. ParentsOf \in [Commits -> SUBSET Commits] /\ NoLimit \in Nat \cup {NoLimit}
    BY <1>1, ParentsOlder
<1>7. queue \in Seq(visited) /\ depths \in Seq(Nat) /\ Len(queue) = Len(depths) /\ visited \subseteq Commits
    BY <1>5 DEF Bfs, BfsShape
<1>8. CASE a = b /\ Finish(a)
    <2>1. result' # Running /\ result'[2] = a
        BY <1>8, DoneIsNotRunning DEF Finish
    <2>2. a \in common
        BY <1>1, <1>2, <1>8, AncestorsClosed
    <2>3. ASSUME NEW m \in common PROVE Distance(b, a) =< Distance(b, m)
        <3>1. At(ParentsOf, b, b, 0)
            BY <1>1, <1>2, UpSteps DEF At, Up
        <3>2. Distance(b, a) = 0
            BY <1>1, <1>2, <1>8, <3>1, DistanceIs
        <3>3. Distance(b, m) \in Nat
            BY <1>1, <1>2, DistanceExists
        <3> QED
            BY <3>2, <3>3
    <2> QED
        BY <2>1, <2>2, <2>3
<1>9. CASE queue = <<>> /\ Finish(NoBase)
    <2>1. result' # Running /\ result'[2] = NoBase
        BY <1>9, DoneIsNotRunning DEF Finish
    <2>2. \A d \in Nat : Walk(ParentsOf, b, d) \subseteq visited
        BY <1>2, <1>5, <1>6, <1>9, BfsEnd
    <2>3. Ancestors(b) \subseteq visited
        BY <1>1, <1>2, <2>2, AncestorsClosed DEF Up
    <2>4. \A v \in visited : v \notin A
        BY <1>2, <1>9 DEF MergeBaseLoop, ToSet
    <2> QED
        BY <2>1, <2>3, <2>4
<1>10. CASE queue # <<>> /\ Head(queue) \in A /\ Finish(Head(queue))
    <2> DEFINE h == Head(queue)
               D == depths[1]
    <2>1. result' # Running /\ result'[2] = h
        BY <1>10, DoneIsNotRunning DEF Finish
    <2>2. h = queue[1] /\ 1 \in DOMAIN queue /\ D \in Nat
        BY <1>7, <1>10
    <2>3. At(ParentsOf, b, h, D)
        BY <1>5, <2>2 DEF Bfs, BfsAt
    <2>4. Distance(b, h) = D /\ h \in common
        BY <1>1, <1>2, <1>10, <2>2, <2>3, DistanceIs
    <2>5. ASSUME NEW m \in common PROVE D =< Distance(b, m)
        <3>1. PICK d \in Nat : At(ParentsOf, b, m, d) /\ Distance(b, m) = d
            BY <1>1, <1>2, DistanceExists
        <3>2. CASE d < D
            <4>1. m \in visited /\ m \notin ToSet(queue)
                BY <1>5, <1>10, <3>1, <3>2, BfsNearer DEF At
            <4> QED
                BY <1>2, <4>1 DEF MergeBaseLoop
        <3> QED
            BY <2>2, <3>1, <3>2
    <2> QED
        BY <2>1, <2>4, <2>5
<1>11. CASE queue # <<>> /\ Head(queue) \notin A /\ PushParents(Head(queue)) /\ UNCHANGED result
    <2> DEFINE h   == Head(queue)
               new == New(parents[h], visited)
               ds  == Tail(depths) \o [i \in DOMAIN new |-> depths[1] + 1]
    <2>1. /\ h = queue[1] /\ h \in visited /\ h \in Commits
          /\ 1 \in DOMAIN queue /\ depths[1] \in Nat
          /\ ToSet(queue) = {h} \cup ToSet(Tail(queue)) /\ Tail(queue) \in Seq(Commits)
        <3>1. queue \in Seq(Commits)
            BY <1>7
        <3>2. h = queue[1] /\ h \in visited
            BY <1>7, <1>11
        <3>3. 1 \in DOMAIN queue /\ depths[1] \in Nat
            BY <1>7, <1>11
        <3> QED
            BY <1>7, <1>11, <3>1, <3>2, <3>3, HeadAndTail
    <2>2. parents[h] \in Seq(Commits) /\ ParentsOf[h] = ToSet(parents[h])
        BY <1>1, <2>1, ParentsOlder
    <2>3. new \in Seq(Commits) /\ ToSet(new) = ToSet(parents[h]) \ visited
        BY <2>2, NewExact
    <2>4. queue' = Tail(queue) \o new /\ visited' = visited \cup ToSet(new)
        BY <1>11 DEF PushParents, Push
    <2>5. BfsTurn(Commits, ParentsOf, NoLimit, queue, depths, visited, new, queue', ds, visited')
        <3>1. depths[1] # NoLimit
            BY <2>1 DEF NoLimit
        <3> HIDE DEF new
        <3> QED
            BY <1>11, <2>1, <2>2, <2>3, <2>4, <3>1 DEF BfsTurn
    <2>6. Bfs(Commits, ParentsOf, b, NoLimit, queue', ds, visited')
        <3> HIDE DEF ds, new
        <3> QED
            BY <1>2, <1>5, <1>6, <2>5, BfsStep
    <2>7. ASSUME NEW v \in visited' PROVE v \in ToSet(queue') \/ v \notin A
        <3>1. ToSet(queue') = ToSet(Tail(queue)) \cup ToSet(new)
            <4>1. Tail(queue) \in Seq(Commits) /\ new \in Seq(Commits) /\ queue' = Tail(queue) \o new
                BY <2>1, <2>3, <2>4
            <4> HIDE DEF new
            <4> QED
                BY <4>1, ConcatMembers, ZenonT(30)
        <3>2. CASE v \in ToSet(new)
            BY <3>1, <3>2
        <3>3. CASE v \in visited
            <4>1. v \in ToSet(queue) \/ v \notin A
                BY <1>2, <3>3 DEF MergeBaseLoop
            <4> QED
                BY <1>11, <2>1, <3>1, <4>1
        <3> QED
            BY <2>4, <3>2, <3>3
    <2>8. MergeBaseLoop'
        <3> HIDE DEF ds, new, A
        <3>1. \E ds2 : Bfs(Commits, ParentsOf, b, NoLimit, queue', ds2, visited')
            BY <2>6
        <3> QED
            BY <1>3, <2>7, <3>1 DEF MergeBaseLoop, A
    <2> QED
        BY <1>1, <1>11, <2>8
<1> QED
    BY <1>8, <1>9, <1>10, <1>11 DEF MergeBaseStep

\* ancestors_within_depth keeps its invariant and returns the proper ancestors
\* within the depth, each once, nearest first.
LEMMA WithinDepthOK ==
    ASSUME DagInv, WithinDepthStep
    PROVE  DagInv'
<1>1. /\ GraphOK /\ CallOK /\ GraphOK' /\ CallOK' /\ LoopInv
      /\ result = Running /\ call.alg = "within_depth" /\ call' = call
      /\ parents' = parents /\ tips' = tips
    BY TurnOK DEF WithinDepthStep
<1> DEFINE a == call.a
           A == Ancestors(a)
           hops == call.hops
           dist(m) == Distance(a, m)
           nodes == [i \in DOMAIN queue |-> queue[i][1]]
           depths == [i \in DOMAIN queue |-> queue[i][2]]
           Right(v) == /\ ToSet(v) = {m \in A \ {a} : dist(m) =< hops}
                       /\ IsInjective(v)
                       /\ \A i, j \in DOMAIN v : i < j => dist(v[i]) =< dist(v[j])
<1>2. WithinDepthLoop /\ a \in Commits /\ hops \in Nat
    BY <1>1 DEF LoopInv, CallOK
<1>3. /\ A' = A /\ (\A m : Distance(a, m)' = Distance(a, m))
      /\ Commits' = Commits /\ ParentsOf' = ParentsOf /\ a' = a /\ hops' = hops
    BY <1>1, SameGraph
<1>4. SUFFICES /\ result' = Running => WithinDepthLoop'
               /\ result' # Running => Right(result'[2])
    <2>1. result' = Running => LoopInv'
        BY <1>1, <1>4 DEF LoopInv
    <2>2. AncestorWalksAreExact'
        BY <1>1, <1>3, <1>4 DEF AncestorWalksAreExact, Returns, Value
    <2>3. ResultInv'
        BY <1>1, <2>2 DEF ResultInv, MergeBaseIsCommon, ShortestPathIsShortest, EdgeEndsAreExact,
                          MatchIsExact, Returns
    <2> QED
        BY <1>1, <2>1, <2>3 DEF DagInv
<1>5. ParentsOf \in [Commits -> SUBSET Commits] /\ hops \in Nat \cup {NoLimit} /\ hops # NoLimit
    BY <1>1, <1>2, ParentsOlder DEF NoLimit
<1>6. /\ queue \in Seq(Commits \X Nat)
      /\ Bfs(Commits, ParentsOf, a, hops, nodes, depths, visited)
      /\ Collected(nodes)
    BY <1>2 DEF WithinDepthLoop
<1>7. CASE (hops = 0 \/ queue = <<>>) /\ Finish(found)
    <2>1. result' # Running /\ result'[2] = found
        BY <1>7, DoneIsNotRunning DEF Finish
    <2>2. /\ IsInjective(found) /\ a \notin ToSet(found) /\ visited = {a} \cup ToSet(found) \cup ToSet(nodes)
          /\ \A i \in DOMAIN found : found[i] \in A /\ dist(found[i]) =< hops
          /\ \A i, j \in DOMAIN found : i < j => dist(found[i]) =< dist(found[j])
        BY <1>6 DEF Collected
    <2>3. ASSUME NEW m \in A, m # a, dist(m) =< hops PROVE m \in ToSet(found)
        <3>1. PICK d \in Nat : At(ParentsOf, a, m, d) /\ dist(m) = d
            BY <1>1, <1>2, DistanceExists
        <3>2. CASE hops = 0
            <4>1. d = 0
                BY <2>3, <3>1, <3>2
            <4> QED
                BY <1>1, <1>2, <2>3, <3>1, <4>1, UpSteps DEF At, Up
        <3>3. CASE queue = <<>>
            <4>1. nodes = <<>> /\ ToSet(nodes) = {}
                BY <3>3 DEF ToSet
            <4>2. Bfs(Commits, ParentsOf, a, hops, <<>>, depths, visited)
                BY <1>6, <4>1
            <4>3. Walk(ParentsOf, a, d) \subseteq visited
                <5> HIDE DEF depths, nodes
                <5> QED
                    BY <1>2, <1>5, <2>3, <3>1, <4>2, BfsEnd
            <4> QED
                BY <2>2, <2>3, <3>1, <4>1, <4>3 DEF At
        <3> QED
            BY <1>7, <3>2, <3>3
    <2>4. ASSUME NEW m \in ToSet(found) PROVE m \in A \ {a} /\ dist(m) =< hops
        BY <2>2 DEF ToSet
    <2>5. ToSet(found) = {m \in A \ {a} : dist(m) =< hops}
        <3> HIDE DEF A, dist
        <3> QED
            BY <2>3, <2>4
    <2> QED
        BY <2>1, <2>2, <2>5
<1>8. CASE hops # 0 /\ queue # <<>> /\ UNCHANGED result
    <2> DEFINE n == Head(queue)[1]
               depth == Head(queue)[2]
               new == IF GoesDeeper(depth) THEN New(parents[n], visited) ELSE <<>>
               Q == [i \in DOMAIN new |-> <<new[i], depth + 1>>]
               nodes2 == [i \in DOMAIN queue' |-> queue'[i][1]]
               depths2 == [i \in DOMAIN queue' |-> queue'[i][2]]
    <2>1. /\ found' = IF depth > 0 THEN Append(found, n) ELSE found
          /\ queue' = Tail(queue) \o Q
          /\ visited' = visited \cup ToSet(new)
        BY <1>8 DEF WithinDepthStep, Finish
    <2>2. /\ Len(queue) \in Nat /\ DOMAIN queue = 1 .. Len(queue) /\ 1 \in DOMAIN queue
          /\ Head(queue) = queue[1] /\ n \in Commits /\ depth \in Nat
          /\ nodes # <<>> /\ nodes[1] = n /\ depths[1] = depth
        BY <1>6, <1>8
    <2>3. /\ n \in visited /\ visited \subseteq Commits /\ nodes \in Seq(Commits)
          /\ At(ParentsOf, a, n, depth) /\ depth =< hops
        <3>1. /\ nodes \in Seq(visited) /\ visited \subseteq Commits
              /\ \A i \in DOMAIN nodes : At(ParentsOf, a, nodes[i], depths[i]) /\ depths[i] =< hops
            BY <1>5, <1>6 DEF Bfs, BfsShape, BfsAt
        <3>2. 1 \in DOMAIN nodes
            BY <2>2
        <3> HIDE DEF nodes, depths
        <3> QED
            BY <2>2, <3>1, <3>2
    <2>4. n \in A /\ dist(n) = depth /\ (depth = 0 <=> n = a)
        <3>1. n \in A /\ dist(n) = depth
            BY <1>1, <1>2, <2>2, <2>3, DistanceIs
        <3>2. Walk(ParentsOf, a, 0) = {a}
            BY <1>1, <1>2, UpSteps DEF Up
        <3>3. depth # 0 => 0 \in 0 .. depth - 1
            BY <2>2
        <3> QED
            BY <2>3, <3>1, <3>2, <3>3 DEF At
    <2>5. /\ new \in Seq(Commits) /\ IsInjective(new) /\ ToSet(new) \cap visited = {}
          /\ depth = hops => new = <<>>
          /\ depth # hops => ToSet(new) = ParentsOf[n] \ visited
        <3>1. parents[n] \in Seq(Commits) /\ ParentsOf[n] = ToSet(parents[n])
            BY <1>1, <2>2, ParentsOlder
        <3>2. CASE depth < hops
            <4>1. new = New(parents[n], visited)
                BY <3>2 DEF GoesDeeper
            <4> HIDE DEF new
            <4> QED
                BY <2>2, <3>1, <3>2, <4>1, NewExact
        <3>3. CASE ~(depth < hops)
            <4>1. new = <<>>
                BY <3>3 DEF GoesDeeper
            <4>2. depth = hops
                BY <1>2, <2>2, <2>3, <3>3
            <4> HIDE DEF new
            <4> QED
                BY <4>1, <4>2 DEF IsInjective, ToSet
        <3> QED
            BY <3>2, <3>3
    <2> HIDE DEF new
    <2> DEFINE S == Commits \X Nat
               Fst == [p \in S |-> p[1]]
               Snd == [p \in S |-> p[2]]
    <2>6. /\ Q \in Seq(S) /\ Image(Fst, Q) = new /\ Image(Snd, Q) = [i \in DOMAIN new |-> depth + 1]
        <3>1. \A i \in DOMAIN new : new[i] \in Commits
            BY <2>5
        <3>2. DOMAIN Q = DOMAIN new /\ \A i \in DOMAIN new : Q[i] = <<new[i], depth + 1>> /\ Q[i] \in S
            BY <2>2, <3>1
        <3>3. Q \in Seq(S)
            BY <2>5, <3>2
        <3>4. \A i \in DOMAIN new : Fst[Q[i]] = new[i] /\ Snd[Q[i]] = depth + 1
            BY <3>2
        <3> HIDE DEF Q, Fst, Snd
        <3>5. Image(Fst, Q) = [i \in DOMAIN new |-> new[i]]
            BY <3>2, <3>4 DEF Image
        <3>6. new = [i \in DOMAIN new |-> new[i]]
            BY <2>5
        <3>7. Image(Snd, Q) = [i \in DOMAIN new |-> depth + 1]
            BY <3>2, <3>4 DEF Image
        <3> QED
            BY <3>3, <3>5, <3>6, <3>7
    <2>7. /\ Fst \in [S -> Commits] /\ Snd \in [S -> Nat]
          /\ \A q \in Seq(S) : /\ Image(Fst, q) = [i \in DOMAIN q |-> q[i][1]]
                               /\ Image(Snd, q) = [i \in DOMAIN q |-> q[i][2]]
        <3>1. Fst \in [S -> Commits] /\ Snd \in [S -> Nat]
            OBVIOUS
        <3>2. ASSUME NEW q \in Seq(S)
              PROVE  /\ Image(Fst, q) = [i \in DOMAIN q |-> q[i][1]]
                     /\ Image(Snd, q) = [i \in DOMAIN q |-> q[i][2]]
            <4>1. \A i \in DOMAIN q : q[i] \in S
                OBVIOUS
            <4>2. \A i \in DOMAIN q : Fst[q[i]] = q[i][1] /\ Snd[q[i]] = q[i][2]
                BY <4>1
            <4> HIDE DEF Fst, Snd
            <4> QED
                BY <4>2 DEF Image
        <3> QED
            BY <3>1, <3>2
    <2>8. /\ queue' \in Seq(S)
          /\ nodes2 = Tail(nodes) \o new
          /\ depths2 = Tail(depths) \o [i \in DOMAIN new |-> depth + 1]
        <3>1. queue \in Seq(S) /\ queue # <<>>
            BY <1>6, <1>8
        <3> HIDE DEF Fst, Snd, S, Q, depth, n
        <3>2. queue' \in Seq(S)
            <4>1. Tail(queue) \in Seq(S)
                BY <3>1, TailPlaces
            <4> QED
                BY <2>1, <2>6, <4>1, Concat
        <3>3. nodes2 = Image(Fst, queue') /\ depths2 = Image(Snd, queue')
            BY <2>7, <3>2
        <3>4. nodes = Image(Fst, queue) /\ depths = Image(Snd, queue)
            BY <2>7, <3>1
        <3> HIDE DEF nodes, depths, nodes2, depths2
        <3>a. Fst \in [S -> Commits] /\ Snd \in [S -> Nat] /\ Q \in Seq(S)
            BY <2>6, <2>7
        <3>5. ImageOfTurn(Fst, queue, Q) /\ ImageOfTurn(Snd, queue, Q)
            BY <3>1, <3>a, ImageTurn, Zenon
        <3> QED
            BY <2>1, <2>6, <3>2, <3>3, <3>4, <3>5 DEF ImageOfTurn
    <2> HIDE DEF Fst, Snd, S, Q, depth, n, nodes, depths, nodes2, depths2
    <2>9. BfsTurn(Commits, ParentsOf, hops, nodes, depths, visited, new, nodes2, depths2, visited')
        BY <2>1, <2>2, <2>5, <2>8 DEF BfsTurn
    <2>10. /\ Bfs(Commits, ParentsOf, a, hops, nodes2, depths2, visited')
           /\ nodes2 # <<>> => depth =< depths2[1]
        BY <1>2, <1>5, <1>6, <2>2, <2>9, BfsStep
    <2>11. /\ found \in Seq(Commits) /\ IsInjective(found) /\ IsInjective(nodes)
           /\ a \notin ToSet(found) /\ ToSet(found) \cap ToSet(nodes) = {}
           /\ visited = {a} \cup ToSet(found) \cup ToSet(nodes)
           /\ \A i \in DOMAIN found : found[i] \in A /\ dist(found[i]) =< hops /\ dist(found[i]) =< depth
           /\ \A i, j \in DOMAIN found : i < j => dist(found[i]) =< dist(found[j])
        BY <1>6, <1>8, <2>2 DEF Collected, depth
    <2>12. ToSet(nodes) = {n} \cup ToSet(Tail(nodes)) /\ Tail(nodes) \in Seq(Commits)
        <3>1. Head(nodes) = n
            BY <2>2, <2>3
        <3> QED
            BY <2>2, <2>3, <3>1, HeadAndTail
    <2>13. IsInjective(nodes2) /\ n \notin ToSet(Tail(nodes))
        <3>1. ToSet(nodes) \cap ToSet(new) = {}
            BY <2>5, <2>11
        <3> QED
            BY <2>2, <2>3, <2>5, <2>8, <2>11, <3>1, InjectiveTurn
    <2>14. ToSet(nodes2) = ToSet(Tail(nodes)) \cup ToSet(new)
        <3>1. Tail(nodes) \in Seq(Commits) /\ new \in Seq(Commits) /\ nodes2 = Tail(nodes) \o new
            BY <2>5, <2>8, <2>12
        <3> QED
            BY <3>1, ConcatMembers, ZenonT(30)
    <2>15. queue' # <<>> => nodes2 # <<>> /\ depths2[1] = queue'[1][2]
        <3>1. Len(queue') \in Nat /\ DOMAIN queue' = 1 .. Len(queue')
            BY <2>8
        <3>2. queue' # <<>> => 1 \in DOMAIN queue'
            BY <2>8
        <3> QED
            BY <3>1, <3>2 DEF nodes2, depths2
    <2>17. /\ found' \in Seq(Commits) /\ IsInjective(found')
           /\ ToSet(found') = ToSet(found) \cup (IF depth > 0 THEN {n} ELSE {})
           /\ \A i \in DOMAIN found' : found'[i] \in A /\ dist(found'[i]) =< hops /\ dist(found'[i]) =< depth
           /\ \A i, j \in DOMAIN found' : i < j => dist(found'[i]) =< dist(found'[j])
        <3>1. CASE ~(depth > 0)
            BY <2>1, <2>11, <3>1
        <3>2. CASE depth > 0
            <4>1. found' = Append(found, n)
                BY <2>1, <3>2
            <4>2. n \notin ToSet(found) /\ n \in Commits
                BY <2>2, <2>11, <2>12
            <4>3. found' \in Seq(Commits) /\ IsInjective(found') /\ ToSet(found') = ToSet(found) \cup {n}
                BY <2>11, <4>1, <4>2, AppendNew, ZenonT(30)
            <4> DEFINE L == Len(found)
            <4>4. /\ L \in Nat /\ DOMAIN found = 1..L /\ DOMAIN found' = 1 .. L + 1
                  /\ found'[L + 1] = n /\ \A i \in 1..L : found'[i] = found[i]
                BY <2>11, <4>1
            <4> HIDE DEF L, A
            <4>5. \A i \in 1 .. L + 1 : i \in 1..L \/ i = L + 1
                BY <4>4
            <4>6. \A i \in DOMAIN found' : found'[i] \in A /\ dist(found'[i]) =< hops /\ dist(found'[i]) =< depth
                BY <2>2, <2>3, <2>4, <2>11, <4>4, <4>5
            <4>7. ASSUME NEW i \in 1 .. L + 1, NEW j \in 1 .. L + 1, i < j PROVE dist(found'[i]) =< dist(found'[j])
                <5>1. i \in 1..L
                    BY <4>4, <4>7
                <5>2. CASE j = L + 1
                    BY <2>4, <2>11, <4>4, <5>1, <5>2
                <5>3. CASE j \in 1..L
                    BY <2>11, <4>4, <4>7, <5>1, <5>3
                <5> QED
                    BY <4>5, <5>2, <5>3
            <4> QED
                BY <3>2, <4>3, <4>4, <4>6, <4>7
        <3> QED
            BY <3>1, <3>2
    <2>18. /\ a \notin ToSet(found') /\ ToSet(found') \cap ToSet(nodes2) = {}
           /\ visited' = {a} \cup ToSet(found') \cup ToSet(nodes2)
        <3>1. depth > 0 <=> n # a
            BY <2>2, <2>4
        <3>2. a \notin ToSet(found')
            BY <2>11, <2>17, <3>1
        <3>3. ToSet(found') \cap ToSet(nodes2) = {}
            BY <2>3, <2>5, <2>11, <2>12, <2>13, <2>14, <2>17
        <3>4. visited' = {a} \cup ToSet(found') \cup ToSet(nodes2)
            BY <2>1, <2>11, <2>12, <2>14, <2>17, <3>1
        <3> QED
            BY <3>2, <3>3, <3>4
    <2>19. ASSUME NEW i \in DOMAIN found', queue' # <<>> PROVE dist(found'[i]) =< queue'[1][2]
        <3>1. depth =< queue'[1][2]
            BY <2>10, <2>15, <2>19
        <3>2. queue'[1][2] \in Nat
            <4>1. queue'[1] \in S
                BY <2>8, <2>19
            <4> QED
                BY <4>1 DEF S
        <3>3. dist(found'[i]) =< depth
            BY <2>17
        <3>4. dist(found'[i]) \in Nat
            BY <1>1, <1>2, <2>17, DistanceExists
        <3> HIDE DEF dist
        <3> QED
            BY <2>2, <3>1, <3>2, <3>3, <3>4
    <2>20. WithinDepthLoop'
        <3> HIDE DEF A
        <3>1. (queue \in Seq(Commits \X Nat))'
            BY <1>3, <2>8 DEF S
        <3>2. Bfs(Commits, ParentsOf, call.a, call.hops, nodes, depths, visited)'
            BY <1>1, <1>3, <2>10 DEF nodes2, depths2, nodes, depths
        <3>3. Collected(nodes)'
            <4>1. nodes' = nodes2 /\ call' = call
                BY <1>1 DEF nodes, nodes2
            <4>2. \A i \in DOMAIN found' :
                    /\ found'[i] \in A /\ dist(found'[i]) =< hops
                    /\ queue' # <<>> => dist(found'[i]) =< queue'[1][2]
                    /\ \A j \in DOMAIN found' : i < j => dist(found'[i]) =< dist(found'[j])
                BY <2>17, <2>19
            <4>3. A = Ancestors(a)
                BY DEF A
            <4> HIDE DEF nodes2
            <4>4. (found \in Seq(Commits) /\ IsInjective(found) /\ IsInjective(nodes))'
                BY <1>3, <2>13, <2>17, <4>1
            <4>5. /\ (call.a \notin ToSet(found) /\ ToSet(found) \cap ToSet(nodes) = {})'
                  /\ (visited = {call.a} \cup ToSet(found) \cup ToSet(nodes))'
                BY <2>18, <4>1
            <4>6. \A m : Distance(call.a, m)' = dist(m)
                BY <1>3, <4>1
            <4>7. Ancestors(call.a)' = A
                BY <1>3 DEF A
            <4>8. call.hops' = hops
                BY <1>3
            <4> HIDE DEF dist, hops
            <4>9. (\A i \in DOMAIN found :
                    /\ found[i] \in Ancestors(call.a) /\ Distance(call.a, found[i]) =< call.hops
                    /\ queue # <<>> => Distance(call.a, found[i]) =< queue[1][2]
                    /\ \A j \in DOMAIN found : i < j => Distance(call.a, found[i]) =< Distance(call.a, found[j]))'
                BY <4>2, <4>6, <4>7, <4>8
            <4> QED
                BY <4>4, <4>5, <4>9 DEF Collected
        <3> QED
            BY <3>1, <3>2, <3>3 DEF WithinDepthLoop, nodes, depths
    <2> QED
        BY <1>1, <1>8, <2>20
<1> QED
    BY <1>7, <1>8 DEF WithinDepthStep

\* A path grows by a neighbour of its end.
LEMMA PathStep ==
    ASSUME NEW p, PathOK(p), NEW m \in Commits, m \in Neighbours(Last(p))
    PROVE  /\ PathOK(Append(p, m)) /\ Last(Append(p, m)) = m
           /\ Len(Append(p, m)) - 1 = (Len(p) - 1) + 1
<1> DEFINE q == Append(p, m)
           n == Len(p)
<1>1. p \in Seq(Commits) /\ p # <<>> /\ p[1] = call.a /\ \A i \in 1 .. n - 1 : p[i + 1] \in Neighbours(p[i])
    BY DEF PathOK
<1>2. /\ n \in Nat /\ n >= 1 /\ q \in Seq(Commits) /\ q # <<>> /\ Len(q) = n + 1
      /\ q[n + 1] = m /\ \A i \in 1..n : q[i] = p[i]
    BY <1>1
<1>3. Last(p) = p[n] /\ Last(q) = m
    BY <1>2 DEF Last
<1> HIDE DEF q, n
<1>4. ASSUME NEW i \in 1 .. Len(q) - 1 PROVE q[i + 1] \in Neighbours(q[i])
    <2>1. CASE i = n
        BY <1>2, <1>3, <2>1
    <2>2. CASE i \in 1 .. n - 1
        <3>1. i \in 1..n /\ i + 1 \in 1..n
            BY <1>2, <2>2
        <3>2. q[i + 1] = p[i + 1] /\ q[i] = p[i]
            BY <1>2, <3>1
        <3> QED
            BY <1>1, <2>2, <3>2
    <2> QED
        BY <1>2, <2>1, <2>2
<1>5. PathOK(q)
    <2>1. q[1] = call.a
        BY <1>1, <1>2
    <2> QED
        BY <1>2, <1>4, <2>1 DEF PathOK
<1>6. Len(q) - 1 = (n - 1) + 1
    BY <1>2
<1> QED
    BY <1>3, <1>5, <1>6 DEF q, n

\* shortest_commit_path keeps its invariant and returns a shortest path.
LEMMA ShortestPathOK ==
    ASSUME DagInv, ShortestPathStep
    PROVE  DagInv'
<1>1. /\ GraphOK /\ CallOK /\ GraphOK' /\ CallOK' /\ LoopInv
      /\ result = Running /\ call.alg = "shortest_path" /\ call' = call
      /\ parents' = parents /\ tips' = tips
    BY TurnOK DEF ShortestPathStep
<1> DEFINE a == call.a
           b == call.b
           next == AtMostOneStep
           nodes == [i \in DOMAIN queue |-> Last(queue[i])]
           depths == [i \in DOMAIN queue |-> Len(queue[i]) - 1]
           Right(v) == IF v = <<>> THEN b \notin Ball(a, Cardinality(Commits))
                       ELSE /\ Head(v) = a /\ Last(v) = b
                            /\ \A i \in 1 .. Len(v) - 1 : v[i + 1] \in Neighbours(v[i])
                            /\ Len(v) > 1 => b \notin Ball(a, Len(v) - 2)
<1>2. ShortestPathLoop /\ a \in Commits /\ b \in Commits
    BY <1>1 DEF LoopInv, CallOK
<1>3. /\ Commits' = Commits /\ next' = next /\ a' = a /\ b' = b
      /\ (\A n : Neighbours(n)' = Neighbours(n)) /\ (\A n, d : Ball(n, d)' = Ball(n, d))
    BY <1>1, SameGraph
<1>4. SUFFICES /\ result' = Running => ShortestPathLoop'
               /\ result' # Running => Right(result'[2])
    <2>1. result' = Running => LoopInv'
        BY <1>1, <1>4 DEF LoopInv
    <2>2. ShortestPathIsShortest'
        BY <1>1, <1>3, <1>4 DEF ShortestPathIsShortest, Returns, Value
    <2>3. ResultInv'
        BY <1>1, <2>2 DEF ResultInv, MergeBaseIsCommon, AncestorWalksAreExact, EdgeEndsAreExact,
                          MatchIsExact, Returns
    <2> QED
        BY <1>1, <2>1, <2>3 DEF DagInv
<1>5. /\ next \in [Commits -> SUBSET Commits] /\ NoLimit \in Nat \cup {NoLimit}
      /\ \A n \in Commits : next[n] = {n} \cup Neighbours(n)
    BY <1>1, ChildrenFacts
<1>6. /\ queue \in Seq(Seq(Commits)) /\ (\A i \in DOMAIN queue : PathOK(queue[i]))
      /\ Bfs(Commits, next, a, NoLimit, nodes, depths, visited)
      /\ \A v \in visited : v # b \/ \E i \in DOMAIN queue : Last(queue[i]) = v
    BY <1>2 DEF ShortestPathLoop
<1>7. CASE queue = <<>> /\ Finish(<<>>)
    <2>1. result' # Running /\ result'[2] = <<>>
        BY <1>7, DoneIsNotRunning DEF Finish
    <2>2. b \notin visited
        BY <1>6, <1>7
    <2>3. nodes = <<>>
        BY <1>7
    <2>4. Bfs(Commits, next, a, NoLimit, <<>>, depths, visited)
        BY <1>6, <2>3
    <2>5. Cardinality(Commits) \in Nat
        BY <1>1, ParentsOlder
    <2>6. \A d \in Nat : Walk(next, a, d) \subseteq visited
        <3> HIDE DEF depths, nodes
        <3> QED
            BY <1>2, <1>5, <2>4, BfsEnd
    <2> QED
        BY <2>1, <2>2, <2>5, <2>6 DEF Ball
<1>8. queue # <<>> => /\ 1 \in DOMAIN queue /\ Head(queue) = queue[1] /\ PathOK(queue[1])
                      /\ queue[1] \in Seq(Commits) /\ queue[1] # <<>>
                      /\ nodes # <<>> /\ nodes[1] = Last(queue[1]) /\ depths[1] = Len(queue[1]) - 1
    <2> SUFFICES ASSUME queue # <<>> PROVE /\ 1 \in DOMAIN queue /\ Head(queue) = queue[1] /\ PathOK(queue[1])
                      /\ queue[1] \in Seq(Commits) /\ queue[1] # <<>>
                      /\ nodes # <<>> /\ nodes[1] = Last(queue[1]) /\ depths[1] = Len(queue[1]) - 1
        OBVIOUS
    <2>1. 1 \in DOMAIN queue /\ Head(queue) = queue[1]
        BY <1>6
    <2>2. PathOK(queue[1])
        BY <1>6, <2>1
    <2>3. nodes # <<>> /\ nodes[1] = Last(queue[1]) /\ depths[1] = Len(queue[1]) - 1
        BY <2>1
    <2>4. queue[1] \in Seq(Commits) /\ queue[1] # <<>>
        BY <2>2 DEF PathOK
    <2> QED
        BY <2>1, <2>2, <2>3, <2>4
<1>9. CASE queue # <<>> /\ Last(Head(queue)) = b /\ Finish(Head(queue))
    <2> DEFINE h == Head(queue)
    <2>1. result' # Running /\ result'[2] = h
        BY <1>9, DoneIsNotRunning DEF Finish
    <2>2. h # <<>> /\ h[1] = a /\ (\A i \in 1 .. Len(h) - 1 : h[i + 1] \in Neighbours(h[i])) /\ h \in Seq(Commits)
        BY <1>8, <1>9 DEF PathOK
    <2>3. At(next, a, b, Len(h) - 1)
        <3>1. \A i \in DOMAIN nodes : At(next, a, nodes[i], depths[i])
            BY <1>6 DEF Bfs, BfsAt
        <3>2. 1 \in DOMAIN nodes /\ nodes[1] = b /\ depths[1] = Len(h) - 1
            BY <1>8, <1>9
        <3> HIDE DEF nodes, depths
        <3> QED
            BY <3>1, <3>2
    <2>4. Len(h) > 1 => Len(h) - 2 \in 0 .. (Len(h) - 1) - 1
        BY <2>2
    <2>5. Len(h) > 1 => b \notin Ball(a, Len(h) - 2)
        BY <2>3, <2>4 DEF At, Ball
    <2>6. Head(h) = a
        BY <2>2
    <2> QED
        BY <1>9, <2>1, <2>2, <2>5, <2>6
<1>10. CASE queue # <<>> /\ Last(Head(queue)) # b /\ UNCHANGED result
    <2> DEFINE h == Head(queue)
               n == Last(h)
    <2>1. PICK order \in SetToSeqs(Children(n)) :
            LET new == New(NeighbourList(n, order), visited)
            IN  /\ queue' = Tail(queue) \o [i \in DOMAIN new |-> Append(h, new[i])]
                /\ visited' = visited \cup ToSet(new)
        BY <1>10 DEF ShortestPathStep, Finish
    <2> DEFINE new == New(NeighbourList(n, order), visited)
               Q == [i \in DOMAIN new |-> Append(h, new[i])]
               nodes2 == [i \in DOMAIN queue' |-> Last(queue'[i])]
               depths2 == [i \in DOMAIN queue' |-> Len(queue'[i]) - 1]
               S == {p \in Seq(Commits) : PathOK(p)}
    <2>2. /\ h = queue[1] /\ PathOK(h) /\ h \in Seq(Commits) /\ h # <<>> /\ nodes[1] = n /\ depths[1] = Len(h) - 1
          /\ n \in visited /\ visited \subseteq Commits /\ n \in Commits /\ depths[1] \in Nat
          /\ nodes # <<>>
        <3>1. /\ nodes \in Seq(visited) /\ visited \subseteq Commits
            BY <1>6 DEF Bfs, BfsShape
        <3>2. nodes[1] \in visited
            <4> HIDE DEF nodes
            <4> QED
                BY <1>8, <1>10, <3>1
        <3>3. depths[1] \in Nat
            BY <1>8, <1>10
        <3> QED
            BY <1>8, <1>10, <3>1, <3>2, <3>3
    <2>3. NeighbourList(n, order) \in Seq(Commits) /\ ToSet(NeighbourList(n, order)) = Neighbours(n)
        <3>1. order \in Seq(Children(n)) /\ ToSet(order) = Children(n)
            BY <1>1, ChildrenFacts, SeqOfSet
        <3>2. Children(n) \subseteq Commits /\ parents[n] \in Seq(Commits)
            BY <1>1, <2>2, ChildrenFacts, ParentsOlder
        <3>3. order \in Seq(Commits)
            BY <3>1, <3>2, SeqOver
        <3> HIDE DEF n
        <3>4. /\ parents[n] \o order \in Seq(Commits)
              /\ ToSet(parents[n] \o order) = ToSet(parents[n]) \cup ToSet(order)
            BY <3>2, <3>3, ConcatMembers, ZenonT(30)
        <3> QED
            BY <3>1, <3>4 DEF NeighbourList, Neighbours
    <2>4. new \in Seq(Commits) /\ ToSet(new) = Neighbours(n) \ visited
        <3> HIDE DEF n
        <3> QED
            BY <2>3, NewExact
    <2>5. ToSet(new) = next[n] \ visited
        BY <1>5, <2>2, <2>4
    <2> HIDE DEF new
    <2>6. queue' = Tail(queue) \o Q /\ visited' = visited \cup ToSet(new)
        BY <2>1 DEF new
    <2>7. \A i \in DOMAIN new : /\ new[i] \in Commits /\ PathOK(Append(h, new[i])) /\ Last(Append(h, new[i])) = new[i]
                                /\ Len(Append(h, new[i])) - 1 = depths[1] + 1
        <3> SUFFICES ASSUME NEW i \in DOMAIN new
                     PROVE  /\ new[i] \in Commits /\ PathOK(Append(h, new[i])) /\ Last(Append(h, new[i])) = new[i]
                            /\ Len(Append(h, new[i])) - 1 = depths[1] + 1
            OBVIOUS
        <3>1. new[i] \in Commits /\ new[i] \in Neighbours(n)
            BY <2>4 DEF ToSet
        <3> HIDE DEF h
        <3> QED
            BY <2>2, <3>1, PathStep
    <2> DEFINE LastOf == [p \in S |-> Last(p)]
               LenOf == [p \in S |-> Len(p) - 1]
    <2>8. /\ Q \in Seq(S) /\ Image(LastOf, Q) = new /\ Image(LenOf, Q) = [i \in DOMAIN new |-> depths[1] + 1]
        <3>1. \A i \in DOMAIN new : Append(h, new[i]) \in S
            BY <2>2, <2>7 DEF PathOK
        <3> HIDE DEF S, depths, h
        <3>2. DOMAIN Q = DOMAIN new /\ \A i \in DOMAIN new : Q[i] = Append(h, new[i]) /\ Q[i] \in S
            BY <3>1
        <3>3. \A i \in DOMAIN new : LastOf[Q[i]] = new[i] /\ LenOf[Q[i]] = depths[1] + 1
            BY <2>7, <3>2
        <3> HIDE DEF Q, LastOf, LenOf
        <3>4. Q \in Seq(S)
            <4>1. Len(new) \in Nat /\ DOMAIN new = 1 .. Len(new)
                BY <2>4
            <4>2. Q = [i \in 1 .. Len(new) |-> Q[i]]
                BY <4>1 DEF Q
            <4> QED
                BY <3>2, <4>1, <4>2
        <3>5. Image(LastOf, Q) = [i \in DOMAIN new |-> new[i]]
            BY <3>2, <3>3 DEF Image
        <3>6. new = [i \in DOMAIN new |-> new[i]]
            BY <2>4
        <3>7. Image(LenOf, Q) = [i \in DOMAIN new |-> depths[1] + 1]
            BY <3>2, <3>3 DEF Image
        <3> QED
            BY <3>4, <3>5, <3>6, <3>7
    <2>9. /\ LastOf \in [S -> Commits] /\ LenOf \in [S -> Nat]
          /\ \A q \in Seq(S) : /\ Image(LastOf, q) = [i \in DOMAIN q |-> Last(q[i])]
                               /\ Image(LenOf, q) = [i \in DOMAIN q |-> Len(q[i]) - 1]
        <3>1. \A p \in S : Last(p) \in Commits /\ Len(p) - 1 \in Nat
            <4> SUFFICES ASSUME NEW p \in S PROVE Last(p) \in Commits /\ Len(p) - 1 \in Nat
                OBVIOUS
            <4>1. p \in Seq(Commits) /\ p # <<>>
                BY DEF PathOK
            <4> QED
                BY <4>1 DEF Last
        <3> HIDE DEF S
        <3>2. LastOf \in [S -> Commits] /\ LenOf \in [S -> Nat]
            BY <3>1
        <3>3. ASSUME NEW q \in Seq(S)
              PROVE  /\ Image(LastOf, q) = [i \in DOMAIN q |-> Last(q[i])]
                     /\ Image(LenOf, q) = [i \in DOMAIN q |-> Len(q[i]) - 1]
            <4>1. \A i \in DOMAIN q : q[i] \in S
                OBVIOUS
            <4>2. \A i \in DOMAIN q : LastOf[q[i]] = Last(q[i]) /\ LenOf[q[i]] = Len(q[i]) - 1
                BY <4>1
            <4> HIDE DEF LastOf, LenOf
            <4> QED
                BY <4>2 DEF Image
        <3> QED
            BY <3>2, <3>3
    <2>10. queue \in Seq(S) /\ queue # <<>>
        <3>1. \A i \in DOMAIN queue : queue[i] \in S
            BY <1>6 DEF PathOK
        <3> HIDE DEF S
        <3>2. Len(queue) \in Nat /\ DOMAIN queue = 1 .. Len(queue) /\ queue = [i \in 1 .. Len(queue) |-> queue[i]]
            BY <1>6
        <3> QED
            BY <1>10, <3>1, <3>2
    <2>11. /\ queue' \in Seq(S)
           /\ nodes2 = Tail(nodes) \o new
           /\ depths2 = Tail(depths) \o [i \in DOMAIN new |-> depths[1] + 1]
        <3> HIDE DEF LastOf, LenOf, S, Q, h, n
        <3>1. queue' \in Seq(S)
            <4>1. Tail(queue) \in Seq(S)
                BY <2>10, TailPlaces
            <4> QED
                BY <2>6, <2>8, <4>1, Concat
        <3>2. nodes2 = Image(LastOf, queue') /\ depths2 = Image(LenOf, queue')
            BY <2>9, <3>1
        <3>3. nodes = Image(LastOf, queue) /\ depths = Image(LenOf, queue)
            BY <2>9, <2>10
        <3> HIDE DEF nodes, depths, nodes2, depths2
        <3>4. LastOf \in [S -> Commits] /\ LenOf \in [S -> Nat] /\ Q \in Seq(S)
            BY <2>8, <2>9
        <3>5. ImageOfTurn(LastOf, queue, Q) /\ ImageOfTurn(LenOf, queue, Q)
            BY <2>10, <3>4, ImageTurn, Zenon
        <3> QED
            BY <2>6, <2>8, <3>1, <3>2, <3>3, <3>5 DEF ImageOfTurn
    <2> HIDE DEF LastOf, LenOf, Q, h, n, nodes, depths, nodes2, depths2
    <2>12. BfsTurn(Commits, next, NoLimit, nodes, depths, visited, new, nodes2, depths2, visited')
        <3>1. depths[1] # NoLimit
            BY <2>2 DEF NoLimit
        <3> QED
            BY <2>2, <2>4, <2>5, <2>6, <2>11, <3>1 DEF BfsTurn
    <2>13. Bfs(Commits, next, a, NoLimit, nodes2, depths2, visited')
        BY <1>2, <1>5, <1>6, <2>12, BfsStep
    <2>14. ToSet(nodes) = {n} \cup ToSet(Tail(nodes)) /\ ToSet(nodes2) = ToSet(Tail(nodes)) \cup ToSet(new)
        <3>1. nodes \in Seq(Commits)
            BY <1>6, <2>2 DEF Bfs, BfsShape
        <3>2. Head(nodes) = n
            BY <2>2, <3>1
        <3>3. ToSet(nodes) = {n} \cup ToSet(Tail(nodes)) /\ Tail(nodes) \in Seq(Commits)
            BY <2>2, <3>1, <3>2, HeadAndTail
        <3>4. Tail(nodes) \in Seq(Commits) /\ new \in Seq(Commits) /\ nodes2 = Tail(nodes) \o new
            BY <2>4, <2>11, <3>3
        <3>5. ToSet(nodes2) = ToSet(Tail(nodes)) \cup ToSet(new)
            BY <3>4, ConcatMembers, ZenonT(30)
        <3> QED
            BY <3>3, <3>5
    <2>15. ASSUME NEW v \in visited' PROVE v # b \/ v \in ToSet(nodes2)
        <3>1. CASE v \in ToSet(new)
            BY <2>14, <3>1
        <3>2. CASE v \in visited
            <4>1. v # b \/ v \in ToSet(nodes)
                BY <1>6, <3>2 DEF nodes, ToSet
            <4>2. n # b
                BY <1>10 DEF n, h
            <4> QED
                BY <2>14, <4>1, <4>2
        <3> QED
            BY <2>6, <3>1, <3>2
    <2>16. ShortestPathLoop'
        <3>1. (queue \in Seq(Seq(Commits)))'
            <4>1. S \subseteq Seq(Commits)
                OBVIOUS
            <4>2. queue' \in Seq(Seq(Commits))
                <5> HIDE DEF S
                <5> QED
                    BY <2>11, <4>1
            <4> QED
                BY <1>3, <4>2
        <3>2. \A i \in DOMAIN queue' : PathOK(queue'[i])
            <4>1. \A i \in DOMAIN queue' : queue'[i] \in S
                <5> HIDE DEF S
                <5> QED
                    BY <2>11
            <4> QED
                BY <4>1
        <3>3. \A p : PathOK(p)' <=> PathOK(p)
            BY <1>1, <1>3 DEF PathOK
        <3>4. (\A i \in DOMAIN queue : PathOK(queue[i]))'
            BY <3>2, <3>3, <1>1, <1>3 DEF PathOK
        <3>5. Bfs(Commits, AtMostOneStep, call.a, NoLimit, nodes, depths, visited)'
            BY <1>1, <1>3, <2>13 DEF nodes2, depths2, nodes, depths
        <3>6. \A v \in visited' : v # b \/ \E i \in DOMAIN queue' : Last(queue'[i]) = v
            BY <2>15 DEF nodes2, ToSet
        <3> QED
            BY <1>1, <3>1, <3>4, <3>5, <3>6 DEF ShortestPathLoop, nodes, depths
    <2> QED
        BY <1>1, <1>10, <2>16
<1> QED
    BY <1>7, <1>9, <1>10 DEF ShortestPathStep

\* The steps along an edge lead from commits to commits; the bounds are numbers.
LEMMA EdgeFacts ==
    ASSUME GraphOK, NEW e \in AllEdges
    PROVE  /\ EdgeSteps(e) \in [Commits -> SUBSET Commits]
           /\ \A n \in Commits : EdgeSteps(e)[n] = IF TowardRoot(e) THEN ToSet(parents[n]) ELSE Children(n)
           /\ HopBounds(e)[1] \in Nat /\ HopBounds(e)[2] \in Nat
           /\ \A n : EdgeEnds(n, e)
                       = (UNION {Walk(EdgeSteps(e), n, d) : d \in HopBounds(e)[1] .. HopBounds(e)[2]}) \ {n}
<1>1. /\ EdgeSteps(e) \in [Commits -> SUBSET Commits]
      /\ \A n \in Commits : EdgeSteps(e)[n] = IF TowardRoot(e) THEN ToSet(parents[n]) ELSE Children(n)
    BY ParentsOlder, ChildrenFacts DEF EdgeSteps
<1>2. HopBounds(e) \in Nat \X Nat
    BY HopAssumption
<1>3. HopBounds(e)[1] \in Nat /\ HopBounds(e)[2] \in Nat
    BY <1>2
<1>4. ASSUME NEW n
      PROVE  EdgeEnds(n, e) = (UNION {Walk(EdgeSteps(e), n, d) : d \in HopBounds(e)[1] .. HopBounds(e)[2]}) \ {n}
    <2>1. \A d : (IF TowardRoot(e) THEN Up(n, d) ELSE Down(n, d)) = Walk(EdgeSteps(e), n, d)
        BY DEF Up, Down, EdgeSteps
    <2> QED
        BY <2>1 DEF EdgeEnds
<1> QED
    BY <1>1, <1>3, <1>4

\* expand_edge keeps its invariant and returns the ends of the edge.
LEMMA ExpandEdgeOK ==
    ASSUME DagInv, ExpandEdgeStep
    PROVE  DagInv'
<1>1. /\ GraphOK /\ CallOK /\ GraphOK' /\ CallOK' /\ LoopInv
      /\ result = Running /\ call.alg = "expand_edge" /\ call' = call
      /\ parents' = parents /\ tips' = tips
    BY TurnOK DEF ExpandEdgeStep
<1> DEFINE a == call.a
           edge == call.edge
           hops == call.hops
           next == EdgeSteps(edge)
           lo == HopBounds(edge)[1]
           ends == EdgeEnds(a, edge)
           Left(p, q, vs, f) == \/ p \in q
                                \/ /\ p[2] < hops => \A m \in next[p[1]] : <<m, p[2] + 1>> \in vs
                                   /\ lo =< p[2] /\ p[1] # a => p[1] \in f
<1>2. ExpandEdgeLoop /\ a \in Commits /\ edge \in AllEdges /\ hops = HopBounds(edge)[2]
    BY <1>1 DEF LoopInv, CallOK
<1>3. Commits' = Commits /\ next' = next /\ ends' = ends /\ a' = a /\ edge' = edge /\ lo' = lo /\ hops' = hops
    BY <1>1, SameGraph DEF EdgeSteps
<1>4. SUFFICES /\ result' = Running => ExpandEdgeLoop'
               /\ result' # Running => result'[2] = ends
    <2>1. result' = Running => LoopInv'
        BY <1>1, <1>4 DEF LoopInv
    <2>2. EdgeEndsAreExact'
        BY <1>1, <1>3, <1>4 DEF EdgeEndsAreExact, Returns, Value
    <2>3. ResultInv'
        BY <1>1, <2>2 DEF ResultInv, MergeBaseIsCommon, AncestorWalksAreExact, ShortestPathIsShortest,
                          MatchIsExact, Returns
    <2> QED
        BY <1>1, <2>1, <2>3 DEF DagInv
<1>5. /\ next \in [Commits -> SUBSET Commits] /\ lo \in Nat /\ hops \in Nat
      /\ (\A n \in Commits : next[n] = IF TowardRoot(edge) THEN ToSet(parents[n]) ELSE Children(n))
      /\ ends = (UNION {Walk(next, a, d) : d \in lo..hops}) \ {a}
    BY <1>1, <1>2, EdgeFacts
<1>6. /\ visited \subseteq Commits \X (0 .. hops) /\ queue \in Seq(visited)
      /\ <<a, 0>> \in visited /\ found \subseteq ends
      /\ \A p \in visited : p[1] \in Walk(next, a, p[2]) /\ Left(p, ToSet(queue), visited, found)
    BY <1>2 DEF ExpandEdgeLoop
<1>7. /\ Walk(next, a, 0) = {a}
      /\ \A k \in Nat : Walk(next, a, k + 1) = UNION {next[m] : m \in Walk(next, a, k)}
      /\ \A k \in Nat : Walk(next, a, k) \subseteq Commits
    BY <1>2, <1>5, WalkSteps
<1> HIDE DEF next, ends, lo
<1>8. CASE queue = <<>> /\ Finish(found)
    <2>1. result' # Running /\ result'[2] = found
        BY <1>8, DoneIsNotRunning DEF Finish
    <2>2. ToSet(queue) = {}
        BY <1>8 DEF ToSet
    <2> DEFINE T == {d \in Nat : d =< hops => \A m \in Walk(next, a, d) : <<m, d>> \in visited}
    <2>3. 0 \in T
        BY <1>6, <1>7
    <2>4. ASSUME NEW d \in Nat, d \in T PROVE d + 1 \in T
        <3> SUFFICES ASSUME d + 1 =< hops, NEW m \in Walk(next, a, d + 1) PROVE <<m, d + 1>> \in visited
            OBVIOUS
        <3>1. d =< hops /\ d < hops
            BY <1>5
        <3>2. PICK u \in Walk(next, a, d) : m \in next[u]
            BY <1>7
        <3>3. <<u, d>> \in visited
            BY <2>4, <3>1, <3>2
        <3>4. Left(<<u, d>>, ToSet(queue), visited, found)
            BY <1>6, <3>3
        <3> QED
            BY <2>2, <3>1, <3>2, <3>4
    <2>5. Nat \subseteq T
        <3> HIDE DEF T
        <3> QED
            BY <2>3, <2>4, Induction
    <2>6. ASSUME NEW m \in ends PROVE m \in found
        <3>1. PICK d \in lo..hops : m \in Walk(next, a, d)
            BY <1>5, <2>6
        <3>a. m # a
            BY <1>5, <2>6
        <3>2. m # a /\ d \in Nat /\ d =< hops /\ lo =< d
            <4>1. lo \in Nat /\ hops \in Nat
                BY <1>5
            <4> HIDE DEF hops, a
            <4> QED
                BY <3>a, <4>1
        <3>3. <<m, d>> \in visited
            BY <2>5, <3>1, <3>2
        <3>4. Left(<<m, d>>, ToSet(queue), visited, found)
            BY <1>6, <3>3
        <3> QED
            BY <2>2, <3>2, <3>4
    <2> QED
        BY <1>6, <2>1, <2>6
<1>9. CASE queue # <<>> /\ UNCHANGED result
    <2> DEFINE h == Head(queue)
               n == h[1]
               depth == h[2]
               nexts == IF ~GoesDeeper(depth) THEN {}
                        ELSE IF TowardRoot(edge) THEN ToSet(parents[n]) ELSE Children(n)
               new == Unseen(nexts, depth + 1)
               P == {<<m, depth + 1>> : m \in new}
    <2>1. /\ found' = IF lo =< depth /\ depth =< hops /\ n # a THEN found \cup {n} ELSE found
          /\ queue' = Tail(queue) \o SetToSeq(P)
          /\ visited' = visited \cup P
        BY <1>9 DEF ExpandEdgeStep, Finish, lo
    <2>2. /\ h \in visited /\ Tail(queue) \in Seq(visited) /\ ToSet(queue) = {h} \cup ToSet(Tail(queue))
        BY <1>6, <1>9, HeadAndTail
    <2>3. /\ h = <<n, depth>> /\ n \in Commits /\ depth \in Nat /\ depth =< hops
          /\ n \in Walk(next, a, depth)
        BY <1>5, <1>6, <2>2
    <2>4. /\ depth < hops => nexts = next[n]
          /\ ~(depth < hops) => nexts = {}
        BY <1>5, <2>3 DEF GoesDeeper
    <2> HIDE DEF nexts
    <2>5. /\ new \subseteq nexts /\ nexts \subseteq Commits
          /\ \A m \in nexts : m \in new \/ <<m, depth + 1>> \in visited
        BY <1>5, <2>3, <2>4 DEF Unseen
    <2> HIDE DEF new, n, depth, h
    <2>6. ASSUME NEW p \in P
          PROVE  /\ p \in Commits \X (0 .. hops) /\ p[1] \in Walk(next, a, p[2])
        <3>1. PICK m \in new : p = <<m, depth + 1>>
            OBVIOUS
        <3>2. m \in nexts /\ m \in Commits
            BY <2>5
        <3>3. depth < hops /\ m \in next[n]
            BY <2>4, <3>2
        <3>4. depth + 1 \in 0..hops
            BY <1>5, <2>3, <3>3
        <3>5. m \in Walk(next, a, depth + 1)
            BY <1>7, <2>3, <3>3
        <3> QED
            BY <3>1, <3>2, <3>4, <3>5
    <2>7. IsFiniteSet(P)
        <3>1. IsFiniteSet(Commits) /\ IsFiniteSet(0..hops)
            <4>1. 0 \in Int /\ hops \in Int
                BY <1>5
            <4>2. IsFiniteSet(0..hops)
                <5> HIDE DEF hops
                <5> QED
                    BY <4>1, FS_Interval
            <4> QED
                BY <1>1, <4>2, ParentsOlder
        <3>2. IsFiniteSet(Commits \X (0..hops))
            BY <3>1, FS_Product
        <3>3. P \subseteq Commits \X (0..hops)
            BY <2>6
        <3> HIDE DEF P
        <3> QED
            BY <3>2, <3>3, FS_Subset
    <2>8. SetToSeq(P) \in Seq(P) /\ ToSet(SetToSeq(P)) = P
        <3> HIDE DEF P
        <3> QED
            BY <2>7, SetToSeqExact
    <2>9. visited' \subseteq Commits \X (0 .. hops) /\ <<a, 0>> \in visited'
        BY <1>6, <2>1, <2>6
    <2>a. \A m \in nexts : <<m, depth + 1>> \in visited'
        BY <2>1, <2>5
    <2>b. \A p \in P : p[1] \in Walk(next, a, p[2])
        BY <2>6
    <2> HIDE DEF P
    <2>10. queue' \in Seq(visited') /\ ToSet(queue') = ToSet(Tail(queue)) \cup P
        <3>1. Tail(queue) \in Seq(visited') /\ SetToSeq(P) \in Seq(visited')
            BY <2>1, <2>2, <2>8
        <3>2. /\ Tail(queue) \o SetToSeq(P) \in Seq(visited')
              /\ ToSet(Tail(queue) \o SetToSeq(P)) = ToSet(Tail(queue)) \cup ToSet(SetToSeq(P))
            BY <3>1, ConcatMembers, ZenonT(30)
        <3> QED
            BY <2>1, <2>8, <3>2
    <2>11. found' \subseteq ends
        <3>1. CASE lo =< depth /\ depth =< hops /\ n # a
            <4>1. depth \in lo..hops
                BY <1>5, <2>3, <3>1
            <4>2. n \in UNION {Walk(next, a, d) : d \in lo..hops}
                BY <2>3, <4>1
            <4>3. n \in ends
                BY <1>5, <3>1, <4>2
            <4> QED
                BY <1>6, <2>1, <3>1, <4>3
        <3> QED
            BY <1>6, <2>1, <3>1
    <2>12. ASSUME NEW p \in visited'
           PROVE  p[1] \in Walk(next, a, p[2]) /\ Left(p, ToSet(queue'), visited', found')
        <3>1. CASE p \in P
            BY <2>10, <2>b, <3>1
        <3>2. CASE p \in visited /\ p # h
            <4>1. Left(p, ToSet(queue), visited, found) /\ p[1] \in Walk(next, a, p[2])
                BY <1>6, <3>2
            <4>2. visited \subseteq visited' /\ found \subseteq found' /\ (p \in ToSet(queue) => p \in ToSet(queue'))
                BY <2>1, <2>2, <2>10, <3>2
            <4> QED
                BY <4>1, <4>2
        <3>3. CASE p = h
            <4>1. p[1] = n /\ p[2] = depth
                BY <2>3, <3>3
            <4>2. depth < hops => \A m \in next[n] : <<m, depth + 1>> \in visited'
                BY <2>4, <2>a
            <4>3. lo =< depth /\ n # a => n \in found'
                BY <2>1, <2>3
            <4> QED
                BY <2>3, <4>1, <4>2, <4>3
        <3> QED
            BY <2>1, <3>1, <3>2, <3>3
    <2>13. ExpandEdgeLoop'
        <3>1. /\ (visited \subseteq Commits \X (0 .. call.hops))' /\ (queue \in Seq(visited))'
              /\ (<<call.a, 0>> \in visited)'
            BY <1>3, <2>9, <2>10
        <3>2. (found \subseteq EdgeEnds(call.a, call.edge))'
            BY <1>3, <2>11 DEF ends
        <3>3. (\A p \in visited :
                /\ p[1] \in Walk(next, call.a, p[2])
                /\ Left(p, ToSet(queue), visited, found))'
            BY <1>3, <2>12
        <3> QED
            BY <3>1, <3>2, <3>3 DEF ExpandEdgeLoop, next, lo
    <2> QED
        BY <1>1, <1>9, <2>13
<1> QED
    BY <1>8, <1>9 DEF ExpandEdgeStep

\* An edge does not lead out of the commits that MATCH considers.
LEMMA UniverseClosed ==
    ASSUME GraphOK, NEW a \in Commits, NEW e \in AllEdges, NEW n \in Universe(a)
    PROVE  n \in Commits /\ EdgeEnds(n, e) \subseteq Universe(a)
<1> DEFINE U == Universe(a)
           next == EdgeSteps(e)
           T == {d \in Nat : Walk(next, n, d) \subseteq U}
<1>1. U \subseteq Commits /\ Reachable \subseteq U
    BY AncestorsClosed, ChildrenFacts DEF Universe
<1>2. ASSUME NEW m \in U PROVE next[m] \subseteq U
    <2>1. ToSet(parents[m]) \subseteq U
        <3>1. CASE m \in Ancestors(a)
            BY <3>1, AncestorsClosed DEF Universe
        <3>2. CASE m \in Reachable
            <4>1. PICK t \in tips : m \in Ancestors(t)
                BY <3>2 DEF Reachable
            <4>2. t \in Commits
                BY DEF GraphOK
            <4>3. ToSet(parents[m]) \subseteq Ancestors(t)
                BY <4>1, <4>2, AncestorsClosed
            <4> QED
                BY <1>1, <4>3 DEF Reachable
        <3> QED
            BY <3>1, <3>2 DEF Universe
    <2>2. Children(m) \subseteq U
        BY <1>1, ChildrenFacts
    <2> QED
        BY <1>1, <2>1, <2>2, EdgeFacts
<1>3. n \in Commits
    BY <1>1
<1>4. /\ Walk(next, n, 0) = {n}
      /\ \A k \in Nat : Walk(next, n, k + 1) = UNION {next[m] : m \in Walk(next, n, k)}
    BY <1>3, EdgeFacts, WalkSteps
<1> HIDE DEF U, next
<1>5. 0 \in T
    BY <1>4 DEF U
<1>6. ASSUME NEW d \in Nat, d \in T PROVE d + 1 \in T
    BY <1>2, <1>4, <1>6
<1>7. Nat \subseteq T
    <2> HIDE DEF T
    <2> QED
        BY <1>5, <1>6, Induction
<1>8. \A d \in HopBounds(e)[1] .. HopBounds(e)[2] : d \in Nat
    BY EdgeFacts
<1>9. EdgeEnds(n, e) \subseteq U
    BY <1>7, <1>8, EdgeFacts DEF next
<1> QED
    BY <1>3, <1>9 DEF U

\* The fields of a pattern.
LEMMA PatternFacts ==
    ASSUME NEW p \in Patterns
    PROVE  /\ p.vars \in Seq(STRING) /\ p.wants \in Seq(SUBSET Nat) /\ p.edges \in Seq(AllEdges)
           /\ Len(p.edges) \in Nat /\ Len(p.vars) = Len(p.edges) + 1 /\ Len(p.wants) = Len(p.vars)
           /\ DOMAIN p.edges = 1 .. Len(p.edges) /\ DOMAIN p.vars = 1 .. Len(p.edges) + 1
           /\ \A i \in 1 .. Len(p.edges) : p.edges[i] \in AllEdges
<1>1. /\ p.vars \in Seq(STRING) /\ p.wants \in Seq(SUBSET Nat) /\ p.edges \in Seq(AllEdges)
      /\ Len(p.vars) = Len(p.edges) + 1 /\ Len(p.wants) = Len(p.vars)
    BY DagAssumption
<1>2. Len(p.edges) \in Nat /\ DOMAIN p.edges = 1 .. Len(p.edges) /\ DOMAIN p.vars = 1 .. Len(p.vars)
      /\ \A i \in 1 .. Len(p.edges) : p.edges[i] \in AllEdges
    BY <1>1
<1> QED
    BY <1>1, <1>2

\* The ends of edge i of a pattern that an assignment to the variables before
\* allows.
EndsOf(p, i, b) ==
    {n \in EdgeEnds(b[p.vars[i]], p.edges[i]) \cap p.wants[i + 1] : Agrees(b, p.vars[i + 1], n)}

\* The assignments to one more variable extend those to the ones before.
LEMMA BindingsStep ==
    ASSUME GraphOK, call.a \in Commits, NEW p \in Patterns, NEW i \in 1 .. Len(p.edges)
    PROVE  Bindings(p, i + 1)
             = UNION {{Bind(b, p.vars[i + 1], n) : n \in EndsOf(p, i, b)} : b \in Bindings(p, i)}
<1> DEFINE U == Universe(call.a)
           x == p.vars
           w == p.wants
           e == p.edges
           V(k) == {x[j] : j \in 1..k}
           dst == x[i + 1]
           All == UNION {{Bind(b, dst, n) : n \in EndsOf(p, i, b)} : b \in Bindings(p, i)}
<1>1. i \in Nat /\ i >= 1 /\ i + 1 \in Nat /\ (i + 1) - 1 = i /\ e[i] \in AllEdges
    BY PatternFacts
<1>2. /\ 1 .. i + 1 = 1..i \cup {i + 1} /\ 1..i = (1 .. i - 1) \cup {i} /\ i \in 1..i
      /\ \A j \in 1 .. i - 1 : j \in 1..i /\ j + 1 \in 1..i
    BY <1>1
<1>3. V(i + 1) = V(i) \cup {dst} /\ x[i] \in V(i) /\ \A j \in 1..i : x[j] \in V(i)
    BY <1>2
<1>4. \A k, f : f \in Bindings(p, k) <=>
                    /\ f \in [V(k) -> U]
                    /\ \A j \in 1..k : f[x[j]] \in w[j]
                    /\ \A j \in 1 .. k - 1 : f[x[j + 1]] \in EdgeEnds(f[x[j]], e[j])
    BY DEF Bindings
<1>5. \A m \in U : EdgeEnds(m, e[i]) \subseteq U
    BY <1>1, UniverseClosed
<1> HIDE DEF U, x, w, e, V, dst
<1>6. ASSUME NEW f \in Bindings(p, i + 1) PROVE f \in All
    <2> DEFINE b == [v \in V(i) |-> f[v]]
               n == f[dst]
    <2>1. /\ f \in [V(i) \cup {dst} -> U]
          /\ \A j \in 1 .. i + 1 : f[x[j]] \in w[j]
          /\ \A j \in 1..i : f[x[j + 1]] \in EdgeEnds(f[x[j]], e[j])
        BY <1>1, <1>3, <1>4
    <2>2. \A j \in 1..i : b[x[j]] = f[x[j]]
        BY <1>3
    <2>3. b \in Bindings(p, i)
        <3>1. b \in [V(i) -> U]
            BY <2>1
        <3>2. \A j \in 1..i : b[x[j]] \in w[j]
            BY <1>2, <2>1, <2>2
        <3>3. \A j \in 1 .. i - 1 : b[x[j + 1]] \in EdgeEnds(b[x[j]], e[j])
            BY <1>2, <2>1, <2>2
        <3> HIDE DEF b
        <3> QED
            BY <1>4, <3>1, <3>2, <3>3
    <2>4. n \in EndsOf(p, i, b)
        <3>1. n \in EdgeEnds(b[x[i]], e[i]) /\ n \in w[i + 1]
            BY <1>1, <1>2, <2>1, <2>2 DEF dst
        <3>2. Agrees(b, dst, n)
            BY DEF Agrees
        <3> QED
            BY <3>1, <3>2 DEF EndsOf, x, e, w, dst
    <2>5. Bind(b, dst, n) = f
        <3>1. DOMAIN b \cup {dst} = V(i) \cup {dst}
            OBVIOUS
        <3>2. \A v \in V(i) \cup {dst} : (IF v = dst THEN n ELSE b[v]) = f[v]
            OBVIOUS
        <3>3. f = [v \in V(i) \cup {dst} |-> f[v]]
            BY <2>1
        <3> HIDE DEF b, n
        <3> QED
            BY <3>1, <3>2, <3>3 DEF Bind
    <2> HIDE DEF b, n
    <2> QED
        BY <2>3, <2>4, <2>5
<1>7. ASSUME NEW b \in Bindings(p, i), NEW n \in EndsOf(p, i, b)
      PROVE  Bind(b, dst, n) \in Bindings(p, i + 1)
    <2> DEFINE f == Bind(b, dst, n)
    <2>1. /\ b \in [V(i) -> U]
          /\ \A j \in 1..i : b[x[j]] \in w[j]
          /\ \A j \in 1 .. i - 1 : b[x[j + 1]] \in EdgeEnds(b[x[j]], e[j])
        BY <1>4
    <2>2. n \in EdgeEnds(b[x[i]], e[i]) /\ n \in w[i + 1] /\ Agrees(b, dst, n)
        BY DEF EndsOf, x, e, w, dst
    <2>3. n \in U
        BY <1>3, <1>5, <2>1, <2>2
    <2>4. f = [v \in V(i) \cup {dst} |-> IF v = dst THEN n ELSE b[v]]
        BY <2>1 DEF Bind
    <2> HIDE DEF f
    <2>5. f \in [V(i + 1) -> U]
        BY <1>3, <2>1, <2>3, <2>4
    <2>6. f[dst] = n /\ \A v \in V(i) : f[v] = b[v]
        BY <2>1, <2>2, <2>4 DEF Agrees
    <2>7. \A j \in 1..i : f[x[j]] = b[x[j]]
        BY <1>3, <2>6
    <2>8. \A j \in 1 .. i + 1 : f[x[j]] \in w[j]
        <3> SUFFICES ASSUME NEW j \in 1 .. i + 1 PROVE f[x[j]] \in w[j]
            OBVIOUS
        <3>1. CASE j = i + 1
            BY <2>2, <2>6, <3>1 DEF dst
        <3>2. CASE j \in 1..i
            BY <2>1, <2>7, <3>2
        <3> QED
            BY <1>2, <3>1, <3>2
    <2>9. \A j \in 1..i : f[x[j + 1]] \in EdgeEnds(f[x[j]], e[j])
        <3> SUFFICES ASSUME NEW j \in 1..i PROVE f[x[j + 1]] \in EdgeEnds(f[x[j]], e[j])
            OBVIOUS
        <3>1. CASE j = i
            BY <1>2, <2>2, <2>6, <2>7, <3>1 DEF dst
        <3>2. CASE j \in 1 .. i - 1
            BY <1>2, <2>1, <2>7, <3>2
        <3> QED
            BY <1>2, <3>1, <3>2
    <2>10. f \in Bindings(p, i + 1)
        BY <1>1, <1>4, <2>5, <2>8, <2>9
    <2> QED
        BY <2>10 DEF f
<1>8. ASSUME NEW f \in All PROVE f \in Bindings(p, i + 1)
    <2>1. PICK b \in Bindings(p, i) : \E n \in EndsOf(p, i, b) : f = Bind(b, dst, n)
        OBVIOUS
    <2> QED
        BY <1>7, <2>1
<1>9. Bindings(p, i + 1) = All
    <2> HIDE DEF All
    <2> QED
        BY <1>6, <1>8
<1> QED
    BY <1>9 DEF dst, x

\* match_pattern keeps its invariant and returns the assignments that hold.
LEMMA MatchOK ==
    ASSUME DagInv, MatchStep
    PROVE  DagInv'
<1>1. /\ GraphOK /\ CallOK /\ GraphOK' /\ CallOK' /\ LoopInv
      /\ result = Running /\ call.alg = "match" /\ call' = call
      /\ parents' = parents /\ tips' = tips
    BY TurnOK DEF MatchStep
<1> DEFINE a == call.a
           p == call.pattern
           done == Len(p.edges) - Len(queue)
           Right(v) == v = {f \in [ToSet(p.vars) -> Universe(a)] :
                        /\ \A i \in DOMAIN p.vars : f[p.vars[i]] \in p.wants[i]
                        /\ \A i \in DOMAIN p.edges : f[p.vars[i + 1]] \in EdgeEnds(f[p.vars[i]], p.edges[i])}
<1>2. MatchLoop /\ a \in Commits /\ p \in Patterns
    BY <1>1 DEF LoopInv, CallOK
<1>3. /\ (\A n : Universe(n)' = Universe(n)) /\ (\A n, e : EdgeEnds(n, e)' = EdgeEnds(n, e))
      /\ a' = a /\ p' = p
    BY <1>1, SameGraph
<1>4. SUFFICES /\ result' = Running => MatchLoop'
               /\ result' # Running => Right(result'[2])
    <2>1. result' = Running => LoopInv'
        BY <1>1, <1>4 DEF LoopInv
    <2>2. MatchIsExact'
        BY <1>1, <1>3, <1>4 DEF MatchIsExact, Returns, Value
    <2>3. ResultInv'
        BY <1>1, <2>2 DEF ResultInv, MergeBaseIsCommon, AncestorWalksAreExact, ShortestPathIsShortest,
                          EdgeEndsAreExact, Returns
    <2> QED
        BY <1>1, <2>1, <2>3 DEF DagInv
<1>5. /\ queue \in Seq(Nat) /\ done \in Nat
      /\ \A i \in DOMAIN queue : queue[i] = done + i
      /\ found = Bindings(p, done + 1)
    BY <1>2 DEF MatchLoop
<1>6. /\ Len(p.edges) \in Nat /\ DOMAIN p.edges = 1 .. Len(p.edges)
      /\ DOMAIN p.vars = 1 .. Len(p.edges) + 1
    BY <1>2, PatternFacts
<1>7. CASE queue = <<>> /\ result' = Done(found)
    <2>1. result' # Running /\ result'[2] = found
        BY <1>7, DoneIsNotRunning
    <2>2. done = Len(p.edges)
        BY <1>6, <1>7
    <2>3. ToSet(p.vars) = {p.vars[i] : i \in 1 .. Len(p.edges) + 1}
        BY <1>6 DEF ToSet
    <2>4. (Len(p.edges) + 1) - 1 = Len(p.edges)
        BY <1>6
    <2>5. found = Bindings(p, Len(p.edges) + 1)
        BY <1>5, <2>2
    <2>6. Right(found)
        <3> HIDE DEF p, a
        <3> QED
            BY <1>6, <2>3, <2>4, <2>5 DEF Bindings, a
    <2> QED
        BY <2>1, <2>6
<1>8. CASE queue # <<>> /\ UNCHANGED result
    <2> DEFINE i == Head(queue)
    <2>1. /\ queue' = Tail(queue)
          /\ found' = UNION {{Bind(b, p.vars[i + 1], n) : n \in EndsOf(p, i, b)} : b \in found}
        BY <1>8 DEF MatchStep, Pop, EndsOf
    <2>2. i = done + 1 /\ i \in 1 .. Len(p.edges)
        <3>1. 1 \in DOMAIN queue /\ i = queue[1] /\ Len(queue) >= 1 /\ Len(queue) \in Nat
            BY <1>5, <1>8
        <3>2. queue[1] = done + 1
            BY <1>5, <3>1
        <3> HIDE DEF i, p
        <3> QED
            BY <1>5, <1>6, <3>1, <3>2
    <2>3. Bindings(p, i + 1)
             = UNION {{Bind(b, p.vars[i + 1], n) : n \in EndsOf(p, i, b)} : b \in Bindings(p, i)}
        <3> HIDE DEF i, p, a
        <3> QED
            BY <1>1, <1>2, <2>2, BindingsStep DEF a
    <2>4. found' = Bindings(p, i + 1)
        <3>1. found = Bindings(p, i)
            BY <1>5, <2>2
        <3> HIDE DEF i, p
        <3> QED
            BY <2>1, <2>3, <3>1
    <2>5. /\ queue' \in Seq(Nat) /\ Len(queue') = Len(queue) - 1 /\ Len(queue) \in Nat
          /\ \A j \in 1 .. Len(queue) - 1 : queue'[j] = queue[j + 1]
          /\ DOMAIN queue' = 1 .. Len(queue) - 1 /\ DOMAIN queue = 1 .. Len(queue)
        <3>1. queue \in Seq(Nat) /\ queue # <<>>
            BY <1>5, <1>8
        <3>2. /\ Tail(queue) \in Seq(Nat) /\ Len(Tail(queue)) = Len(queue) - 1 /\ Len(queue) \in Nat
              /\ \A j \in 1 .. Len(queue) - 1 : Tail(queue)[j] = queue[j + 1]
            BY <3>1, TailPlaces
        <3> QED
            BY <2>1, <3>1, <3>2
    <2>6. Len(p.edges) - Len(queue') = done + 1
        <3> HIDE DEF p
        <3> QED
            BY <1>6, <2>5
    <2>7. ASSUME NEW j \in DOMAIN queue' PROVE queue'[j] = (done + 1) + j
        <3>1. j \in 1 .. Len(queue) - 1 /\ j + 1 \in DOMAIN queue /\ j \in Nat
            BY <2>5
        <3>2. queue'[j] = done + (j + 1)
            BY <1>5, <2>5, <3>1
        <3> HIDE DEF done
        <3> QED
            BY <1>5, <3>1, <3>2
    <2>8. \A k : Bindings(p, k)' = Bindings(p, k)
        BY <1>1, <1>3 DEF Bindings
    <2>9. MatchLoop'
        <3>1. done' = done + 1 /\ done' \in Nat
            BY <1>1, <1>5, <2>6
        <3>2. found' = Bindings(p, done' + 1)
            BY <2>2, <2>4, <3>1
        <3>3. (found = Bindings(p, done + 1))'
            <4> HIDE DEF done, p
            <4>1. p' = p /\ call.a' = call.a
                BY <1>1 DEF p
            <4> QED
                BY <1>3, <3>2, <4>1 DEF Bindings
        <3>4. (\A j \in DOMAIN queue : queue[j] = done + j)'
            BY <2>7, <3>1
        <3> HIDE DEF done
        <3> QED
            BY <2>5, <3>1, <3>3, <3>4 DEF MatchLoop, done
    <2> QED
        BY <1>1, <1>8, <2>9
<1> QED
    BY <1>7, <1>8 DEF MatchStep

-----------------------------------------------------------------------------
(* The theorems *)

\* Before the first edge the assignments give the first variable each commit
\* that has the properties of the first node.
LEMMA FirstBindings ==
    ASSUME NEW p \in Patterns
    PROVE  Bindings(p, 1) = {[v \in {p.vars[1]} |-> n] : n \in Universe(call.a) \cap p.wants[1]}
<1> DEFINE x == p.vars[1]
           U == Universe(call.a)
<1>1. {p.vars[i] : i \in 1..1} = {x} /\ (1 .. 1 - 1) = {} /\ \A i \in 1..1 : i = 1
    OBVIOUS
<1>2. Bindings(p, 1) = {f \in [{x} -> U] : f[x] \in p.wants[1]}
    <2> HIDE DEF x
    <2>1. ASSUME NEW f PROVE (\A i \in 1..1 : f[p.vars[i]] \in p.wants[i]) <=> f[x] \in p.wants[1]
        BY DEF x
    <2> QED
        BY <1>1, <2>1 DEF Bindings
<1> HIDE DEF x, U
<1>3. ASSUME NEW f \in [{x} -> U], f[x] \in p.wants[1]
      PROVE  f \in {[v \in {x} |-> n] : n \in U \cap p.wants[1]}
    <2>1. f[x] \in U \cap p.wants[1] /\ f = [v \in {x} |-> f[x]]
        BY <1>3
    <2> QED
        BY <2>1
<1>4. ASSUME NEW n \in U \cap p.wants[1]
      PROVE  [v \in {x} |-> n] \in [{x} -> U] /\ [v \in {x} |-> n][x] \in p.wants[1]
    OBVIOUS
<1>5. Bindings(p, 1) = {[v \in {x} |-> n] : n \in U \cap p.wants[1]}
    BY <1>2, <1>3, <1>4
<1> QED
    BY <1>5 DEF x, U

\* The invariant holds when a walk starts.
LEMMA InitOK == Init => DagInv
<1> SUFFICES ASSUME Init PROVE DagInv
    OBVIOUS
<1>1. GraphOK /\ result = Running
    <2>1. parents \in Seq(Seq(Nat)) /\ tips \subseteq Commits /\ result = Running
        BY DagAssumption DEF Init
    <2>2. \A n \in Commits : \A i \in DOMAIN parents[n] : parents[n][i] \in 1 .. n - 1
        BY DagAssumption DEF Init, Commits
    <2> QED
        BY <2>1, <2>2 DEF GraphOK
<1>2. ResultInv
    BY <1>1 DEF ResultInv, MergeBaseIsCommon, AncestorWalksAreExact, ShortestPathIsShortest,
                EdgeEndsAreExact, MatchIsExact, Returns
<1>3. SUFFICES CallOK /\ LoopInv
    BY <1>1, <1>2 DEF DagInv
<1>4. PICK a \in Commits :
        \/ Start(Call("collect", a, a, 0, NoEdge, NoPattern), <<a>>, {}, <<>>)
        \/ \E b \in Commits :
            \/ Start(Call("merge_base", a, b, 0, NoEdge, NoPattern), <<b>>, {b}, <<>>)
            \/ Start(Call("shortest_path", a, b, 0, NoEdge, NoPattern), <<<<a>>>>, {a}, <<>>)
        \/ \E d \in Depths :
            Start(Call("within_depth", a, a, d, NoEdge, NoPattern), <<<<a, 0>>>>, {a}, <<>>)
        \/ \E e \in Edges :
            Start(Call("expand_edge", a, a, HopBounds(e)[2], e, NoPattern),
                  <<<<a, 0>>>>, {<<a, 0>>}, {})
        \/ \E p \in Patterns :
            Start(Call("match", a, a, 0, NoEdge, p), [i \in DOMAIN p.edges |-> i], {},
                  {[v \in {p.vars[1]} |-> n] : n \in Universe(a) \cap p.wants[1]})
    BY DEF Init
<1>5. ASSUME Start(Call("collect", a, a, 0, NoEdge, NoPattern), <<a>>, {}, <<>>)
      PROVE  CallOK /\ LoopInv
    <2>1. call.alg = "collect" /\ call.a = a /\ call.b = a /\ queue = <<a>> /\ visited = {}
        BY <1>5 DEF Start, Call
    <2>2. a \in Ancestors(a)
        BY <1>1, AncestorsClosed
    <2>3. queue \in Seq(Ancestors(a)) /\ a \in ToSet(queue)
        BY <2>1, <2>2 DEF ToSet
    <2>4. CollectLoop
        BY <2>1, <2>3 DEF CollectLoop
    <2> QED
        BY <2>1, <2>4 DEF CallOK, LoopInv
<1>6. ASSUME NEW b \in Commits, Start(Call("merge_base", a, b, 0, NoEdge, NoPattern), <<b>>, {b}, <<>>)
      PROVE  CallOK /\ LoopInv
    <2>1. call.alg = "merge_base" /\ call.a = a /\ call.b = b /\ queue = <<b>> /\ visited = {b}
        BY <1>6 DEF Start, Call
    <2>2. ParentsOf \in [Commits -> SUBSET Commits] /\ NoLimit \in Nat \cup {NoLimit}
        BY <1>1, ParentsOlder
    <2>3. Bfs(Commits, ParentsOf, b, NoLimit, queue, <<0>>, {b})
        BY <2>1, <2>2, BfsStart
    <2>4. b \in ToSet(queue)
        BY <2>1 DEF ToSet
    <2>5. MergeBaseLoop
        BY <2>1, <2>3, <2>4 DEF MergeBaseLoop
    <2> QED
        BY <2>1, <2>5 DEF CallOK, LoopInv
<1>7. ASSUME NEW b \in Commits, Start(Call("shortest_path", a, b, 0, NoEdge, NoPattern), <<<<a>>>>, {a}, <<>>)
      PROVE  CallOK /\ LoopInv
    <2> DEFINE nodes == [i \in DOMAIN queue |-> Last(queue[i])]
               depths == [i \in DOMAIN queue |-> Len(queue[i]) - 1]
    <2>1. call.alg = "shortest_path" /\ call.a = a /\ call.b = b /\ queue = <<<<a>>>> /\ visited = {a}
        BY <1>7 DEF Start, Call
    <2>2. AtMostOneStep \in [Commits -> SUBSET Commits] /\ NoLimit \in Nat \cup {NoLimit}
        BY <1>1, ChildrenFacts
    <2>3. DOMAIN queue = {1} /\ queue[1] = <<a>> /\ Len(queue) = 1 /\ queue \in Seq(Seq(Commits))
        BY <2>1
    <2>4. Last(<<a>>) = a /\ Len(<<a>>) - 1 = 0
        BY DEF Last
    <2>5. nodes = <<a>> /\ depths = <<0>>
        <3>1. \A i \in DOMAIN queue : Last(queue[i]) = a /\ Len(queue[i]) - 1 = 0
            BY <2>3, <2>4
        <3>2. nodes = [i \in {1} |-> a] /\ depths = [i \in {1} |-> 0]
            BY <2>3, <3>1
        <3> HIDE DEF nodes, depths
        <3> QED
            BY <3>2
    <2>6. Bfs(Commits, AtMostOneStep, a, NoLimit, nodes, depths, {a})
        <3> HIDE DEF nodes, depths
        <3> QED
            BY <2>2, <2>5, BfsStart
    <2>7. PathOK(queue[1])
        BY <2>1, <2>3 DEF PathOK
    <2>8. ShortestPathLoop
        BY <2>1, <2>3, <2>4, <2>6, <2>7 DEF ShortestPathLoop
    <2> QED
        BY <2>1, <2>8 DEF CallOK, LoopInv
<1>8. ASSUME NEW d \in Depths, Start(Call("within_depth", a, a, d, NoEdge, NoPattern), <<<<a, 0>>>>, {a}, <<>>)
      PROVE  CallOK /\ LoopInv
    <2> DEFINE nodes == [i \in DOMAIN queue |-> queue[i][1]]
               depths == [i \in DOMAIN queue |-> queue[i][2]]
    <2>1. /\ call.alg = "within_depth" /\ call.a = a /\ call.b = a /\ call.hops = d
          /\ queue = <<<<a, 0>>>> /\ visited = {a} /\ found = <<>> /\ d \in Nat
        BY <1>8, DagAssumption DEF Start, Call
    <2>2. ParentsOf \in [Commits -> SUBSET Commits] /\ d \in Nat \cup {NoLimit}
        BY <1>1, <2>1, ParentsOlder
    <2>3. DOMAIN queue = {1} /\ queue[1] = <<a, 0>> /\ Len(queue) = 1 /\ queue \in Seq(Commits \X Nat)
        BY <2>1
    <2>4. nodes = <<a>> /\ depths = <<0>>
        BY <2>3
    <2>5. Bfs(Commits, ParentsOf, a, d, nodes, depths, {a})
        <3> HIDE DEF nodes, depths
        <3> QED
            BY <2>2, <2>4, BfsStart
    <2>6. Collected(nodes)
        <3>1. ToSet(nodes) = {a} /\ ToSet(found) = {} /\ IsInjective(nodes) /\ IsInjective(found)
            BY <2>1, <2>4 DEF ToSet, IsInjective
        <3>2. found \in Seq(Commits) /\ DOMAIN found = {}
            BY <2>1
        <3> HIDE DEF nodes
        <3> QED
            BY <2>1, <3>1, <3>2 DEF Collected
    <2>7. WithinDepthLoop
        BY <2>1, <2>3, <2>5, <2>6 DEF WithinDepthLoop
    <2> QED
        BY <2>1, <2>7 DEF CallOK, LoopInv
<1>9. ASSUME NEW e \in Edges,
             Start(Call("expand_edge", a, a, HopBounds(e)[2], e, NoPattern), <<<<a, 0>>>>, {<<a, 0>>}, {})
      PROVE  CallOK /\ LoopInv
    <2>1. /\ call.alg = "expand_edge" /\ call.a = a /\ call.b = a /\ call.hops = HopBounds(e)[2]
          /\ call.edge = e /\ queue = <<<<a, 0>>>> /\ visited = {<<a, 0>>} /\ found = {}
        BY <1>9 DEF Start, Call
    <2>2. e \in AllEdges
        BY DEF AllEdges
    <2>3. /\ EdgeSteps(e) \in [Commits -> SUBSET Commits] /\ HopBounds(e)[2] \in Nat
        BY <1>1, <2>2, EdgeFacts
    <2>4. Walk(EdgeSteps(e), a, 0) = {a}
        BY <2>3, WalkSteps
    <2>5. 0 \in 0 .. HopBounds(e)[2]
        BY <2>3
    <2>6. queue \in Seq(visited) /\ <<a, 0>> \in ToSet(queue)
        BY <2>1 DEF ToSet
    <2>7. ExpandEdgeLoop
        BY <2>1, <2>4, <2>5, <2>6 DEF ExpandEdgeLoop
    <2> QED
        BY <2>1, <2>2, <2>7 DEF CallOK, LoopInv
<1>10. ASSUME NEW p \in Patterns,
              Start(Call("match", a, a, 0, NoEdge, p), [i \in DOMAIN p.edges |-> i], {},
                    {[v \in {p.vars[1]} |-> n] : n \in Universe(a) \cap p.wants[1]})
       PROVE  CallOK /\ LoopInv
    <2>1. /\ call.alg = "match" /\ call.a = a /\ call.b = a /\ call.pattern = p
          /\ queue = [i \in DOMAIN p.edges |-> i]
          /\ found = {[v \in {p.vars[1]} |-> n] : n \in Universe(a) \cap p.wants[1]}
        BY <1>10 DEF Start, Call
    <2>2. Len(p.edges) \in Nat /\ DOMAIN p.edges = 1 .. Len(p.edges)
        BY PatternFacts
    <2>3. queue \in Seq(Nat) /\ Len(queue) = Len(p.edges) /\ \A i \in DOMAIN queue : queue[i] = 0 + i
        BY <2>1, <2>2
    <2>4. Len(p.edges) - Len(queue) = 0
        BY <2>2, <2>3
    <2>5. found = Bindings(p, 0 + 1)
        BY <2>1, FirstBindings
    <2>6. MatchLoop
        <3> DEFINE done == Len(call.pattern.edges) - Len(queue)
        <3>1. done = 0 /\ done \in Nat
            BY <2>1, <2>4
        <3>2. \A i \in DOMAIN queue : queue[i] = done + i
            BY <2>3, <3>1
        <3>3. found = Bindings(call.pattern, done + 1)
            BY <2>1, <2>5, <3>1
        <3> HIDE DEF done
        <3> QED
            BY <2>3, <3>1, <3>2, <3>3 DEF MatchLoop, done
    <2> QED
        BY <2>1, <2>6 DEF CallOK, LoopInv
<1> QED
    BY <1>4, <1>5, <1>6, <1>7, <1>8, <1>9, <1>10

\* Every step keeps the invariant.
LEMMA StepOK == DagInv /\ [Next]_vars => DagInv'
<1> SUFFICES ASSUME DagInv, [Next]_vars PROVE DagInv'
    OBVIOUS
<1>1. CASE UNCHANGED vars
    <2>1. /\ parents' = parents /\ tips' = tips /\ call' = call /\ queue' = queue
          /\ visited' = visited /\ found' = found /\ result' = result
        BY <1>1 DEF vars
    <2>2. /\ Commits' = Commits /\ ParentsOf' = ParentsOf /\ ChildrenOf' = ChildrenOf
          /\ AtMostOneStep' = AtMostOneStep /\ GraphOK'
          /\ \A n : Ancestors(n)' = Ancestors(n) /\ Universe(n)' = Universe(n) /\ Neighbours(n)' = Neighbours(n)
          /\ \A n, m : Distance(n, m)' = Distance(n, m) /\ Ball(n, m)' = Ball(n, m)
          /\ \A n, e : EdgeEnds(n, e)' = EdgeEnds(n, e)
        BY <2>1, SameGraph DEF DagInv
    <2>3. CallOK'
        BY <2>1, <2>2 DEF DagInv, CallOK
    <2>4. ResultInv'
        <3>1. ResultInv
            BY DEF DagInv
        <3>2. MergeBaseIsCommon' /\ AncestorWalksAreExact'
            BY <2>1, <2>2, <3>1 DEF ResultInv, MergeBaseIsCommon, AncestorWalksAreExact, Returns, Value
        <3>3. ShortestPathIsShortest' /\ EdgeEndsAreExact' /\ MatchIsExact'
            BY <2>1, <2>2, <3>1 DEF ResultInv, ShortestPathIsShortest, EdgeEndsAreExact, MatchIsExact,
                                    Returns, Value
        <3> QED
            BY <3>2, <3>3 DEF ResultInv
    <2>5. ASSUME LoopInv PROVE LoopInv'
        <3>1. call.alg = "collect" => CollectLoop'
            BY <2>1, <2>2, <2>5 DEF LoopInv, CollectLoop
        <3>2. call.alg = "merge_base" => MergeBaseLoop'
            BY <2>1, <2>2, <2>5 DEF LoopInv, MergeBaseLoop
        <3>3. call.alg = "within_depth" => WithinDepthLoop'
            BY <2>1, <2>2, <2>5 DEF LoopInv, WithinDepthLoop, Collected
        <3>4. call.alg = "shortest_path" => ShortestPathLoop'
            BY <2>1, <2>2, <2>5 DEF LoopInv, ShortestPathLoop, PathOK
        <3>5. call.alg = "expand_edge" => ExpandEdgeLoop'
            BY <2>1, <2>2, <2>5 DEF LoopInv, ExpandEdgeLoop, EdgeSteps
        <3>6. call.alg = "match" => MatchLoop'
            <4>1. \A p, k : Bindings(p, k)' = Bindings(p, k)
                BY <2>1, <2>2 DEF Bindings
            <4>2. (found = Bindings(call.pattern, Len(call.pattern.edges) - Len(queue) + 1))'
                  <=> found = Bindings(call.pattern, Len(call.pattern.edges) - Len(queue) + 1)
                BY <2>1, <4>1
            <4> QED
                BY <2>1, <2>5, <4>2 DEF LoopInv, MatchLoop
        <3> QED
            BY <2>1, <3>1, <3>2, <3>3, <3>4, <3>5, <3>6 DEF LoopInv
    <2> QED
        BY <2>1, <2>2, <2>3, <2>4, <2>5 DEF DagInv
<1> QED
    BY <1>1, CollectOK, MergeBaseOK, WithinDepthOK, ShortestPathOK, ExpandEdgeOK, MatchOK DEF Next

\* While a walk over the commit graph runs its loop invariant holds, and what it
\* returns is what it is meant to compute: for every history, every set of
\* branch tips, every depth, every edge pattern and every MATCH pattern.
THEOREM WalksInvariant == Spec => []DagInv
<1>1. Init => DagInv
    BY InitOK
<1>2. DagInv /\ [Next]_vars => DagInv'
    BY StepOK
<1> QED
    BY <1>1, <1>2, PTL DEF Spec

\* collect_ancestors returns the ancestors of its commit, ancestors_within_depth
\* the proper ones within the depth, each once, nearest first.
THEOREM AncestorWalks == Spec => []AncestorWalksAreExact
<1>1. DagInv => AncestorWalksAreExact
    BY DEF DagInv, ResultInv
<1> QED
    BY <1>1, WalksInvariant, PTL

\* merge_base returns a common ancestor if there is one, and none is nearer to
\* its second commit.
THEOREM MergeBase == Spec => []MergeBaseIsCommon
<1>1. DagInv => MergeBaseIsCommon
    BY DEF DagInv, ResultInv
<1> QED
    BY <1>1, WalksInvariant, PTL

\* TRAVERSE SHORTEST_PATH returns a path along parents and children than which
\* none is shorter, or none where there is none.
THEOREM ShortestPaths == Spec => []ShortestPathIsShortest
<1>1. DagInv => ShortestPathIsShortest
    BY DEF DagInv, ResultInv
<1> QED
    BY <1>1, WalksInvariant, PTL

\* expand_edge returns exactly the other commits that a walk of a length within
\* the hop bounds reaches.
THEOREM EdgeExpansion == Spec => []EdgeEndsAreExact
<1>1. DagInv => EdgeEndsAreExact
    BY DEF DagInv, ResultInv
<1> QED
    BY <1>1, WalksInvariant, PTL

\* MATCH returns exactly the assignments under which every edge of the pattern
\* holds.
THEOREM Matches == Spec => []MatchIsExact
<1>1. DagInv => MatchIsExact
    BY DEF DagInv, ResultInv
<1> QED
    BY <1>1, WalksInvariant, PTL
=============================================================================
