---------------------------- MODULE SchemaProofs ----------------------------
(***************************************************************************)
(* Theorems about Schema: the registry that migrations leave, and the index *)
(* roots of every commit.                                                   *)
(*                                                                          *)
(* The loops of the code are recursive functions in Schema.  A "run" of a    *)
(* loop is the sequence of its intermediate results; one lemma for each loop *)
(* says that it has a run and returns what the run ends with, and everything *)
(* else about loops is induction along their runs.                           *)
(***************************************************************************)
EXTENDS Schema, NaturalsInduction, WellFoundedInduction, SequenceTheorems, TLAPS

-----------------------------------------------------------------------------
(* Induction *)

\* A set of natural numbers has a least member.
LEMMA LeastNumber ==
    ASSUME NEW T \in SUBSET Nat, T # {}
    PROVE  \E m \in T : \A k \in T : m =< k
<1>1. IsWellFoundedOn(OpToRel(<, Nat), Nat)
    BY NatLessThanWellFounded
<1>2. PICK m \in T : \A k \in T : ~(<<k, m>> \in OpToRel(<, Nat))
    BY <1>1, WFMin
<1>3. \A k \in T : ~(k < m)
    BY <1>2, Zenon DEF OpToRel
<1> QED
    BY <1>3

\* Induction: a set with 0 and the successor of each of its numbers holds all.
LEMMA Induction ==
    ASSUME NEW T, 0 \in T, \A k \in Nat : k \in T => k + 1 \in T
    PROVE  Nat \subseteq T
<1> DEFINE Bad == {k \in Nat : k \notin T}
<1>1. SUFFICES ASSUME Bad # {} PROVE FALSE
    OBVIOUS
<1>2. PICK m \in Bad : \A k \in Bad : m =< k
    <2>1. Bad \in SUBSET Nat
        OBVIOUS
    <2> HIDE DEF Bad
    <2> QED
        BY <1>1, <2>1, LeastNumber
<1>3. m # 0 /\ m - 1 \in Nat /\ m - 1 \notin Bad
    BY <1>2
<1> QED
    BY <1>3

-----------------------------------------------------------------------------
(* The runs of the loops *)

ParseRun(f, p, lines) ==
    f[0] = p /\ \A n \in 1..Len(lines) : f[n] = ParseLine(f[n - 1], lines[n])

StatementsRun(f, s, stmts) ==
    f[0] = s /\ \A n \in 1..Len(stmts) : f[n] = ApplyStatement(f[n - 1], stmts[n])

FilesRun(f, reg, fs) ==
    /\ f[0] = [ok |-> TRUE, reg |-> reg]
    /\ \A n \in 1..Len(fs) : f[n] = ApplyStatements(f[n - 1], Migration[fs[n]])

RetainRun(f, s, S) ==
    /\ f[0] = <<>>
    /\ \A n \in 1..Len(s) : f[n] = IF s[n] \in S THEN Append(f[n - 1], s[n]) ELSE f[n - 1]

OutRun(f, reg) ==
    f[0] = <<>> /\ \A n \in 1..Len(CollSeq) : f[n] = f[n - 1] \o CollectionLines(CollSeq[n], reg)

\* The primary key that update_indexes_for_commit uses for one collection.
KeyFor(c, old, new) == IF PrimaryKey(c, new) # NoKey THEN PrimaryKey(c, new) ELSE PrimaryKey(c, old)

CollectionRun(f, roots, c, old, new) ==
    /\ f[0] = roots
    /\ \A n \in 1..Len(c.indexes) :
        f[n] = UpdateIndex(f[n - 1], c.indexes[n], KeyFor(c, old, new), old, new)

RootsRun(f, reg, old, new, roots) ==
    /\ f[0] = roots
    /\ \A n \in 1..Len(CollSeq) :
        f[n] = IF CollSeq[n] \in DOMAIN reg
               THEN UpdateCollection(f[n - 1], reg[CollSeq[n]], old, new)
               ELSE f[n - 1]

\* What update_indexes_for_commit keeps of the roots.
Live(reg, roots) == Restrict(roots, DOMAIN roots \cap {i.name : i \in AllIndexes(reg)})

\* The loop of SchemaRegistry::parse.
LEMMA ParseHasRun ==
    ASSUME NEW p, NEW lines, Len(lines) \in Nat
    PROVE  \E f : ParseRun(f, p, lines) /\ Parse(p, lines) = f[Len(lines)]
<1> DEFINE Step(n, x) == ParseLine(x, lines[n])
           Is(g, m) == g = [n \in 0..m |-> IF n = 0 THEN p ELSE Step(n, g[n - 1])]
           T == {m \in Nat : \E g : Is(g, m)}
           after == CHOOSE g : Is(g, Len(lines))
<1>1. Parse(p, lines) = after[Len(lines)]
    BY DEF Parse
<1>2. \A x : \A n \in 1..Len(lines) : Step(n, x) = ParseLine(x, lines[n])
    OBVIOUS
<1> HIDE DEF Step
<1>3. 0 \in T
    <2>1. Is([n \in 0..0 |-> p], 0)
        OBVIOUS
    <2> HIDE DEF Is
    <2> QED
        BY <2>1
<1>4. ASSUME NEW m \in Nat, m \in T PROVE m + 1 \in T
    <2>1. PICK g : Is(g, m)
        BY <1>4
    <2> DEFINE h == [n \in 0..(m + 1) |-> IF n = m + 1 THEN Step(m + 1, g[m]) ELSE g[n]]
    <2>2. ASSUME NEW n \in 0..(m + 1)
          PROVE  h[n] = IF n = 0 THEN p ELSE Step(n, h[n - 1])
        <3>1. CASE n = m + 1
            <4>1. n # 0 /\ n - 1 = m /\ m \in 0..(m + 1) /\ m # m + 1
                BY <3>1
            <4>2. h[n - 1] = g[m] /\ h[n] = Step(m + 1, g[m])
                BY <3>1, <4>1
            <4> HIDE DEF h, Is
            <4> QED
                BY <3>1, <4>1, <4>2
        <3>2. CASE n # m + 1
            <4>1. n \in 0..m /\ h[n] = g[n]
                BY <3>2
            <4>2. n # 0 => n - 1 \in 0..(m + 1) /\ n - 1 # m + 1
                BY <4>1
            <4>3. n # 0 => h[n - 1] = g[n - 1]
                BY <4>2
            <4>4. g[n] = IF n = 0 THEN p ELSE Step(n, g[n - 1])
                BY <2>1, <4>1
            <4> HIDE DEF h, Is
            <4> QED
                BY <4>1, <4>3, <4>4
        <3> QED
            BY <3>1, <3>2
    <2>3. Is(h, m + 1)
        BY <2>2
    <2> HIDE DEF Is, h
    <2> QED
        BY <2>3
<1>5. Len(lines) \in T
    <2> HIDE DEF T
    <2> QED
        BY <1>3, <1>4, Induction
<1>6. Is(after, Len(lines))
    <2> HIDE DEF Is
    <2> QED
        BY <1>5
<1>7. after[0] = p /\ \A n \in 1..Len(lines) : after[n] = Step(n, after[n - 1])
    <2>1. Len(lines) \in Nat
        BY <1>5
    <2>2. \A n \in 0..Len(lines) : after[n] = IF n = 0 THEN p ELSE Step(n, after[n - 1])
        <3> HIDE DEF after
        <3> QED
            BY <1>6
    <2> HIDE DEF after, Is, T
    <2>3. 0 \in 0..Len(lines) /\ \A n \in 1..Len(lines) : n \in 0..Len(lines) /\ n # 0
        BY <2>1
    <2> QED
        BY <2>2, <2>3
<1> QED
    <2> HIDE DEF after, Is, T
    <2> QED
        BY <1>1, <1>2, <1>7 DEF ParseRun

\* The loop of apply_statements.
LEMMA StatementsHaveRun ==
    ASSUME NEW s, NEW stmts, Len(stmts) \in Nat
    PROVE  \E f : StatementsRun(f, s, stmts) /\ ApplyStatements(s, stmts) = f[Len(stmts)]
<1> DEFINE Step(n, x) == ApplyStatement(x, stmts[n])
           Is(g, m) == g = [n \in 0..m |-> IF n = 0 THEN s ELSE Step(n, g[n - 1])]
           T == {m \in Nat : \E g : Is(g, m)}
           after == CHOOSE g : Is(g, Len(stmts))
<1>1. ApplyStatements(s, stmts) = after[Len(stmts)]
    BY DEF ApplyStatements
<1>2. \A x : \A n \in 1..Len(stmts) : Step(n, x) = ApplyStatement(x, stmts[n])
    OBVIOUS
<1> HIDE DEF Step
<1>3. 0 \in T
    <2>1. Is([n \in 0..0 |-> s], 0)
        OBVIOUS
    <2> HIDE DEF Is
    <2> QED
        BY <2>1
<1>4. ASSUME NEW m \in Nat, m \in T PROVE m + 1 \in T
    <2>1. PICK g : Is(g, m)
        BY <1>4
    <2> DEFINE h == [n \in 0..(m + 1) |-> IF n = m + 1 THEN Step(m + 1, g[m]) ELSE g[n]]
    <2>2. ASSUME NEW n \in 0..(m + 1)
          PROVE  h[n] = IF n = 0 THEN s ELSE Step(n, h[n - 1])
        <3>1. CASE n = m + 1
            <4>1. n # 0 /\ n - 1 = m /\ m \in 0..(m + 1) /\ m # m + 1
                BY <3>1
            <4>2. h[n - 1] = g[m] /\ h[n] = Step(m + 1, g[m])
                BY <3>1, <4>1
            <4> HIDE DEF h, Is
            <4> QED
                BY <3>1, <4>1, <4>2
        <3>2. CASE n # m + 1
            <4>1. n \in 0..m /\ h[n] = g[n]
                BY <3>2
            <4>2. n # 0 => n - 1 \in 0..(m + 1) /\ n - 1 # m + 1
                BY <4>1
            <4>3. n # 0 => h[n - 1] = g[n - 1]
                BY <4>2
            <4>4. g[n] = IF n = 0 THEN s ELSE Step(n, g[n - 1])
                BY <2>1, <4>1
            <4> HIDE DEF h, Is
            <4> QED
                BY <4>1, <4>3, <4>4
        <3> QED
            BY <3>1, <3>2
    <2>3. Is(h, m + 1)
        BY <2>2
    <2> HIDE DEF Is, h
    <2> QED
        BY <2>3
<1>5. Len(stmts) \in T
    <2> HIDE DEF T
    <2> QED
        BY <1>3, <1>4, Induction
<1>6. Is(after, Len(stmts))
    <2> HIDE DEF Is
    <2> QED
        BY <1>5
<1>7. after[0] = s /\ \A n \in 1..Len(stmts) : after[n] = Step(n, after[n - 1])
    <2>1. Len(stmts) \in Nat
        BY <1>5
    <2>2. \A n \in 0..Len(stmts) : after[n] = IF n = 0 THEN s ELSE Step(n, after[n - 1])
        <3> HIDE DEF after
        <3> QED
            BY <1>6
    <2> HIDE DEF after, Is, T
    <2>3. 0 \in 0..Len(stmts) /\ \A n \in 1..Len(stmts) : n \in 0..Len(stmts) /\ n # 0
        BY <2>1
    <2> QED
        BY <2>2, <2>3
<1> QED
    <2> HIDE DEF after, Is, T
    <2> QED
        BY <1>1, <1>2, <1>7 DEF StatementsRun

\* The loop of migrate.
LEMMA FilesHaveRun ==
    ASSUME NEW reg, NEW fs, Len(fs) \in Nat
    PROVE  \E f : FilesRun(f, reg, fs) /\ ApplyFiles(reg, fs) = f[Len(fs)]
<1> DEFINE Step(n, x) == ApplyStatements(x, Migration[fs[n]])
           Is(g, m) == g = [n \in 0..m |-> IF n = 0 THEN [ok |-> TRUE, reg |-> reg] ELSE Step(n, g[n - 1])]
           T == {m \in Nat : \E g : Is(g, m)}
           after == CHOOSE g : Is(g, Len(fs))
<1>1. ApplyFiles(reg, fs) = after[Len(fs)]
    BY DEF ApplyFiles
<1>2. \A x : \A n \in 1..Len(fs) : Step(n, x) = ApplyStatements(x, Migration[fs[n]])
    OBVIOUS
<1> HIDE DEF Step
<1>3. 0 \in T
    <2>1. Is([n \in 0..0 |-> [ok |-> TRUE, reg |-> reg]], 0)
        OBVIOUS
    <2> HIDE DEF Is
    <2> QED
        BY <2>1
<1>4. ASSUME NEW m \in Nat, m \in T PROVE m + 1 \in T
    <2>1. PICK g : Is(g, m)
        BY <1>4
    <2> DEFINE h == [n \in 0..(m + 1) |-> IF n = m + 1 THEN Step(m + 1, g[m]) ELSE g[n]]
    <2>2. ASSUME NEW n \in 0..(m + 1)
          PROVE  h[n] = IF n = 0 THEN [ok |-> TRUE, reg |-> reg] ELSE Step(n, h[n - 1])
        <3>1. CASE n = m + 1
            <4>1. n # 0 /\ n - 1 = m /\ m \in 0..(m + 1) /\ m # m + 1
                BY <3>1
            <4>2. h[n - 1] = g[m] /\ h[n] = Step(m + 1, g[m])
                BY <3>1, <4>1
            <4> HIDE DEF h, Is
            <4> QED
                BY <3>1, <4>1, <4>2
        <3>2. CASE n # m + 1
            <4>1. n \in 0..m /\ h[n] = g[n]
                BY <3>2
            <4>2. n # 0 => n - 1 \in 0..(m + 1) /\ n - 1 # m + 1
                BY <4>1
            <4>3. n # 0 => h[n - 1] = g[n - 1]
                BY <4>2
            <4>4. g[n] = IF n = 0 THEN [ok |-> TRUE, reg |-> reg] ELSE Step(n, g[n - 1])
                BY <2>1, <4>1
            <4> HIDE DEF h, Is
            <4> QED
                BY <4>1, <4>3, <4>4
        <3> QED
            BY <3>1, <3>2
    <2>3. Is(h, m + 1)
        BY <2>2
    <2> HIDE DEF Is, h
    <2> QED
        BY <2>3
<1>5. Len(fs) \in T
    <2> HIDE DEF T
    <2> QED
        BY <1>3, <1>4, Induction
<1>6. Is(after, Len(fs))
    <2> HIDE DEF Is
    <2> QED
        BY <1>5
<1>7. after[0] = [ok |-> TRUE, reg |-> reg] /\ \A n \in 1..Len(fs) : after[n] = Step(n, after[n - 1])
    <2>1. Len(fs) \in Nat
        BY <1>5
    <2>2. \A n \in 0..Len(fs) : after[n] = IF n = 0 THEN [ok |-> TRUE, reg |-> reg] ELSE Step(n, after[n - 1])
        <3> HIDE DEF after
        <3> QED
            BY <1>6
    <2> HIDE DEF after, Is, T
    <2>3. 0 \in 0..Len(fs) /\ \A n \in 1..Len(fs) : n \in 0..Len(fs) /\ n # 0
        BY <2>1
    <2> QED
        BY <2>2, <2>3
<1> QED
    <2> HIDE DEF after, Is, T
    <2> QED
        BY <1>1, <1>2, <1>7 DEF FilesRun

\* Vec::retain.
LEMMA RetainHasRun ==
    ASSUME NEW s, NEW S, Len(s) \in Nat
    PROVE  \E f : RetainRun(f, s, S) /\ Retain(s, S) = f[Len(s)]
<1> DEFINE Step(n, x) == IF s[n] \in S THEN Append(x, s[n]) ELSE x
           Is(g, m) == g = [n \in 0..m |-> IF n = 0 THEN <<>> ELSE Step(n, g[n - 1])]
           T == {m \in Nat : \E g : Is(g, m)}
           after == CHOOSE g : Is(g, Len(s))
<1>1. Retain(s, S) = after[Len(s)]
    BY DEF Retain
<1>2. \A x : \A n \in 1..Len(s) : Step(n, x) = IF s[n] \in S THEN Append(x, s[n]) ELSE x
    OBVIOUS
<1> HIDE DEF Step
<1>3. 0 \in T
    <2>1. Is([n \in 0..0 |-> <<>>], 0)
        OBVIOUS
    <2> HIDE DEF Is
    <2> QED
        BY <2>1
<1>4. ASSUME NEW m \in Nat, m \in T PROVE m + 1 \in T
    <2>1. PICK g : Is(g, m)
        BY <1>4
    <2> DEFINE h == [n \in 0..(m + 1) |-> IF n = m + 1 THEN Step(m + 1, g[m]) ELSE g[n]]
    <2>2. ASSUME NEW n \in 0..(m + 1)
          PROVE  h[n] = IF n = 0 THEN <<>> ELSE Step(n, h[n - 1])
        <3>1. CASE n = m + 1
            <4>1. n # 0 /\ n - 1 = m /\ m \in 0..(m + 1) /\ m # m + 1
                BY <3>1
            <4>2. h[n - 1] = g[m] /\ h[n] = Step(m + 1, g[m])
                BY <3>1, <4>1
            <4> HIDE DEF h, Is
            <4> QED
                BY <3>1, <4>1, <4>2
        <3>2. CASE n # m + 1
            <4>1. n \in 0..m /\ h[n] = g[n]
                BY <3>2
            <4>2. n # 0 => n - 1 \in 0..(m + 1) /\ n - 1 # m + 1
                BY <4>1
            <4>3. n # 0 => h[n - 1] = g[n - 1]
                BY <4>2
            <4>4. g[n] = IF n = 0 THEN <<>> ELSE Step(n, g[n - 1])
                BY <2>1, <4>1
            <4> HIDE DEF h, Is
            <4> QED
                BY <4>1, <4>3, <4>4
        <3> QED
            BY <3>1, <3>2
    <2>3. Is(h, m + 1)
        BY <2>2
    <2> HIDE DEF Is, h
    <2> QED
        BY <2>3
<1>5. Len(s) \in T
    <2> HIDE DEF T
    <2> QED
        BY <1>3, <1>4, Induction
<1>6. Is(after, Len(s))
    <2> HIDE DEF Is
    <2> QED
        BY <1>5
<1>7. after[0] = <<>> /\ \A n \in 1..Len(s) : after[n] = Step(n, after[n - 1])
    <2>1. Len(s) \in Nat
        BY <1>5
    <2>2. \A n \in 0..Len(s) : after[n] = IF n = 0 THEN <<>> ELSE Step(n, after[n - 1])
        <3> HIDE DEF after
        <3> QED
            BY <1>6
    <2> HIDE DEF after, Is, T
    <2>3. 0 \in 0..Len(s) /\ \A n \in 1..Len(s) : n \in 0..Len(s) /\ n # 0
        BY <2>1
    <2> QED
        BY <2>2, <2>3
<1> QED
    <2> HIDE DEF after, Is, T
    <2> QED
        BY <1>1, <1>2, <1>7 DEF RetainRun

\* The loop of SchemaRegistry::to_state_file.
LEMMA OutHasRun ==
    ASSUME NEW reg, Len(CollSeq) \in Nat
    PROVE  \E f : OutRun(f, reg) /\ ToStateFile(reg) = f[Len(CollSeq)]
<1> DEFINE Step(n, x) == x \o CollectionLines(CollSeq[n], reg)
           Is(g, m) == g = [n \in 0..m |-> IF n = 0 THEN <<>> ELSE Step(n, g[n - 1])]
           T == {m \in Nat : \E g : Is(g, m)}
           after == CHOOSE g : Is(g, Len(CollSeq))
<1>1. ToStateFile(reg) = after[Len(CollSeq)]
    BY DEF ToStateFile
<1>2. \A x : \A n \in 1..Len(CollSeq) : Step(n, x) = x \o CollectionLines(CollSeq[n], reg)
    OBVIOUS
<1> HIDE DEF Step
<1>3. 0 \in T
    <2>1. Is([n \in 0..0 |-> <<>>], 0)
        OBVIOUS
    <2> HIDE DEF Is
    <2> QED
        BY <2>1
<1>4. ASSUME NEW m \in Nat, m \in T PROVE m + 1 \in T
    <2>1. PICK g : Is(g, m)
        BY <1>4
    <2> DEFINE h == [n \in 0..(m + 1) |-> IF n = m + 1 THEN Step(m + 1, g[m]) ELSE g[n]]
    <2>2. ASSUME NEW n \in 0..(m + 1)
          PROVE  h[n] = IF n = 0 THEN <<>> ELSE Step(n, h[n - 1])
        <3>1. CASE n = m + 1
            <4>1. n # 0 /\ n - 1 = m /\ m \in 0..(m + 1) /\ m # m + 1
                BY <3>1
            <4>2. h[n - 1] = g[m] /\ h[n] = Step(m + 1, g[m])
                BY <3>1, <4>1
            <4> HIDE DEF h, Is
            <4> QED
                BY <3>1, <4>1, <4>2
        <3>2. CASE n # m + 1
            <4>1. n \in 0..m /\ h[n] = g[n]
                BY <3>2
            <4>2. n # 0 => n - 1 \in 0..(m + 1) /\ n - 1 # m + 1
                BY <4>1
            <4>3. n # 0 => h[n - 1] = g[n - 1]
                BY <4>2
            <4>4. g[n] = IF n = 0 THEN <<>> ELSE Step(n, g[n - 1])
                BY <2>1, <4>1
            <4> HIDE DEF h, Is
            <4> QED
                BY <4>1, <4>3, <4>4
        <3> QED
            BY <3>1, <3>2
    <2>3. Is(h, m + 1)
        BY <2>2
    <2> HIDE DEF Is, h
    <2> QED
        BY <2>3
<1>5. Len(CollSeq) \in T
    <2> HIDE DEF T
    <2> QED
        BY <1>3, <1>4, Induction
<1>6. Is(after, Len(CollSeq))
    <2> HIDE DEF Is
    <2> QED
        BY <1>5
<1>7. after[0] = <<>> /\ \A n \in 1..Len(CollSeq) : after[n] = Step(n, after[n - 1])
    <2>1. Len(CollSeq) \in Nat
        BY <1>5
    <2>2. \A n \in 0..Len(CollSeq) : after[n] = IF n = 0 THEN <<>> ELSE Step(n, after[n - 1])
        <3> HIDE DEF after
        <3> QED
            BY <1>6
    <2> HIDE DEF after, Is, T
    <2>3. 0 \in 0..Len(CollSeq) /\ \A n \in 1..Len(CollSeq) : n \in 0..Len(CollSeq) /\ n # 0
        BY <2>1
    <2> QED
        BY <2>2, <2>3
<1> QED
    <2> HIDE DEF after, Is, T
    <2> QED
        BY <1>1, <1>2, <1>7 DEF OutRun

\* The inner loop of update_indexes_for_commit.
LEMMA CollectionHasRun ==
    ASSUME NEW roots, NEW c, NEW old, NEW new, Len(c.indexes) \in Nat
    PROVE  \E f : CollectionRun(f, roots, c, old, new) /\ UpdateCollection(roots, c, old, new) = f[Len(c.indexes)]
<1> DEFINE Step(n, x) == UpdateIndex(x, c.indexes[n], KeyFor(c, old, new), old, new)
           Is(g, m) == g = [n \in 0..m |-> IF n = 0 THEN roots ELSE Step(n, g[n - 1])]
           T == {m \in Nat : \E g : Is(g, m)}
           after == CHOOSE g : Is(g, Len(c.indexes))
<1>1. UpdateCollection(roots, c, old, new) = after[Len(c.indexes)]
    BY DEF UpdateCollection, KeyFor
<1>2. \A x : \A n \in 1..Len(c.indexes) : Step(n, x) = UpdateIndex(x, c.indexes[n], KeyFor(c, old, new), old, new)
    OBVIOUS
<1> HIDE DEF Step
<1>3. 0 \in T
    <2>1. Is([n \in 0..0 |-> roots], 0)
        OBVIOUS
    <2> HIDE DEF Is
    <2> QED
        BY <2>1
<1>4. ASSUME NEW m \in Nat, m \in T PROVE m + 1 \in T
    <2>1. PICK g : Is(g, m)
        BY <1>4
    <2> DEFINE h == [n \in 0..(m + 1) |-> IF n = m + 1 THEN Step(m + 1, g[m]) ELSE g[n]]
    <2>2. ASSUME NEW n \in 0..(m + 1)
          PROVE  h[n] = IF n = 0 THEN roots ELSE Step(n, h[n - 1])
        <3>1. CASE n = m + 1
            <4>1. n # 0 /\ n - 1 = m /\ m \in 0..(m + 1) /\ m # m + 1
                BY <3>1
            <4>2. h[n - 1] = g[m] /\ h[n] = Step(m + 1, g[m])
                BY <3>1, <4>1
            <4> HIDE DEF h, Is
            <4> QED
                BY <3>1, <4>1, <4>2
        <3>2. CASE n # m + 1
            <4>1. n \in 0..m /\ h[n] = g[n]
                BY <3>2
            <4>2. n # 0 => n - 1 \in 0..(m + 1) /\ n - 1 # m + 1
                BY <4>1
            <4>3. n # 0 => h[n - 1] = g[n - 1]
                BY <4>2
            <4>4. g[n] = IF n = 0 THEN roots ELSE Step(n, g[n - 1])
                BY <2>1, <4>1
            <4> HIDE DEF h, Is
            <4> QED
                BY <4>1, <4>3, <4>4
        <3> QED
            BY <3>1, <3>2
    <2>3. Is(h, m + 1)
        BY <2>2
    <2> HIDE DEF Is, h
    <2> QED
        BY <2>3
<1>5. Len(c.indexes) \in T
    <2> HIDE DEF T
    <2> QED
        BY <1>3, <1>4, Induction
<1>6. Is(after, Len(c.indexes))
    <2> HIDE DEF Is
    <2> QED
        BY <1>5
<1>7. after[0] = roots /\ \A n \in 1..Len(c.indexes) : after[n] = Step(n, after[n - 1])
    <2>1. Len(c.indexes) \in Nat
        BY <1>5
    <2>2. \A n \in 0..Len(c.indexes) : after[n] = IF n = 0 THEN roots ELSE Step(n, after[n - 1])
        <3> HIDE DEF after
        <3> QED
            BY <1>6
    <2> HIDE DEF after, Is, T
    <2>3. 0 \in 0..Len(c.indexes) /\ \A n \in 1..Len(c.indexes) : n \in 0..Len(c.indexes) /\ n # 0
        BY <2>1
    <2> QED
        BY <2>2, <2>3
<1> QED
    <2> HIDE DEF after, Is, T
    <2> QED
        BY <1>1, <1>2, <1>7 DEF CollectionRun

\* The outer loop of update_indexes_for_commit.
LEMMA RootsHaveRun ==
    ASSUME NEW reg, NEW old, NEW new, NEW roots, DOMAIN reg # {}, Len(CollSeq) \in Nat
    PROVE  \E f : RootsRun(f, reg, old, new, roots) /\ UpdateIndexes(reg, old, new, roots) = Live(reg, f[Len(CollSeq)])
<1> DEFINE Step(n, x) == IF CollSeq[n] \in DOMAIN reg THEN UpdateCollection(x, reg[CollSeq[n]], old, new) ELSE x
           Is(g, m) == g = [n \in 0..m |-> IF n = 0 THEN roots ELSE Step(n, g[n - 1])]
           T == {m \in Nat : \E g : Is(g, m)}
           after == CHOOSE g : Is(g, Len(CollSeq))
<1>1. UpdateIndexes(reg, old, new, roots) = Live(reg, after[Len(CollSeq)])
    BY DEF UpdateIndexes, Live
<1>2. \A x : \A n \in 1..Len(CollSeq) : Step(n, x) = IF CollSeq[n] \in DOMAIN reg THEN UpdateCollection(x, reg[CollSeq[n]], old, new) ELSE x
    OBVIOUS
<1> HIDE DEF Step
<1>3. 0 \in T
    <2>1. Is([n \in 0..0 |-> roots], 0)
        OBVIOUS
    <2> HIDE DEF Is
    <2> QED
        BY <2>1
<1>4. ASSUME NEW m \in Nat, m \in T PROVE m + 1 \in T
    <2>1. PICK g : Is(g, m)
        BY <1>4
    <2> DEFINE h == [n \in 0..(m + 1) |-> IF n = m + 1 THEN Step(m + 1, g[m]) ELSE g[n]]
    <2>2. ASSUME NEW n \in 0..(m + 1)
          PROVE  h[n] = IF n = 0 THEN roots ELSE Step(n, h[n - 1])
        <3>1. CASE n = m + 1
            <4>1. n # 0 /\ n - 1 = m /\ m \in 0..(m + 1) /\ m # m + 1
                BY <3>1
            <4>2. h[n - 1] = g[m] /\ h[n] = Step(m + 1, g[m])
                BY <3>1, <4>1
            <4> HIDE DEF h, Is
            <4> QED
                BY <3>1, <4>1, <4>2
        <3>2. CASE n # m + 1
            <4>1. n \in 0..m /\ h[n] = g[n]
                BY <3>2
            <4>2. n # 0 => n - 1 \in 0..(m + 1) /\ n - 1 # m + 1
                BY <4>1
            <4>3. n # 0 => h[n - 1] = g[n - 1]
                BY <4>2
            <4>4. g[n] = IF n = 0 THEN roots ELSE Step(n, g[n - 1])
                BY <2>1, <4>1
            <4> HIDE DEF h, Is
            <4> QED
                BY <4>1, <4>3, <4>4
        <3> QED
            BY <3>1, <3>2
    <2>3. Is(h, m + 1)
        BY <2>2
    <2> HIDE DEF Is, h
    <2> QED
        BY <2>3
<1>5. Len(CollSeq) \in T
    <2> HIDE DEF T
    <2> QED
        BY <1>3, <1>4, Induction
<1>6. Is(after, Len(CollSeq))
    <2> HIDE DEF Is
    <2> QED
        BY <1>5
<1>7. after[0] = roots /\ \A n \in 1..Len(CollSeq) : after[n] = Step(n, after[n - 1])
    <2>1. Len(CollSeq) \in Nat
        BY <1>5
    <2>2. \A n \in 0..Len(CollSeq) : after[n] = IF n = 0 THEN roots ELSE Step(n, after[n - 1])
        <3> HIDE DEF after
        <3> QED
            BY <1>6
    <2> HIDE DEF after, Is, T
    <2>3. 0 \in 0..Len(CollSeq) /\ \A n \in 1..Len(CollSeq) : n \in 0..Len(CollSeq) /\ n # 0
        BY <2>1
    <2> QED
        BY <2>2, <2>3
<1> QED
    <2> HIDE DEF after, Is, T
    <2> QED
        BY <1>1, <1>2, <1>7 DEF RootsRun

-----------------------------------------------------------------------------
(* Registries *)

\* The collections and paths that migrations create indexes for, and these
\* indexes, by the names that index_name_for gives them.
Created ==
    {x \in Coll \X Path :
        \E f \in File : \E n \in DOMAIN Migration[f] :
            /\ Migration[f][n].kind = "index"
            /\ Migration[f][n].coll = x[1] /\ Migration[f][n].path = x[2]}

Index == {IndexDef(IndexName(x[1], x[2]), x[2]) : x \in Created}

CollectionSchema == [key : Seq(Path), indexes : Seq(Index)]

Registry == UNION {[D -> CollectionSchema] : D \in SUBSET Coll}

\* Every index is in the collection that its name begins with.
Owned(reg) ==
    \A c \in DOMAIN reg : \A i \in DOMAIN reg[c].indexes : Base[reg[c].indexes[i].name[1]] = c

\* No collection goes away and none gets another primary key.
KeysKept(old, new) ==
    DOMAIN old \subseteq DOMAIN new /\ \A c \in DOMAIN old : new[c].key = old[c].key

\* The names of the collection c with the schema r are read back as they are.
PlainIn(c, r) ==
    /\ Len(Words[c]) = 1
    /\ \A i \in DOMAIN r.key : Len(Words[r.key[i]]) = 1
    /\ \A i \in DOMAIN r.indexes :
        /\ Base[r.indexes[i].name[1]] = c
        /\ Len(Words[r.indexes[i].name[1]]) = 1 /\ Len(Words[r.indexes[i].path]) = 1

PlainRegistry(reg) == \A c \in DOMAIN reg : PlainIn(c, reg[c])

\* No collection has a name of several words, of which parse would keep the first.
Whole == \A c \in Coll : Len(Words[c]) =< 1

Line ==
    [dir : {"COLLECTION"}, name : Coll] \cup [dir : {"KEY"}, path : Path]
    \cup [dir : {"INDEX"}, name : {i.name : i \in Index}, path : Path]

\* BTreeMap::insert.
LEMMA WithFacts ==
    ASSUME NEW f, NEW x, NEW y
    PROVE  /\ DOMAIN With(f, x, y) = DOMAIN f \cup {x}
           /\ With(f, x, y)[x] = y
           /\ \A z \in DOMAIN f : z # x => With(f, x, y)[z] = f[z]
    BY DEF With

\* Of two insertions under one key the second is kept.
LEMMA WithTwice ==
    ASSUME NEW f, NEW x, NEW y, NEW z
    PROVE  With(With(f, x, y), x, z) = With(f, x, z)
    BY DEF With

\* What a member of Index is.
LEMMA IndexFacts ==
    ASSUME NEW i \in Index
    PROVE  \E c \in Coll, p \in Path : i = IndexDef(IndexName(c, p), p) /\ i.name[1] = c /\ i.path = p
<1>1. PICK x \in Created : i = IndexDef(IndexName(x[1], x[2]), x[2])
    BY DEF Index
<1>2. x[1] \in Coll /\ x[2] \in Path
    BY DEF Created
<1> QED
    BY <1>1, <1>2 DEF IndexDef, IndexName

\* A registry is a function from collections to their schemas.
LEMMA RegistryFacts ==
    ASSUME NEW reg \in Registry
    PROVE  /\ DOMAIN reg \subseteq Coll
           /\ \A c \in DOMAIN reg : reg[c] \in CollectionSchema
           /\ reg = [c \in DOMAIN reg |-> reg[c]]
    BY DEF Registry

\* A function from collections to their schemas is a registry.
LEMMA IsRegistry ==
    ASSUME NEW reg, DOMAIN reg \subseteq Coll, reg = [c \in DOMAIN reg |-> reg[c]],
           \A c \in DOMAIN reg : reg[c] \in CollectionSchema
    PROVE  reg \in Registry
    BY DEF Registry

\* Inserting a collection into a registry gives a registry.
LEMMA WithRegistry ==
    ASSUME NEW reg \in Registry, NEW c \in Coll, NEW r \in CollectionSchema
    PROVE  With(reg, c, r) \in Registry
<1>1. /\ DOMAIN With(reg, c, r) \subseteq Coll
      /\ \A d \in DOMAIN With(reg, c, r) : With(reg, c, r)[d] \in CollectionSchema
    <2>1. /\ DOMAIN With(reg, c, r) = DOMAIN reg \cup {c} /\ With(reg, c, r)[c] = r
          /\ \A d \in DOMAIN reg : d # c => With(reg, c, r)[d] = reg[d]
        BY DEF With
    <2>2. DOMAIN reg \subseteq Coll /\ \A d \in DOMAIN reg : reg[d] \in CollectionSchema
        BY RegistryFacts
    <2> QED
        BY <2>1, <2>2
<1>2. With(reg, c, r) = [d \in DOMAIN With(reg, c, r) |-> With(reg, c, r)[d]]
    BY DEF With
<1> QED
    BY <1>1, <1>2, IsRegistry

\* The empty registry is one.
LEMMA NoFunRegistry == NoFun \in Registry /\ DOMAIN NoFun = {}
    BY DEF NoFun, Registry

\* The schema of a collection has the key and the indexes it was made of.
LEMMA CollectionFacts ==
    ASSUME NEW key \in Seq(Path), NEW idx \in Seq(Index)
    PROVE  /\ Collection(key, idx) \in CollectionSchema
           /\ Collection(key, idx).key = key /\ Collection(key, idx).indexes = idx
    BY DEF Collection, CollectionSchema

\* The schema of a collection is made of its key and its indexes.
LEMMA SchemaFacts ==
    ASSUME NEW r \in CollectionSchema
    PROVE  /\ r.key \in Seq(Path) /\ r.indexes \in Seq(Index)
           /\ r = Collection(r.key, r.indexes)
    BY DEF Collection, CollectionSchema

\* A key and a list of indexes may be empty.
LEMMA EmptySeqs == <<>> \in Seq(Path) /\ <<>> \in Seq(Index)
    OBVIOUS

-----------------------------------------------------------------------------
(* schema.state is read back *)

\* Reading one file after another is reading the two together.
LEMMA ParseConcat ==
    ASSUME NEW p, NEW S, NEW a \in Seq(S), NEW b \in Seq(S)
    PROVE  Parse(p, a \o b) = Parse(Parse(p, a), b)
<1> DEFINE ab == a \o b
<1>1. /\ ab \in Seq(S) /\ Len(ab) = Len(a) + Len(b)
      /\ Len(a) \in Nat /\ Len(b) \in Nat /\ Len(ab) \in Nat
      /\ \A n \in 1..Len(a) : ab[n] = a[n]
      /\ \A n \in 1..Len(b) : ab[Len(a) + n] = b[n]
    OBVIOUS
<1> HIDE DEF ab
<1>2. PICK f : ParseRun(f, p, ab) /\ Parse(p, ab) = f[Len(ab)]
    BY <1>1, ParseHasRun
<1>3. PICK g : ParseRun(g, p, a) /\ Parse(p, a) = g[Len(a)]
    BY <1>1, ParseHasRun
<1>4. PICK h : ParseRun(h, g[Len(a)], b) /\ Parse(g[Len(a)], b) = h[Len(b)]
    BY <1>1, ParseHasRun
<1> DEFINE T == {n \in Nat : n =< Len(a) => f[n] = g[n]}
           U == {n \in Nat : n =< Len(b) => f[Len(a) + n] = h[n]}
<1>5. Nat \subseteq T
    <2>1. 0 \in T
        BY <1>2, <1>3 DEF ParseRun
    <2>2. ASSUME NEW n \in Nat, n \in T PROVE n + 1 \in T
        <3>1. SUFFICES ASSUME n + 1 =< Len(a) PROVE f[n + 1] = g[n + 1]
            OBVIOUS
        <3>2. n + 1 \in 1..Len(a) /\ n + 1 \in 1..Len(ab) /\ (n + 1) - 1 = n
            BY <1>1, <3>1
        <3>3. f[n + 1] = ParseLine(f[n], ab[n + 1]) /\ g[n + 1] = ParseLine(g[n], a[n + 1])
            BY <1>2, <1>3, <3>2 DEF ParseRun
        <3>4. f[n] = g[n] /\ ab[n + 1] = a[n + 1]
            BY <1>1, <2>2, <3>1, <3>2
        <3> QED
            BY <3>3, <3>4
    <2> HIDE DEF T
    <2> QED
        BY <2>1, <2>2, Induction
<1>6. Nat \subseteq U
    <2>1. 0 \in U
        <3>1. f[Len(a)] = g[Len(a)] /\ Len(a) + 0 = Len(a)
            BY <1>1, <1>5
        <3>2. h[0] = g[Len(a)]
            BY <1>4 DEF ParseRun
        <3> QED
            BY <3>1, <3>2
    <2>2. ASSUME NEW n \in Nat, n \in U PROVE n + 1 \in U
        <3>1. SUFFICES ASSUME n + 1 =< Len(b) PROVE f[Len(a) + (n + 1)] = h[n + 1]
            OBVIOUS
        <3>2. /\ n + 1 \in 1..Len(b) /\ Len(a) + (n + 1) \in 1..Len(ab) /\ (n + 1) - 1 = n
              /\ (Len(a) + (n + 1)) - 1 = Len(a) + n
            BY <1>1, <3>1
        <3>3. f[Len(a) + (n + 1)] = ParseLine(f[Len(a) + n], ab[Len(a) + (n + 1)])
            BY <1>2, <3>2 DEF ParseRun
        <3>4. h[n + 1] = ParseLine(h[n], b[n + 1])
            BY <1>4, <3>2 DEF ParseRun
        <3>5. f[Len(a) + n] = h[n] /\ ab[Len(a) + (n + 1)] = b[n + 1]
            BY <1>1, <2>2, <3>1, <3>2
        <3> QED
            BY <3>3, <3>4, <3>5
    <2> HIDE DEF U
    <2> QED
        BY <2>1, <2>2, Induction
<1>7. f[Len(a) + Len(b)] = h[Len(b)]
    BY <1>1, <1>6
<1> QED
    BY <1>1, <1>2, <1>3, <1>4, <1>7 DEF ab

\* Parsing no line changes nothing.
LEMMA ParseNothing == ASSUME NEW p PROVE Parse(p, <<>>) = p
<1>1. Len(<<>>) = 0 /\ Len(<<>>) \in Nat
    OBVIOUS
<1>2. PICK f : ParseRun(f, p, <<>>) /\ Parse(p, <<>>) = f[Len(<<>>)]
    BY <1>1, ParseHasRun
<1> QED
    BY <1>1, <1>2 DEF ParseRun

\* The three kinds of lines.
LEMMA ParseCollectionLine ==
    ASSUME NEW p, NEW c
    PROVE  ParseLine(p, [dir |-> "COLLECTION", name |-> c])
           = [reg |-> With(p.reg, Words[c][1], Collection(<<>>, <<>>)), current |-> Words[c][1]]
    BY DEF ParseLine

\* A KEY line appends to the key of the collection it follows.
LEMMA ParseKeyLine ==
    ASSUME NEW reg, NEW c, NEW key, NEW path
    PROVE  ParseLine([reg |-> With(reg, c, Collection(key, <<>>)), current |-> c],
                     [dir |-> "KEY", path |-> path])
           = [reg |-> With(reg, c, Collection(Append(key, path), <<>>)), current |-> c]
<1> DEFINE q == With(reg, c, Collection(key, <<>>))
           p == [reg |-> q, current |-> c]
<1>1. ParseLine(p, [dir |-> "KEY", path |-> path]) = [p EXCEPT !.reg[p.current].key = Append(@, path)]
    BY DEF ParseLine
<1>2. q[c] = Collection(key, <<>>)
    BY DEF With
<1>3. [q EXCEPT ![c].key = Append(@, path)] = [q EXCEPT ![c] = [q[c] EXCEPT !.key = Append(@, path)]]
    OBVIOUS
<1>4. [q EXCEPT ![c] = Collection(Append(key, path), <<>>)]
      = With(reg, c, Collection(Append(key, path), <<>>))
    BY DEF With
<1> HIDE DEF q
<1>5. [p EXCEPT !.reg[p.current].key = Append(@, path)]
      = [reg |-> [q EXCEPT ![c].key = Append(@, path)], current |-> c]
    OBVIOUS
<1>6. [q[c] EXCEPT !.key = Append(@, path)] = Collection(Append(key, path), <<>>)
    BY <1>2, SMTT(30) DEF Collection
<1> QED
    BY <1>1, <1>3, <1>4, <1>5, <1>6 DEF q

\* The collection that an INDEX line is added to.
Found(reg, c) == IF c \in DOMAIN reg THEN reg[c] ELSE Collection(<<>>, <<>>)

Plus(r, i) == [r EXCEPT !.indexes = Append(@, i)]

\* One more index leaves the key of a collection as it is.
LEMMA PlusFacts ==
    ASSUME NEW r \in CollectionSchema, NEW i \in Index
    PROVE  Plus(r, i) \in CollectionSchema /\ Plus(r, i).key = r.key /\ Plus(r, i).indexes = Append(r.indexes, i)
<1>1. r.indexes \in Seq(Index) /\ Append(r.indexes, i) \in Seq(Index)
    BY SchemaFacts
<1> QED
    BY <1>1 DEF Plus, CollectionSchema

\* One more index at the end of the list of indexes.
LEMMA PlusCollection ==
    ASSUME NEW key, NEW s, NEW i
    PROVE  Plus(Collection(key, s), i) = Collection(key, Append(s, i))
    BY DEF Plus, Collection

\* An INDEX line appends to the indexes of the collection that its name begins with.
LEMMA ParseIndexLine ==
    ASSUME NEW reg, NEW cur, NEW name, NEW path
    PROVE  ParseLine([reg |-> reg, current |-> cur], [dir |-> "INDEX", name |-> name, path |-> path])
           = [reg |-> With(reg, Base[name[1]], Plus(Found(reg, Base[name[1]]), IndexDef(name, path))),
              current |-> cur]
    BY DEF ParseLine, Found, Plus

\* The prefixes of a sequence, and how one grows into the next.
LEMMA Prefix ==
    ASSUME NEW S, NEW s \in Seq(S)
    PROVE  /\ SubSeq(s, 1, 0) = <<>> /\ SubSeq(s, 1, Len(s)) = s
           /\ \A n \in 0..Len(s) : SubSeq(s, 1, n) \in Seq(S)
           /\ \A n \in Nat : n + 1 =< Len(s) => SubSeq(s, 1, n + 1) = Append(SubSeq(s, 1, n), s[n + 1])
    OBVIOUS

KeyLines(key)   == [i \in DOMAIN key |-> [dir |-> "KEY", path |-> key[i]]]
IndexLines(idx) == [i \in DOMAIN idx |-> [dir |-> "INDEX", name |-> idx[i].name, path |-> idx[i].path]]

\* They are lines of schema.state.
LEMMA KeyLinesFacts ==
    ASSUME NEW key \in Seq(Path)
    PROVE  KeyLines(key) \in Seq(Line) /\ Len(KeyLines(key)) = Len(key) /\ Len(key) \in Nat
<1>1. DOMAIN key = 1..Len(key) /\ Len(key) \in Nat
    OBVIOUS
<1>2. \A i \in DOMAIN key : [dir |-> "KEY", path |-> key[i]] \in Line
    BY DEF Line
<1> HIDE DEF Line
<1> QED
    BY <1>1, <1>2 DEF KeyLines

\* And so are these.
LEMMA IndexLinesFacts ==
    ASSUME NEW idx \in Seq(Index)
    PROVE  IndexLines(idx) \in Seq(Line) /\ Len(IndexLines(idx)) = Len(idx) /\ Len(idx) \in Nat
<1>1. DOMAIN idx = 1..Len(idx) /\ Len(idx) \in Nat
    OBVIOUS
<1>2. \A i \in DOMAIN idx : [dir |-> "INDEX", name |-> idx[i].name, path |-> idx[i].path] \in Line
    <2>1. ASSUME NEW i \in DOMAIN idx PROVE idx[i] \in Index /\ idx[i].path \in Path
        BY IndexFacts
    <2> QED
        BY <2>1 DEF Line
<1> HIDE DEF Line
<1> QED
    BY <1>1, <1>2 DEF IndexLines

\* The KEY lines of a collection are read back.
LEMMA ParseKeys ==
    ASSUME NEW reg, NEW c, NEW key \in Seq(Path)
    PROVE  Parse([reg |-> With(reg, c, Collection(<<>>, <<>>)), current |-> c], KeyLines(key))
           = [reg |-> With(reg, c, Collection(key, <<>>)), current |-> c]
<1> DEFINE At(k) == [reg |-> With(reg, c, Collection(k, <<>>)), current |-> c]
<1>1. Len(KeyLines(key)) = Len(key) /\ Len(key) \in Nat
    BY KeyLinesFacts
<1>2. \A k, path : ParseLine(At(k), [dir |-> "KEY", path |-> path]) = At(Append(k, path))
    BY ParseKeyLine
<1> HIDE DEF At
<1>3. PICK f : ParseRun(f, At(<<>>), KeyLines(key)) /\ Parse(At(<<>>), KeyLines(key)) = f[Len(key)]
    BY <1>1, ParseHasRun
<1> DEFINE T == {n \in Nat : n =< Len(key) => f[n] = At(SubSeq(key, 1, n))}
<1>4. 0 \in T
    BY <1>3, Prefix DEF ParseRun
<1>5. ASSUME NEW n \in Nat, n \in T PROVE n + 1 \in T
    <2>1. SUFFICES ASSUME n + 1 =< Len(key) PROVE f[n + 1] = At(SubSeq(key, 1, n + 1))
        OBVIOUS
    <2>2. n + 1 \in 1..Len(KeyLines(key)) /\ (n + 1) - 1 = n /\ n + 1 \in DOMAIN key
        BY <1>1, <2>1
    <2>3. f[n + 1] = ParseLine(f[n], KeyLines(key)[n + 1])
        BY <1>3, <2>2 DEF ParseRun
    <2>4. KeyLines(key)[n + 1] = [dir |-> "KEY", path |-> key[n + 1]]
        BY <2>2 DEF KeyLines
    <2>5. f[n] = At(SubSeq(key, 1, n))
        BY <1>1, <1>5, <2>1
    <2>6. SubSeq(key, 1, n + 1) = Append(SubSeq(key, 1, n), key[n + 1])
        BY <2>1, Prefix
    <2>7. ParseLine(At(SubSeq(key, 1, n)), [dir |-> "KEY", path |-> key[n + 1]])
          = At(Append(SubSeq(key, 1, n), key[n + 1]))
        BY <1>2
    <2> QED
        BY <2>3, <2>4, <2>5, <2>6, <2>7
<1>6. f[Len(key)] = At(key)
    <2>1. Len(key) \in T
        <3> HIDE DEF T
        <3> QED
            BY <1>1, <1>4, <1>5, Induction
    <2>2. SubSeq(key, 1, Len(key)) = key
        BY Prefix
    <2>3. f[Len(key)] = At(SubSeq(key, 1, Len(key)))
        BY <1>1, <2>1
    <2> QED
        BY <2>2, <2>3
<1> QED
    BY <1>3, <1>6 DEF At

\* The INDEX lines of a collection are read back if they go to that collection.
LEMMA ParseOwnIndexes ==
    ASSUME NEW reg, NEW c, NEW key, NEW idx \in Seq(Index),
           \A i \in DOMAIN idx : Base[idx[i].name[1]] = c
    PROVE  Parse([reg |-> With(reg, c, Collection(key, <<>>)), current |-> c], IndexLines(idx))
           = [reg |-> With(reg, c, Collection(key, idx)), current |-> c]
<1> DEFINE At(s) == [reg |-> With(reg, c, Collection(key, s)), current |-> c]
<1>1. Len(IndexLines(idx)) = Len(idx) /\ Len(idx) \in Nat
    BY IndexLinesFacts
<1>2. ASSUME NEW s, NEW i \in DOMAIN idx
      PROVE  ParseLine(At(s), [dir |-> "INDEX", name |-> idx[i].name, path |-> idx[i].path])
             = At(Append(s, idx[i]))
    <2> DEFINE q == With(reg, c, Collection(key, s))
    <2>1. Found(q, c) = Collection(key, s)
        BY DEF Found, With
    <2>2. IndexDef(idx[i].name, idx[i].path) = idx[i]
        <3>1. idx[i] \in Index
            OBVIOUS
        <3> QED
            BY <3>1 DEF Index, IndexDef
    <2>3. With(q, c, Collection(key, Append(s, idx[i]))) = With(reg, c, Collection(key, Append(s, idx[i])))
        BY WithTwice
    <2>4. Base[idx[i].name[1]] = c
        OBVIOUS
    <2> HIDE DEF q
    <2>5. ParseLine([reg |-> q, current |-> c], [dir |-> "INDEX", name |-> idx[i].name, path |-> idx[i].path])
          = [reg |-> With(q, c, Plus(Found(q, c), IndexDef(idx[i].name, idx[i].path))), current |-> c]
        BY <2>4, ParseIndexLine
    <2> QED
        BY <2>1, <2>2, <2>3, <2>5, PlusCollection DEF q
<1> HIDE DEF At
<1>3. PICK f : ParseRun(f, At(<<>>), IndexLines(idx)) /\ Parse(At(<<>>), IndexLines(idx)) = f[Len(idx)]
    BY <1>1, ParseHasRun
<1> DEFINE T == {n \in Nat : n =< Len(idx) => f[n] = At(SubSeq(idx, 1, n))}
<1>4. 0 \in T
    BY <1>3, Prefix DEF ParseRun
<1>5. ASSUME NEW n \in Nat, n \in T PROVE n + 1 \in T
    <2>1. SUFFICES ASSUME n + 1 =< Len(idx) PROVE f[n + 1] = At(SubSeq(idx, 1, n + 1))
        OBVIOUS
    <2>2. n + 1 \in 1..Len(IndexLines(idx)) /\ (n + 1) - 1 = n /\ n + 1 \in DOMAIN idx
        BY <1>1, <2>1
    <2>3. f[n + 1] = ParseLine(f[n], IndexLines(idx)[n + 1])
        BY <1>3, <2>2 DEF ParseRun
    <2>4. IndexLines(idx)[n + 1] = [dir |-> "INDEX", name |-> idx[n + 1].name, path |-> idx[n + 1].path]
        BY <2>2 DEF IndexLines
    <2>5. f[n] = At(SubSeq(idx, 1, n))
        BY <1>1, <1>5, <2>1
    <2>6. SubSeq(idx, 1, n + 1) = Append(SubSeq(idx, 1, n), idx[n + 1])
        BY <2>1, Prefix
    <2>7. ParseLine(At(SubSeq(idx, 1, n)),
                    [dir |-> "INDEX", name |-> idx[n + 1].name, path |-> idx[n + 1].path])
          = At(Append(SubSeq(idx, 1, n), idx[n + 1]))
        BY <1>2, <2>2
    <2> QED
        BY <2>3, <2>4, <2>5, <2>6, <2>7
<1>6. f[Len(idx)] = At(idx)
    <2>1. Len(idx) \in T
        <3> HIDE DEF T
        <3> QED
            BY <1>1, <1>4, <1>5, Induction
    <2>2. SubSeq(idx, 1, Len(idx)) = idx
        BY Prefix
    <2>3. f[Len(idx)] = At(SubSeq(idx, 1, Len(idx)))
        BY <1>1, <2>1
    <2> QED
        BY <2>2, <2>3
<1> QED
    BY <1>3, <1>6 DEF At

\* What parse makes of one INDEX line.
LEMMA AddIndex ==
    ASSUME NEW reg \in Registry, Owned(reg), NEW i \in Index, NEW new,
           new = With(reg, Base[i.name[1]], Plus(Found(reg, Base[i.name[1]]), i))
    PROVE  new \in Registry /\ Owned(new) /\ KeysKept(reg, new)
<1> DEFINE c == Base[i.name[1]]
           old == Found(reg, c)
           r == Plus(old, i)
<1>1. c \in Coll
    BY IndexFacts, SchemaAssumption
<1>2. old \in CollectionSchema
    BY RegistryFacts, CollectionFacts, EmptySeqs DEF Found
<1> HIDE DEF old
<1>3. /\ r \in CollectionSchema /\ r.key = old.key /\ r.indexes = Append(old.indexes, i)
      /\ old.indexes \in Seq(Index)
    BY <1>2, PlusFacts, SchemaFacts
<1>4. new = With(reg, c, r)
    BY DEF old
<1> HIDE DEF c, r
<1>5. /\ DOMAIN new = DOMAIN reg \cup {c} /\ new[c] = r
      /\ \A z \in DOMAIN reg : z # c => new[z] = reg[z]
    BY <1>4 DEF With
<1>6. new \in Registry
    BY <1>1, <1>3, <1>4, WithRegistry
<1>7. ASSUME NEW n \in DOMAIN old.indexes PROVE Base[old.indexes[n].name[1]] = c
    BY <1>7 DEF Owned, old, Found, Collection
<1>8. Owned(new)
    <2>1. SUFFICES ASSUME NEW d \in DOMAIN new, NEW n \in DOMAIN new[d].indexes
                   PROVE  Base[new[d].indexes[n].name[1]] = d
        BY DEF Owned
    <2>2. CASE d # c
        BY <1>5, <2>1, <2>2, ZenonT(30) DEF Owned
    <2>3. CASE d = c
        <3>1. new[d].indexes = Append(old.indexes, i)
            BY <1>3, <1>5, <2>3
        <3>2. \/ n \in DOMAIN old.indexes /\ new[d].indexes[n] = old.indexes[n]
              \/ new[d].indexes[n] = i
            <4>1. n \in DOMAIN Append(old.indexes, i)
                BY <3>1
            <4>2. \/ n \in DOMAIN old.indexes /\ Append(old.indexes, i)[n] = old.indexes[n]
                  \/ Append(old.indexes, i)[n] = i
                BY <1>3, <4>1
            <4> QED
                BY <3>1, <4>2
        <3> QED
            BY <1>7, <2>3, <3>2 DEF c
    <2> QED
        BY <2>2, <2>3
<1>9. KeysKept(reg, new)
    <2>1. c \in DOMAIN reg => r.key = reg[c].key
        BY <1>3 DEF old, Found
    <2> QED
        BY <1>5, <2>1 DEF KeysKept
<1> QED
    BY <1>6, <1>8, <1>9

\* Keeping the keys is transitive.
LEMMA KeysKeptTwice ==
    ASSUME NEW a, NEW b, NEW c, KeysKept(a, b), KeysKept(b, c)
    PROVE  KeysKept(a, c)
    BY DEF KeysKept

\* INDEX lines change no key, wherever they go.
LEMMA ParseAnyIndexes ==
    ASSUME NEW reg \in Registry, Owned(reg), NEW cur, NEW idx \in Seq(Index)
    PROVE  \E new \in Registry :
               /\ Parse([reg |-> reg, current |-> cur], IndexLines(idx)) = [reg |-> new, current |-> cur]
               /\ Owned(new) /\ KeysKept(reg, new)
<1> DEFINE p == [reg |-> reg, current |-> cur]
           Good(x) == \E new \in Registry : x = [reg |-> new, current |-> cur] /\ Owned(new) /\ KeysKept(reg, new)
<1>1. Len(IndexLines(idx)) = Len(idx) /\ Len(idx) \in Nat
    BY IndexLinesFacts
<1>2. Good(p)
    BY DEF KeysKept
<1>3. ASSUME NEW x, Good(x), NEW i \in Index
      PROVE  Good(ParseLine(x, [dir |-> "INDEX", name |-> i.name, path |-> i.path]))
    <2>1. PICK m \in Registry : x = [reg |-> m, current |-> cur] /\ Owned(m) /\ KeysKept(reg, m)
        BY <1>3
    <2> DEFINE c == Base[i.name[1]]
               new == With(m, c, Plus(Found(m, c), i))
    <2>2. IndexDef(i.name, i.path) = i
        BY DEF Index, IndexDef
    <2>3. ParseLine([reg |-> m, current |-> cur], [dir |-> "INDEX", name |-> i.name, path |-> i.path])
          = [reg |-> new, current |-> cur]
        BY <2>2, ParseIndexLine
    <2>4. new \in Registry /\ Owned(new) /\ KeysKept(m, new)
        BY <2>1, AddIndex
    <2> HIDE DEF new
    <2>5. KeysKept(reg, new)
        BY <2>1, <2>4, KeysKeptTwice
    <2> QED
        BY <2>1, <2>3, <2>4, <2>5
<1> HIDE DEF p, Good
<1>4. PICK f : ParseRun(f, p, IndexLines(idx)) /\ Parse(p, IndexLines(idx)) = f[Len(idx)]
    BY <1>1, ParseHasRun
<1> DEFINE T == {n \in Nat : n =< Len(idx) => Good(f[n])}
<1>5. 0 \in T
    BY <1>2, <1>4 DEF ParseRun
<1>6. ASSUME NEW n \in Nat, n \in T PROVE n + 1 \in T
    <2>1. SUFFICES ASSUME n + 1 =< Len(idx) PROVE Good(f[n + 1])
        OBVIOUS
    <2>2. n + 1 \in 1..Len(IndexLines(idx)) /\ (n + 1) - 1 = n /\ n + 1 \in DOMAIN idx
        BY <1>1, <2>1
    <2>3. f[n + 1] = ParseLine(f[n], IndexLines(idx)[n + 1])
        BY <1>4, <2>2 DEF ParseRun
    <2>4. IndexLines(idx)[n + 1] = [dir |-> "INDEX", name |-> idx[n + 1].name, path |-> idx[n + 1].path]
        BY <2>2 DEF IndexLines
    <2>5. Good(f[n]) /\ idx[n + 1] \in Index
        BY <1>1, <1>6, <2>1, <2>2
    <2>6. Good(ParseLine(f[n], [dir |-> "INDEX", name |-> idx[n + 1].name, path |-> idx[n + 1].path]))
        BY <1>3, <2>5
    <2> QED
        BY <2>3, <2>4, <2>6
<1>7. Good(f[Len(idx)])
    <2>1. Len(idx) \in T
        <3> HIDE DEF T
        <3> QED
            BY <1>1, <1>5, <1>6, Induction
    <2> QED
        BY <1>1, <2>1
<1> QED
    BY <1>4, <1>7 DEF Good, p

\* Parsing one line.
LEMMA ParseOne == ASSUME NEW p, NEW x PROVE Parse(p, <<x>>) = ParseLine(p, x)
<1>1. Len(<<x>>) = 1 /\ Len(<<x>>) \in Nat /\ <<x>>[1] = x
    OBVIOUS
<1>2. PICK f : ParseRun(f, p, <<x>>) /\ Parse(p, <<x>>) = f[Len(<<x>>)]
    BY <1>1, ParseHasRun
<1>3. f[0] = p /\ f[1] = ParseLine(f[0], x)
    <2>1. 1 \in 1..Len(<<x>>) /\ 1 - 1 = 0
        BY <1>1
    <2> QED
        BY <1>1, <1>2, <2>1 DEF ParseRun
<1> QED
    BY <1>1, <1>2, <1>3

\* The lines of one collection, up to its indexes.
LEMMA ParseBlock ==
    ASSUME NEW reg \in Registry, NEW c \in DOMAIN reg, NEW p
    PROVE  /\ CollectionLines(c, reg) \in Seq(Line)
           /\ Parse(p, CollectionLines(c, reg))
              = Parse([reg |-> With(p.reg, Words[c][1], Collection(reg[c].key, <<>>)), current |-> Words[c][1]],
                      IndexLines(reg[c].indexes))
<1> DEFINE d == Words[c][1]
           x == [dir |-> "COLLECTION", name |-> c]
           K == KeyLines(reg[c].key)
           I == IndexLines(reg[c].indexes)
<1>1. CollectionLines(c, reg) = (<<x>> \o K) \o I
    BY DEF CollectionLines, KeyLines, IndexLines
<1>2. c \in Coll /\ reg[c].key \in Seq(Path) /\ reg[c].indexes \in Seq(Index)
    <2>1. c \in Coll /\ reg[c] \in CollectionSchema
        BY RegistryFacts
    <2> QED
        BY <2>1, SchemaFacts
<1>3. K \in Seq(Line) /\ I \in Seq(Line)
    BY <1>2, KeyLinesFacts, IndexLinesFacts
<1>4. x \in Line
    BY <1>2 DEF Line
<1>5. ParseLine(p, x) = [reg |-> With(p.reg, d, Collection(<<>>, <<>>)), current |-> d]
    BY ParseCollectionLine
<1>6. Parse(ParseLine(p, x), K) = [reg |-> With(p.reg, d, Collection(reg[c].key, <<>>)), current |-> d]
    <2> HIDE DEF d
    <2>1. Parse([reg |-> With(p.reg, d, Collection(<<>>, <<>>)), current |-> d], K)
          = [reg |-> With(p.reg, d, Collection(reg[c].key, <<>>)), current |-> d]
        BY <1>2, ParseKeys
    <2> QED
        BY <1>5, <2>1
<1> DEFINE xs == <<x>>
           xk == xs \o K
<1>7. xs \in Seq(Line) /\ Parse(p, xs) = ParseLine(p, x)
    BY <1>4, ParseOne
<1> HIDE DEF x, K, I, xs
<1>8. Parse(p, xk) = Parse(Parse(p, xs), K)
    BY <1>3, <1>7, ParseConcat
<1>9. xk \in Seq(Line)
    BY <1>3, <1>7
<1> HIDE DEF xk
<1>10. Parse(p, xk \o I) = Parse(Parse(p, xk), I)
    BY <1>3, <1>9, ParseConcat
<1>11. CollectionLines(c, reg) = xk \o I
    BY <1>1 DEF xk, xs
<1>12. xk \o I \in Seq(Line)
    BY <1>3, <1>9
<1> QED
    BY <1>6, <1>7, <1>8, <1>10, <1>11, <1>12 DEF I

\* The lines of one collection are read back as that collection.
LEMMA ParseOwnBlock ==
    ASSUME NEW reg \in Registry, NEW c \in DOMAIN reg, PlainIn(c, reg[c]), NEW p
    PROVE  Parse(p, CollectionLines(c, reg)).reg = With(p.reg, c, reg[c])
<1>1. /\ reg[c] = Collection(reg[c].key, reg[c].indexes)
      /\ reg[c].indexes \in Seq(Index)
    <2>1. reg[c] \in CollectionSchema
        BY RegistryFacts
    <2> QED
        BY <2>1, SchemaFacts
<1>2. \A i \in DOMAIN reg[c].indexes : Base[reg[c].indexes[i].name[1]] = c
    BY DEF PlainIn
<1>3. Parse([reg |-> With(p.reg, c, Collection(reg[c].key, <<>>)), current |-> c], IndexLines(reg[c].indexes))
      = [reg |-> With(p.reg, c, Collection(reg[c].key, reg[c].indexes)), current |-> c]
    BY <1>1, <1>2, ParseOwnIndexes
<1>4. Parse(p, CollectionLines(c, reg))
      = Parse([reg |-> With(p.reg, c, Collection(reg[c].key, <<>>)), current |-> c], IndexLines(reg[c].indexes))
    <2>1. Words[c][1] = c
        <3>1. c \in Coll /\ Len(Words[c]) = 1
            BY RegistryFacts DEF PlainIn
        <3>2. Words[c] = <<c>>
            BY <3>1, SchemaAssumption
        <3> QED
            BY <3>2
    <2> QED
        BY <2>1, ParseBlock
<1> QED
    BY <1>1, <1>3, <1>4

\* What the lines of one collection do to the others, wherever its indexes go.
LEMMA ParseAnyBlock ==
    ASSUME NEW reg \in Registry, NEW c \in DOMAIN reg, NEW p, p.reg \in Registry, Owned(p.reg),
           NEW q, q = Parse(p, CollectionLines(c, reg)).reg,
           Words[c] # <<>>, NEW d, d = Words[c][1]
    PROVE  /\ q \in Registry /\ Owned(q)
           /\ d \in DOMAIN q /\ q[d].key = reg[c].key
           /\ \A e \in DOMAIN p.reg : e # d => e \in DOMAIN q /\ q[e].key = p.reg[e].key
<1> DEFINE m == With(p.reg, d, Collection(reg[c].key, <<>>))
<1>1. c \in Coll /\ d \in Coll /\ reg[c].key \in Seq(Path) /\ reg[c].indexes \in Seq(Index)
    <2>1. c \in Coll /\ reg[c] \in CollectionSchema
        BY RegistryFacts
    <2>2. d \in Coll
        BY <2>1, SchemaAssumption
    <2> QED
        BY <2>1, <2>2, SchemaFacts
<1>2. m \in Registry
    <2>1. Collection(reg[c].key, <<>>) \in CollectionSchema
        BY <1>1, CollectionFacts, EmptySeqs
    <2> QED
        BY <1>1, <2>1, WithRegistry
<1>3. /\ DOMAIN m = DOMAIN p.reg \cup {d} /\ m[d] = Collection(reg[c].key, <<>>)
      /\ \A e \in DOMAIN p.reg : e # d => m[e] = p.reg[e]
    BY DEF With
<1> HIDE DEF m
<1>4. m[d].key = reg[c].key /\ m[d].indexes = <<>>
    BY <1>3 DEF Collection
<1>5. Owned(m)
    <2>1. SUFFICES ASSUME NEW e \in DOMAIN m, NEW n \in DOMAIN m[e].indexes
                   PROVE  Base[m[e].indexes[n].name[1]] = e
        BY DEF Owned
    <2>2. CASE e # d
        BY <1>3, <2>1, <2>2 DEF Owned
    <2>3. CASE e = d
        BY <1>4, <2>1, <2>3
    <2> QED
        BY <2>2, <2>3
<1>6. PICK new \in Registry :
        /\ Parse([reg |-> m, current |-> d], IndexLines(reg[c].indexes)) = [reg |-> new, current |-> d]
        /\ Owned(new) /\ KeysKept(m, new)
    BY <1>1, <1>2, <1>5, ParseAnyIndexes
<1>7. q = new
    <2>1. Parse(p, CollectionLines(c, reg)) = Parse([reg |-> m, current |-> d], IndexLines(reg[c].indexes))
        BY ParseBlock DEF m
    <2> QED
        BY <1>6, <2>1
<1> QED
    BY <1>3, <1>4, <1>6, <1>7 DEF KeysKept

\* A file is accepted if and only if its parts are.
LEMMA LoadsConcat ==
    ASSUME NEW S, NEW a \in Seq(S), NEW b \in Seq(S)
    PROVE  Loads(a \o b) <=> Loads(a) /\ Loads(b)
<1> DEFINE ab == a \o b
<1>1. /\ Len(a) \in Nat /\ Len(b) \in Nat
      /\ DOMAIN a = 1..Len(a) /\ DOMAIN b = 1..Len(b) /\ DOMAIN ab = 1..(Len(a) + Len(b))
      /\ \A n \in 1..Len(a) : ab[n] = a[n]
      /\ \A n \in 1..Len(b) : ab[Len(a) + n] = b[n]
    OBVIOUS
<1> HIDE DEF ab
<1>2. \A n \in DOMAIN ab : n \in DOMAIN a \/ (n - Len(a) \in DOMAIN b /\ n = Len(a) + (n - Len(a)))
    BY <1>1
<1>3. /\ \A n \in DOMAIN a : n \in DOMAIN ab
      /\ \A n \in DOMAIN b : Len(a) + n \in DOMAIN ab
    BY <1>1
<1>4. ASSUME Loads(ab) PROVE Loads(a) /\ Loads(b)
    <2>1. ASSUME NEW n \in DOMAIN a PROVE Accepts(a[n])
        <3>1. Accepts(ab[n]) /\ ab[n] = a[n]
            BY <1>1, <1>3, <1>4 DEF Loads
        <3> QED
            BY <3>1
    <2>2. ASSUME NEW n \in DOMAIN b PROVE Accepts(b[n])
        <3>1. Accepts(ab[Len(a) + n]) /\ ab[Len(a) + n] = b[n]
            BY <1>1, <1>3, <1>4 DEF Loads
        <3> QED
            BY <3>1
    <2> QED
        BY <2>1, <2>2 DEF Loads
<1>5. ASSUME Loads(a), Loads(b) PROVE Loads(ab)
    <2> SUFFICES ASSUME NEW n \in DOMAIN ab PROVE Accepts(ab[n])
        BY DEF Loads
    <2>1. CASE n \in DOMAIN a
        <3>1. Accepts(a[n]) /\ ab[n] = a[n]
            BY <1>1, <1>5, <2>1 DEF Loads
        <3> QED
            BY <3>1
    <2>2. CASE n - Len(a) \in DOMAIN b /\ n = Len(a) + (n - Len(a))
        <3>1. Accepts(b[n - Len(a)]) /\ ab[n] = b[n - Len(a)]
            BY <1>1, <1>5, <2>2 DEF Loads
        <3> QED
            BY <3>1
    <2> QED
        BY <1>2, <2>1, <2>2
<1> QED
    BY <1>4, <1>5 DEF ab

\* The lines of a collection are accepted only if its name has a first word, and
\* if its names are plain.
LEMMA LoadsBlock ==
    ASSUME NEW reg \in Registry, NEW c \in DOMAIN reg
    PROVE  /\ Loads(CollectionLines(c, reg)) => Words[c] # <<>>
           /\ PlainIn(c, reg[c]) => Loads(CollectionLines(c, reg))
<1> DEFINE x == [dir |-> "COLLECTION", name |-> c]
           K == KeyLines(reg[c].key)
           I == IndexLines(reg[c].indexes)
           xs == <<x>>
           xk == xs \o K
<1>1. CollectionLines(c, reg) = xk \o I
    BY DEF CollectionLines, KeyLines, IndexLines
<1>2. c \in Coll /\ reg[c].key \in Seq(Path) /\ reg[c].indexes \in Seq(Index)
    <2>1. c \in Coll /\ reg[c] \in CollectionSchema
        BY RegistryFacts
    <2> QED
        BY <2>1, SchemaFacts
<1>3. K \in Seq(Line) /\ I \in Seq(Line)
    BY <1>2, KeyLinesFacts, IndexLinesFacts
<1>4. xs \in Seq(Line)
    <2>1. x \in Line
        BY <1>2 DEF Line
    <2> HIDE DEF x
    <2> QED
        BY <2>1
<1>5. Loads(xs) <=> Words[c] # <<>>
    <2>1. DOMAIN xs = {1} /\ xs[1] = x
        OBVIOUS
    <2>2. Accepts(x) <=> Words[c] # <<>>
        BY DEF Accepts
    <2> HIDE DEF x, xs
    <2> QED
        BY <2>1, <2>2 DEF Loads
<1>6. ASSUME PlainIn(c, reg[c]) PROVE Loads(xs) /\ Loads(K) /\ Loads(I)
    <2>1. Words[c] # <<>>
        <3>1. Len(Words[c]) = 1
            BY <1>6 DEF PlainIn
        <3>2. Len(<<>>) = 0
            OBVIOUS
        <3> QED
            BY <3>1, <3>2
    <2>2. ASSUME NEW n \in DOMAIN K PROVE Accepts(K[n])
        <3>1. n \in DOMAIN reg[c].key /\ K[n] = [dir |-> "KEY", path |-> reg[c].key[n]]
            BY DEF KeyLines
        <3>2. Len(Words[reg[c].key[n]]) = 1
            BY <1>6, <3>1 DEF PlainIn
        <3> HIDE DEF K
        <3> QED
            BY <3>1, <3>2 DEF Accepts
    <2>3. ASSUME NEW n \in DOMAIN I PROVE Accepts(I[n])
        <3> DEFINE i == reg[c].indexes[n]
        <3>1. n \in DOMAIN reg[c].indexes /\ I[n] = [dir |-> "INDEX", name |-> i.name, path |-> i.path]
            BY DEF IndexLines
        <3>2. Len(Words[i.name[1]]) = 1 /\ Len(Words[i.path]) = 1
            BY <1>6, <3>1 DEF PlainIn
        <3> HIDE DEF I, i
        <3>3. I[n].dir = "INDEX" /\ I[n].name[1] = i.name[1] /\ I[n].path = i.path
            BY <3>1
        <3>4. Len(Words[I[n].name[1]]) = 1 /\ Len(Words[I[n].path]) = 1
            BY <3>2, <3>3, Zenon
        <3>5. \A len : len = 1 => len =< 1
            OBVIOUS
        <3>6. Len(Words[I[n].name[1]]) =< 1
            BY <3>4, <3>5, Zenon
        <3> QED
            BY <3>3, <3>4, <3>6 DEF Accepts
    <2> HIDE DEF K, I, xs
    <2> QED
        BY <1>5, <2>1, <2>2, <2>3 DEF Loads
<1> HIDE DEF x, K, I, xs
<1>7. xk \in Seq(Line) /\ (Loads(xk) <=> Loads(xs) /\ Loads(K))
    BY <1>3, <1>4, LoadsConcat
<1> HIDE DEF xk
<1>8. Loads(xk \o I) <=> Loads(xk) /\ Loads(I)
    BY <1>3, <1>7, LoadsConcat
<1> QED
    BY <1>1, <1>5, <1>6, <1>7, <1>8

Start == [reg |-> NoFun, current |-> None]

\* The collections whose lines are among the first n blocks of schema.state.
Written(reg, n) == {c \in DOMAIN reg : \E i \in 1..n : CollSeq[i] = c}

\* schema.state is accepted if and only if the lines of every collection are.
LEMMA LoadsBlocks ==
    ASSUME NEW reg \in Registry
    PROVE  Loads(ToStateFile(reg)) <=> \A n \in 1..Len(CollSeq) : Loads(CollectionLines(CollSeq[n], reg))
<1>1. Len(CollSeq) \in Nat
    BY SchemaAssumption
<1>2. PICK g : OutRun(g, reg) /\ ToStateFile(reg) = g[Len(CollSeq)]
    BY <1>1, OutHasRun
<1> DEFINE B(n) == CollectionLines(CollSeq[n], reg)
           T == {n \in Nat : n =< Len(CollSeq) =>
                    g[n] \in Seq(Line) /\ (Loads(g[n]) <=> \A i \in 1..n : Loads(B(i)))}
<1>3. \A n \in 1..Len(CollSeq) : g[n] = g[n - 1] \o B(n) /\ B(n) \in Seq(Line)
    <2>1. \A n \in 1..Len(CollSeq) : g[n] = g[n - 1] \o B(n)
        BY <1>2 DEF OutRun
    <2>2. ASSUME NEW c, c \in DOMAIN reg PROVE CollectionLines(c, reg) \in Seq(Line)
        BY <2>2, ParseBlock
    <2>3. ASSUME NEW c, c \notin DOMAIN reg PROVE CollectionLines(c, reg) \in Seq(Line)
        BY <2>3 DEF CollectionLines
    <2> QED
        BY <2>1, <2>2, <2>3
<1> HIDE DEF B
<1>4. 0 \in T
    <2>1. g[0] = <<>> /\ <<>> \in Seq(Line)
        BY <1>2 DEF OutRun
    <2>2. Loads(<<>>)
        BY DEF Loads
    <2>3. 1..0 = {}
        OBVIOUS
    <2> QED
        BY <2>1, <2>2, <2>3
<1>5. ASSUME NEW n \in Nat, n \in T PROVE n + 1 \in T
    <2>1. SUFFICES ASSUME n + 1 =< Len(CollSeq)
                   PROVE  g[n + 1] \in Seq(Line) /\ (Loads(g[n + 1]) <=> \A i \in 1..(n + 1) : Loads(B(i)))
        OBVIOUS
    <2>2. n + 1 \in 1..Len(CollSeq) /\ (n + 1) - 1 = n /\ n =< Len(CollSeq)
        BY <1>1, <2>1
    <2>3. g[n] \in Seq(Line) /\ (Loads(g[n]) <=> \A i \in 1..n : Loads(B(i)))
        BY <1>5, <2>2
    <2>4. g[n + 1] = g[n] \o B(n + 1) /\ B(n + 1) \in Seq(Line)
        BY <1>3, <2>2
    <2>5. /\ \A i \in 1..(n + 1) : i \in 1..n \/ i = n + 1
          /\ n + 1 \in 1..(n + 1) /\ \A i \in 1..n : i \in 1..(n + 1)
        OBVIOUS
    <2>6. g[n + 1] \in Seq(Line) /\ (Loads(g[n + 1]) <=> Loads(g[n]) /\ Loads(B(n + 1)))
        <3> DEFINE a == g[n]
                   b == B(n + 1)
        <3>1. a \in Seq(Line) /\ b \in Seq(Line)
            BY <2>3, <2>4
        <3> HIDE DEF a, b
        <3>2. a \o b \in Seq(Line) /\ (Loads(a \o b) <=> Loads(a) /\ Loads(b))
            BY <3>1, LoadsConcat
        <3> QED
            BY <2>4, <3>2 DEF a, b
    <2> QED
        BY <2>3, <2>5, <2>6
<1>6. Len(CollSeq) \in T
    <2> HIDE DEF T
    <2> QED
        BY <1>1, <1>4, <1>5, Induction
<1> QED
    BY <1>1, <1>2, <1>6 DEF B

\* The file of a plain registry is accepted.
LEMMA PlainLoads ==
    ASSUME NEW reg \in Registry, PlainRegistry(reg)
    PROVE  Loads(ToStateFile(reg))
<1>1. ASSUME NEW c PROVE Loads(CollectionLines(c, reg))
    <2>1. CASE c \in DOMAIN reg
        BY <2>1, LoadsBlock DEF PlainRegistry
    <2>2. CASE c \notin DOMAIN reg
        BY <2>2 DEF CollectionLines, Loads
    <2> QED
        BY <2>1, <2>2
<1> QED
    BY <1>1, LoadsBlocks

\* What has been read after n blocks.
LEMMA ParseBlocks ==
    ASSUME NEW reg \in Registry
    PROVE  \E f : /\ f[0] = NoFun
                  /\ Load(ToStateFile(reg)) = f[Len(CollSeq)]
                  /\ \A n \in 1..Len(CollSeq) : CollSeq[n] \notin DOMAIN reg => f[n] = f[n - 1]
                  /\ \A n \in 1..Len(CollSeq) : CollSeq[n] \in DOMAIN reg =>
                        \E p : p.reg = f[n - 1] /\ f[n] = Parse(p, CollectionLines(CollSeq[n], reg)).reg
<1>1. Len(CollSeq) \in Nat
    BY SchemaAssumption
<1>2. PICK g : OutRun(g, reg) /\ ToStateFile(reg) = g[Len(CollSeq)]
    BY <1>1, OutHasRun
<1> DEFINE f == [n \in 0..Len(CollSeq) |-> Parse(Start, g[n]).reg]
           T == {n \in Nat : n =< Len(CollSeq) => g[n] \in Seq(Line)}
<1>3. \A n \in 1..Len(CollSeq) : g[n] = g[n - 1] \o CollectionLines(CollSeq[n], reg)
    BY <1>2 DEF OutRun
<1>4. \A c : CollectionLines(c, reg) \in Seq(Line)
    <2>1. ASSUME NEW c, c \in DOMAIN reg PROVE CollectionLines(c, reg) \in Seq(Line)
        BY <2>1, ParseBlock
    <2>2. ASSUME NEW c, c \notin DOMAIN reg PROVE CollectionLines(c, reg) \in Seq(Line)
        BY <2>2 DEF CollectionLines
    <2> QED
        BY <2>1, <2>2
<1>5. Nat \subseteq T
    <2>1. 0 \in T
        <3>1. g[0] = <<>> /\ <<>> \in Seq(Line)
            BY <1>2 DEF OutRun
        <3> QED
            BY <3>1
    <2>2. ASSUME NEW n \in Nat, n \in T PROVE n + 1 \in T
        <3>1. SUFFICES ASSUME n + 1 =< Len(CollSeq) PROVE g[n + 1] \in Seq(Line)
            OBVIOUS
        <3>2. n + 1 \in 1..Len(CollSeq) /\ (n + 1) - 1 = n
            BY <1>1, <3>1
        <3>3. g[n] \in Seq(Line)
            BY <1>1, <2>2, <3>1
        <3>4. g[n + 1] = g[n] \o CollectionLines(CollSeq[n + 1], reg)
            BY <1>3, <3>2
        <3> QED
            BY <1>4, <3>3, <3>4
    <2> HIDE DEF T
    <2> QED
        BY <2>1, <2>2, Induction
<1>6. \A n \in 0..Len(CollSeq) : f[n] = Parse(Start, g[n]).reg
    OBVIOUS
<1> HIDE DEF f
<1>7. ASSUME NEW n \in 1..Len(CollSeq)
      PROVE  /\ Parse(Start, g[n]) = Parse(Parse(Start, g[n - 1]), CollectionLines(CollSeq[n], reg))
             /\ f[n] = Parse(Start, g[n]).reg /\ f[n - 1] = Parse(Start, g[n - 1]).reg
    <2>1. n - 1 \in Nat /\ n - 1 =< Len(CollSeq) /\ n \in 0..Len(CollSeq) /\ n - 1 \in 0..Len(CollSeq)
        BY <1>1
    <2>2. g[n - 1] \in Seq(Line)
        BY <1>5, <2>1
    <2>3. Parse(Start, g[n - 1] \o CollectionLines(CollSeq[n], reg))
          = Parse(Parse(Start, g[n - 1]), CollectionLines(CollSeq[n], reg))
        <3> DEFINE a == g[n - 1]
                   b == CollectionLines(CollSeq[n], reg)
        <3>1. a \in Seq(Line) /\ b \in Seq(Line)
            BY <1>4, <2>2
        <3> HIDE DEF a, b
        <3>2. Parse(Start, a \o b) = Parse(Parse(Start, a), b)
            BY <3>1, ParseConcat
        <3> QED
            BY <3>2 DEF a, b
    <2> QED
        BY <1>3, <1>6, <2>1, <2>3
<1>8. f[0] = NoFun
    <2>1. 0 \in 0..Len(CollSeq) /\ g[0] = <<>>
        BY <1>1, <1>2 DEF OutRun
    <2> QED
        BY <1>6, <2>1, ParseNothing DEF Start
<1>9. Load(ToStateFile(reg)) = f[Len(CollSeq)]
    <2>1. Len(CollSeq) \in 0..Len(CollSeq)
        BY <1>1
    <2> QED
        BY <1>2, <1>6, <2>1 DEF Load, Start
<1>10. ASSUME NEW n \in 1..Len(CollSeq), CollSeq[n] \notin DOMAIN reg PROVE f[n] = f[n - 1]
    <2>1. CollectionLines(CollSeq[n], reg) = <<>>
        BY <1>10 DEF CollectionLines
    <2> QED
        BY <1>7, <2>1, ParseNothing
<1>11. ASSUME NEW n \in 1..Len(CollSeq), CollSeq[n] \in DOMAIN reg
       PROVE  \E p : p.reg = f[n - 1] /\ f[n] = Parse(p, CollectionLines(CollSeq[n], reg)).reg
    <2>1. /\ Parse(Start, g[n - 1]).reg = f[n - 1]
          /\ f[n] = Parse(Parse(Start, g[n - 1]), CollectionLines(CollSeq[n], reg)).reg
        BY <1>7
    <2> QED
        BY <2>1
<1> QED
    BY <1>8, <1>9, <1>10, <1>11

\* schema.state is read back as the registry it was written from, if its names are
\* single words and every index is in the collection that its name begins with.
LEMMA RoundTrip ==
    ASSUME NEW reg \in Registry, PlainRegistry(reg)
    PROVE  Load(ToStateFile(reg)) = reg
<1> DEFINE N == Len(CollSeq)
           Part(n) == [c \in Written(reg, n) |-> reg[c]]
<1>1. N \in Nat /\ Coll = {CollSeq[i] : i \in 1..N}
    BY SchemaAssumption DEF Coll, ToSet
<1>2. PICK f : /\ f[0] = NoFun
               /\ Load(ToStateFile(reg)) = f[N]
               /\ \A n \in 1..N : CollSeq[n] \notin DOMAIN reg => f[n] = f[n - 1]
               /\ \A n \in 1..N : CollSeq[n] \in DOMAIN reg =>
                     \E p : p.reg = f[n - 1] /\ f[n] = Parse(p, CollectionLines(CollSeq[n], reg)).reg
    BY ParseBlocks
<1> HIDE DEF N
<1> DEFINE T == {n \in Nat : n =< N => f[n] = Part(n)}
<1>3. 0 \in T
    <2>1. Written(reg, 0) = {}
        BY DEF Written
    <2> QED
        BY <1>2, <2>1 DEF NoFun
<1>4. ASSUME NEW n \in Nat, n \in T PROVE n + 1 \in T
    <2>1. SUFFICES ASSUME n + 1 =< N PROVE f[n + 1] = Part(n + 1)
        OBVIOUS
    <2>2. n + 1 \in 1..N /\ (n + 1) - 1 = n /\ f[n] = Part(n)
        BY <1>1, <1>4, <2>1
    <2> DEFINE c == CollSeq[n + 1]
    <2>3. CASE c \notin DOMAIN reg
        <3>1. f[n + 1] = f[n]
            BY <1>2, <2>2, <2>3
        <3>2. Written(reg, n + 1) = Written(reg, n)
            <4>1. \A i \in 1..(n + 1) : i \in 1..n \/ i = n + 1
                OBVIOUS
            <4>2. 1..n \subseteq 1..(n + 1)
                OBVIOUS
            <4> QED
                BY <2>3, <4>1, <4>2 DEF Written
        <3> QED
            BY <2>2, <3>1, <3>2
    <2>4. CASE c \in DOMAIN reg
        <3>1. PICK p : p.reg = f[n] /\ f[n + 1] = Parse(p, CollectionLines(c, reg)).reg
            BY <1>2, <2>2, <2>4
        <3>2. f[n + 1] = With(f[n], c, reg[c])
            BY <2>4, <3>1, ParseOwnBlock DEF PlainRegistry
        <3>3. Written(reg, n + 1) = Written(reg, n) \cup {c}
            <4>1. \A i \in 1..(n + 1) : i \in 1..n \/ i = n + 1
                OBVIOUS
            <4>2. 1..n \subseteq 1..(n + 1) /\ n + 1 \in 1..(n + 1)
                OBVIOUS
            <4> QED
                BY <2>4, <4>1, <4>2 DEF Written
        <3>4. With(Part(n), c, reg[c]) = [d \in Written(reg, n) \cup {c} |-> reg[d]]
            BY DEF With
        <3> QED
            BY <2>2, <3>2, <3>3, <3>4
    <2> QED
        BY <2>3, <2>4
<1>5. f[N] = Part(N)
    <2>1. N \in T
        <3> HIDE DEF T
        <3> QED
            BY <1>1, <1>3, <1>4, Induction
    <2> QED
        BY <1>1, <2>1
<1>6. Written(reg, N) = DOMAIN reg
    <2>1. DOMAIN reg \subseteq Coll
        BY RegistryFacts
    <2> QED
        BY <1>1, <2>1 DEF Written
<1>7. reg = [c \in DOMAIN reg |-> reg[c]]
    BY RegistryFacts
<1> QED
    BY <1>2, <1>5, <1>6, <1>7

\* Whatever the names, the registry that is read has every index in the collection
\* its name begins with; and if no name has several words, it has every collection
\* that was written with its key.
LEMMA ReadBack ==
    ASSUME NEW reg \in Registry, Loads(ToStateFile(reg)), NEW new, new = Load(ToStateFile(reg))
    PROVE  new \in Registry /\ Owned(new) /\ (Whole => KeysKept(reg, new))
<1> DEFINE N == Len(CollSeq)
           Good(r, n) ==
               /\ r \in Registry /\ Owned(r)
               /\ Whole => \A d \in Written(reg, n) : d \in DOMAIN r /\ r[d].key = reg[d].key
<1>1. N \in Nat /\ Coll = {CollSeq[i] : i \in 1..N}
    BY SchemaAssumption DEF Coll, ToSet
<1>2. PICK f : /\ f[0] = NoFun
               /\ Load(ToStateFile(reg)) = f[N]
               /\ \A n \in 1..N : CollSeq[n] \notin DOMAIN reg => f[n] = f[n - 1]
               /\ \A n \in 1..N : CollSeq[n] \in DOMAIN reg =>
                     \E p : p.reg = f[n - 1] /\ f[n] = Parse(p, CollectionLines(CollSeq[n], reg)).reg
    BY ParseBlocks
<1>3. \A n \in 1..N : CollSeq[n] \in DOMAIN reg => Words[CollSeq[n]] # <<>>
    BY LoadsBlocks, LoadsBlock
<1> HIDE DEF N
<1> DEFINE T == {n \in Nat : n =< N => Good(f[n], n)}
<1>4. 0 \in T
    <2>1. Written(reg, 0) = {}
        BY DEF Written
    <2>2. NoFun \in Registry /\ Owned(NoFun)
        BY NoFunRegistry DEF Owned
    <2> QED
        BY <1>2, <2>1, <2>2
<1>5. ASSUME NEW n \in Nat, n \in T PROVE n + 1 \in T
    <2>1. SUFFICES ASSUME n + 1 =< N PROVE Good(f[n + 1], n + 1)
        OBVIOUS
    <2>2. n + 1 \in 1..N /\ (n + 1) - 1 = n /\ Good(f[n], n)
        BY <1>1, <1>5, <2>1
    <2> DEFINE c == CollSeq[n + 1]
               d == Words[c][1]
    <2>3. Written(reg, n + 1) \subseteq Written(reg, n) \cup {c}
        <3>1. \A i \in 1..(n + 1) : i \in 1..n \/ i = n + 1
            OBVIOUS
        <3> QED
            BY <3>1 DEF Written
    <2>4. CASE c \notin DOMAIN reg
        <3>1. f[n + 1] = f[n]
            BY <1>2, <2>2, <2>4
        <3>2. Written(reg, n + 1) \subseteq Written(reg, n)
            BY <2>3, <2>4 DEF Written
        <3> QED
            BY <2>2, <3>1, <3>2
    <2>5. CASE c \in DOMAIN reg
        <3>1. PICK p : p.reg = f[n] /\ f[n + 1] = Parse(p, CollectionLines(c, reg)).reg
            BY <1>2, <2>2, <2>5
        <3>2. Words[c] # <<>>
            BY <1>3, <2>2, <2>5
        <3>3. Whole => d = c
            <4>1. c \in Coll
                BY <1>1, <2>2
            <4>2. Len(Words[c]) \in Nat /\ (Len(Words[c]) = 1 => Words[c] = <<c>>)
                BY <4>1, SchemaAssumption
            <4>3. Whole => Len(Words[c]) =< 1
                BY <4>1 DEF Whole
            <4> DEFINE w == Words[c]
            <4>4. Len(w) # 0
                BY <3>2, <4>1, SchemaAssumption
            <4> DEFINE len == Len(w)
            <4>5. len \in Nat /\ len # 0 /\ (Whole => len =< 1)
                BY <4>2, <4>3, <4>4
            <4> HIDE DEF len
            <4>6. Whole => len = 1
                BY <4>5
            <4> QED
                BY <4>2, <4>6 DEF len
        <3> HIDE DEF c, d
        <3>4. /\ f[n + 1] \in Registry /\ Owned(f[n + 1])
              /\ d \in DOMAIN f[n + 1] /\ f[n + 1][d].key = reg[c].key
              /\ \A e \in DOMAIN f[n] : e # d => e \in DOMAIN f[n + 1] /\ f[n + 1][e].key = f[n][e].key
            <4>1. p.reg \in Registry /\ Owned(p.reg) /\ d = Words[c][1]
                BY <2>2, <3>1 DEF d
            <4>2. /\ f[n + 1] \in Registry /\ Owned(f[n + 1])
                  /\ d \in DOMAIN f[n + 1] /\ f[n + 1][d].key = reg[c].key
                  /\ \A e \in DOMAIN p.reg : e # d => e \in DOMAIN f[n + 1] /\ f[n + 1][e].key = p.reg[e].key
                BY <2>5, <3>1, <3>2, <4>1, ParseAnyBlock
            <4> QED
                BY <3>1, <4>2
        <3> QED
            BY <2>2, <2>3, <3>3, <3>4
    <2> QED
        BY <2>4, <2>5
<1>6. Good(f[N], N)
    <2>1. N \in T
        <3> HIDE DEF T
        <3> QED
            BY <1>1, <1>4, <1>5, Induction
    <2> QED
        BY <1>1, <2>1
<1>7. Written(reg, N) = DOMAIN reg
    <2>1. DOMAIN reg \subseteq Coll
        BY RegistryFacts
    <2> QED
        BY <1>1, <2>1 DEF Written
<1> QED
    BY <1>2, <1>6, <1>7 DEF KeysKept

-----------------------------------------------------------------------------
(* Migrations *)

\* A function on the first numbers is a sequence.
LEMMA FunctionIsSeq ==
    ASSUME NEW V, NEW n \in Nat, NEW t \in [1..n -> V]
    PROVE  t \in Seq(V)
    OBVIOUS

\* Vec::retain keeps some of the elements, none twice that was not there twice.
LEMMA RetainFacts ==
    ASSUME NEW V, NEW s \in Seq(V), NEW S
    PROVE  /\ Retain(s, S) \in Seq(V)
           /\ ToSet(Retain(s, S)) \subseteq ToSet(s) \cap S
           /\ IsInjective(s) => IsInjective(Retain(s, S))
<1> DEFINE Upto(n) == {s[i] : i \in 1..n}
           Good(r, n) == /\ r \in Seq(V)
                         /\ \A k \in 1..Len(r) : r[k] \in Upto(n) \cap S
                         /\ IsInjective(s) => \A j, k \in 1..Len(r) : r[j] = r[k] => j = k
<1>1. Len(s) \in Nat
    OBVIOUS
<1>2. PICK f : RetainRun(f, s, S) /\ Retain(s, S) = f[Len(s)]
    BY <1>1, RetainHasRun
<1> DEFINE T == {n \in Nat : n =< Len(s) => Good(f[n], n)}
<1>3. 0 \in T
    <2>1. f[0] = <<>>
        BY <1>2 DEF RetainRun
    <2>2. <<>> \in Seq(V) /\ Len(<<>>) = 0
        OBVIOUS
    <2>3. Good(f[0], 0)
        BY <2>1, <2>2
    <2> HIDE DEF Good
    <2> QED
        BY <2>3
<1>4. ASSUME NEW n \in Nat, n \in T PROVE n + 1 \in T
    <2>1. SUFFICES ASSUME n + 1 =< Len(s) PROVE Good(f[n + 1], n + 1)
        <3> HIDE DEF Good
        <3> QED
            OBVIOUS
    <2>2. n + 1 \in 1..Len(s) /\ (n + 1) - 1 = n /\ n =< Len(s)
        BY <1>1, <2>1
    <2>3. Good(f[n], n)
        BY <1>4, <2>2
    <2> DEFINE x == s[n + 1]
    <2>4. f[n + 1] = IF x \in S THEN Append(f[n], x) ELSE f[n]
        BY <1>2, <2>2 DEF RetainRun
    <2>5. Upto(n) \subseteq Upto(n + 1) /\ x \in Upto(n + 1) /\ x \in V
        <3>1. 1..n \subseteq 1..(n + 1) /\ n + 1 \in 1..(n + 1)
            OBVIOUS
        <3> QED
            BY <2>2, <3>1
    <2>6. IsInjective(s) => x \notin Upto(n)
        <3>1. \A i \in 1..n : i \in DOMAIN s /\ i # n + 1
            BY <2>2
        <3> QED
            BY <2>2, <3>1 DEF IsInjective
    <2> HIDE DEF x, Upto
    <2>7. CASE x \notin S
        BY <2>3, <2>4, <2>5, <2>7
    <2>8. CASE x \in S
        <3> DEFINE r == f[n]
                   t == Append(r, x)
        <3>1. r \in Seq(V) /\ Len(r) \in Nat /\ f[n + 1] = t
            BY <2>3, <2>4, <2>8
        <3>2. /\ t \in Seq(V) /\ Len(t) = Len(r) + 1 /\ t[Len(r) + 1] = x
              /\ \A k \in 1..Len(r) : t[k] = r[k]
            BY <2>5, <3>1
        <3>3. \A k \in 1..Len(t) : k \in 1..Len(r) \/ k = Len(r) + 1
            BY <3>1, <3>2
        <3> HIDE DEF r, t
        <3>4. \A k \in 1..Len(r) : r[k] \in Upto(n) \cap S
            BY <2>3 DEF r
        <3>5. \A k \in 1..Len(t) : t[k] \in Upto(n + 1) \cap S
            BY <2>5, <2>8, <3>2, <3>3, <3>4
        <3>6. ASSUME IsInjective(s), NEW j \in 1..Len(t), NEW k \in 1..Len(t), t[j] = t[k] PROVE j = k
            <4>1. \A a, b \in 1..Len(r) : r[a] = r[b] => a = b
                BY <2>3, <3>6 DEF r
            <4>2. \A a \in 1..Len(r) : t[a] # x
                BY <2>6, <3>2, <3>4, <3>6
            <4>3. CASE j \in 1..Len(r) /\ k \in 1..Len(r)
                BY <3>2, <3>6, <4>1, <4>3
            <4>4. CASE ~(j \in 1..Len(r) /\ k \in 1..Len(r))
                BY <3>2, <3>3, <3>6, <4>2, <4>4
            <4> QED
                BY <4>3, <4>4
        <3> QED
            BY <3>1, <3>2, <3>5, <3>6
    <2> QED
        BY <2>7, <2>8
<1>5. Good(f[Len(s)], Len(s))
    <2>1. Len(s) \in T
        <3> HIDE DEF T
        <3> QED
            BY <1>1, <1>3, <1>4, Induction
    <2> QED
        BY <1>1, <2>1
<1> DEFINE r == Retain(s, S)
<1>6. Good(r, Len(s))
    BY <1>2, <1>5
<1>7. DOMAIN r = 1..Len(r)
    BY <1>6
<1> HIDE DEF r
<1>8. ToSet(r) \subseteq ToSet(s) \cap S
    <2>1. Upto(Len(s)) = ToSet(s)
        BY <1>1 DEF ToSet
    <2>2. \A k \in DOMAIN r : r[k] \in Upto(Len(s)) \cap S
        BY <1>6, <1>7
    <2> HIDE DEF Upto
    <2> QED
        BY <2>1, <2>2 DEF ToSet
<1>9. IsInjective(s) => IsInjective(r)
    BY <1>6, <1>7 DEF IsInjective
<1> QED
    BY <1>6, <1>8, <1>9 DEF r

\* The state of apply_statements.
Applied == [ok : BOOLEAN, reg : Registry]

AllPlain(D) == \A st \in D : PlainStatement(st)

\* The statements of D leave a registry, take no collection away and change no key;
\* if they are plain, the registry stays so.
StatementFacts(s, t, D) ==
    /\ t \in Applied
    /\ KeysKept(s.reg, t.reg)
    /\ AllPlain(D) /\ PlainRegistry(s.reg) => PlainRegistry(t.reg)

\* A registry keeps its own keys.
LEMMA KeysKeptSame == ASSUME NEW reg PROVE KeysKept(reg, reg)
    BY DEF KeysKept

\* A statement that fails, and one after a failure, leave the registry as it is.
LEMMA FailedFacts ==
    ASSUME NEW s \in Applied, NEW D
    PROVE  StatementFacts(s, Failed(s), D) /\ StatementFacts(s, s, D)
    BY KeysKeptSame DEF StatementFacts, Failed, Applied

\* What a statement may do: replace a collection by one with its key.
LEMMA PutFacts ==
    ASSUME NEW s \in Applied, NEW c \in Coll, NEW r \in CollectionSchema, NEW D,
           c \in DOMAIN s.reg => r.key = s.reg[c].key,
           AllPlain(D) /\ PlainRegistry(s.reg) => PlainIn(c, r)
    PROVE  StatementFacts(s, Put(s, c, r), D)
<1> DEFINE new == With(s.reg, c, r)
<1>1. s.reg \in Registry /\ s.ok \in BOOLEAN
    BY DEF Applied
<1>2. new \in Registry
    BY <1>1, WithRegistry
<1>3. /\ DOMAIN new = DOMAIN s.reg \cup {c} /\ new[c] = r
      /\ \A d \in DOMAIN s.reg : d # c => new[d] = s.reg[d]
    BY DEF With
<1> HIDE DEF new
<1>4. Put(s, c, r) = [s EXCEPT !.reg = new]
    BY DEF Put, new
<1>5. Put(s, c, r) \in Applied /\ Put(s, c, r).reg = new
    BY <1>2, <1>4 DEF Applied
<1>6. KeysKept(s.reg, new)
    BY <1>3 DEF KeysKept
<1>7. ASSUME AllPlain(D), PlainRegistry(s.reg) PROVE PlainRegistry(new)
    <2> SUFFICES ASSUME NEW d \in DOMAIN new PROVE PlainIn(d, new[d])
        BY DEF PlainRegistry
    <2>1. CASE d = c
        BY <1>3, <1>7, <2>1
    <2>2. CASE d # c
        BY <1>3, <1>7, <2>2 DEF PlainRegistry
    <2> QED
        BY <2>1, <2>2
<1> QED
    BY <1>5, <1>6, <1>7 DEF StatementFacts

\* The statements of migrations.
Ddl == {st \in Statement : st.kind = "index" => <<st.coll, st.path>> \in Created}

\* Every statement does one of these.
LEMMA ApplyStatementFacts ==
    ASSUME NEW s \in Applied, NEW st \in Ddl
    PROVE  StatementFacts(s, ApplyStatement(s, st), {st})
<1> DEFINE D == {st}
<1>a. AllPlain(D) => PlainStatement(st)
    BY DEF AllPlain
<1> HIDE DEF D
<1>1. s.reg \in Registry
    BY DEF Applied
<1>2. ASSUME st.kind = "collection", st.coll \in Coll, st.key \in Seq(Path)
      PROVE  StatementFacts(s, CreateCollection(s, st), D)
    <2>1. CASE st.coll \in DOMAIN s.reg
        BY <2>1, FailedFacts DEF CreateCollection
    <2>2. CASE st.coll \notin DOMAIN s.reg
        <3> DEFINE r == Collection(st.key, <<>>)
        <3>1. r \in CollectionSchema /\ r.indexes = <<>> /\ r.key = st.key
            BY <1>2, CollectionFacts, EmptySeqs
        <3>2. CreateCollection(s, st) = Put(s, st.coll, r)
            BY <2>2 DEF CreateCollection
        <3> HIDE DEF r
        <3>3. \A i \in DOMAIN r.indexes : FALSE
            BY <3>1
        <3>4. AllPlain(D) => PlainIn(st.coll, r)
            BY <1>a, <1>2, <3>1, <3>3 DEF PlainStatement, PlainIn
        <3> QED
            BY <1>2, <2>2, <3>1, <3>2, <3>4, PutFacts
    <2> QED
        BY <2>1, <2>2
<1>3. ASSUME st.kind = "index", st.coll \in Coll, <<st.coll, st.path>> \in Created
      PROVE  StatementFacts(s, CreateIndex(s, st), D)
    <2> DEFINE c == st.coll
               name == IndexName(c, st.path)
               i == IndexDef(name, st.path)
               bad == \/ c \notin DOMAIN s.reg
                      \/ \E k \in DOMAIN s.reg[c].indexes : s.reg[c].indexes[k].name = name
    <2>1. CASE bad
        <3>1. CreateIndex(s, st) = Failed(s)
            BY <2>1 DEF CreateIndex
        <3> QED
            BY <3>1, FailedFacts
    <2>2. CASE ~bad
        <3> DEFINE old == s.reg[c]
                   r == Plus(old, i)
        <3>1. c \in DOMAIN s.reg /\ CreateIndex(s, st) = Put(s, c, r)
            BY <2>2 DEF CreateIndex, Plus
        <3>2. i \in Index /\ i.name[1] = c /\ i.path = st.path
            <4> DEFINE x == <<c, st.path>>
            <4>1. x[1] = c /\ x[2] = st.path /\ x \in Created
                BY <1>3
            <4>2. IndexDef(IndexName(x[1], x[2]), x[2]) \in Index
                BY <4>1 DEF Index
            <4> QED
                BY <4>1, <4>2 DEF IndexDef, IndexName
        <3>3. old \in CollectionSchema
            BY <1>1, <3>1, RegistryFacts
        <3> HIDE DEF i, c
        <3>4. /\ r \in CollectionSchema /\ r.key = old.key /\ r.indexes = Append(old.indexes, i)
              /\ old.indexes \in Seq(Index)
            BY <3>2, <3>3, PlusFacts, SchemaFacts
        <3>5. ASSUME AllPlain(D), PlainRegistry(s.reg) PROVE PlainIn(c, r)
            <4>1. PlainIn(c, old)
                BY <3>1, <3>5 DEF PlainRegistry
            <4>2. Base[c] = c /\ Len(Words[i.path]) = 1
                BY <1>a, <1>3, <3>2, <3>5 DEF PlainStatement, c
            <4> HIDE DEF r, old
            <4>3. ASSUME NEW k \in DOMAIN r.indexes
                  PROVE  (k \in DOMAIN old.indexes /\ r.indexes[k] = old.indexes[k]) \/ r.indexes[k] = i
                <5>1. k \in DOMAIN Append(old.indexes, i)
                    BY <3>4
                <5>2. \/ k \in DOMAIN old.indexes /\ Append(old.indexes, i)[k] = old.indexes[k]
                      \/ Append(old.indexes, i)[k] = i
                    BY <3>4, <5>1
                <5> QED
                    BY <3>4, <5>2
            <4>4. Len(Words[c]) = 1 /\ \A k \in DOMAIN r.key : Len(Words[r.key[k]]) = 1
                BY <3>4, <4>1 DEF PlainIn
            <4>5. ASSUME NEW k \in DOMAIN r.indexes
                  PROVE  /\ Base[r.indexes[k].name[1]] = c
                         /\ Len(Words[r.indexes[k].name[1]]) = 1 /\ Len(Words[r.indexes[k].path]) = 1
                <5>1. CASE k \in DOMAIN old.indexes /\ r.indexes[k] = old.indexes[k]
                    BY <4>1, <5>1 DEF PlainIn
                <5>2. CASE r.indexes[k] = i
                    BY <3>2, <4>2, <4>4, <5>2
                <5> QED
                    BY <4>3, <5>1, <5>2
            <4> QED
                BY <4>4, <4>5 DEF PlainIn
        <3>6. c \in Coll
            BY <1>3 DEF c
        <3> HIDE DEF r
        <3> QED
            BY <3>1, <3>4, <3>5, <3>6, PutFacts
    <2> QED
        BY <2>1, <2>2
<1>4. ASSUME st.coll \in Coll, st.path \in Path
      PROVE  StatementFacts(s, DropIndex(s, st), D)
    <2> DEFINE c == st.coll
               old == s.reg[c]
               S == {i \in ToSet(old.indexes) : i.name # IndexName(c, st.path) /\ i.path # st.path}
               kept == Retain(old.indexes, S)
               r == [old EXCEPT !.indexes = kept]
    <2>1. CASE c \notin DOMAIN s.reg
        BY <2>1, FailedFacts DEF DropIndex
    <2>2. CASE c \in DOMAIN s.reg
        <3>1. DropIndex(s, st) = IF Len(kept) = Len(old.indexes) THEN Failed(s) ELSE Put(s, c, r)
            BY <2>2 DEF DropIndex
        <3>2. old \in CollectionSchema
            BY <1>1, <2>2, RegistryFacts
        <3>3. old.indexes \in Seq(Index)
            BY <3>2, SchemaFacts
        <3> HIDE DEF S
        <3>4. kept \in Seq(Index) /\ ToSet(kept) \subseteq ToSet(old.indexes)
            BY <3>3, RetainFacts
        <3>5. \A k \in DOMAIN kept : \E m \in DOMAIN old.indexes : kept[k] = old.indexes[m]
            <4> HIDE DEF kept, old
            <4> QED
                BY <3>4 DEF ToSet
        <3> HIDE DEF kept
        <3>6. r \in CollectionSchema /\ r.key = old.key /\ r.indexes = kept
            BY <3>2, <3>4 DEF CollectionSchema
        <3>7. ASSUME AllPlain(D), PlainRegistry(s.reg) PROVE PlainIn(c, r)
            <4>1. PlainIn(c, old)
                BY <2>2, <3>7 DEF PlainRegistry
            <4> HIDE DEF r, old
            <4> QED
                BY <3>5, <3>6, <4>1 DEF PlainIn
        <3> HIDE DEF r, c
        <3>8. c \in Coll
            BY <1>4 DEF c
        <3>9. StatementFacts(s, Put(s, c, r), D)
            BY <2>2, <3>6, <3>7, <3>8, PutFacts
        <3> QED
            BY <3>1, <3>9, FailedFacts
    <2> QED
        BY <2>1, <2>2
<1>5. \/ st.kind = "collection" /\ st.coll \in Coll /\ st.key \in Seq(Path)
      \/ st.kind = "index" /\ st.coll \in Coll /\ <<st.coll, st.path>> \in Created
      \/ st.kind = "drop" /\ st.coll \in Coll /\ st.path \in Path
      \/ st.kind = "garbage"
    BY DEF Statement, Ddl
<1>6. CASE ~s.ok
    BY <1>6, FailedFacts DEF ApplyStatement
<1>7. CASE s.ok
    <2>1. /\ st.kind = "collection" => ApplyStatement(s, st) = CreateCollection(s, st)
          /\ st.kind = "index" => ApplyStatement(s, st) = CreateIndex(s, st)
          /\ st.kind = "drop" => ApplyStatement(s, st) = DropIndex(s, st)
          /\ st.kind = "garbage" => ApplyStatement(s, st) = Failed(s)
        BY <1>7 DEF ApplyStatement
    <2>2. CASE st.kind = "collection"
        <3>1. StatementFacts(s, CreateCollection(s, st), D)
            BY <1>2, <1>5, <2>2
        <3> QED
            BY <2>1, <2>2, <3>1 DEF D
    <2>3. CASE st.kind = "index"
        <3>1. StatementFacts(s, CreateIndex(s, st), D)
            BY <1>3, <1>5, <2>3
        <3> QED
            BY <2>1, <2>3, <3>1 DEF D
    <2>4. CASE st.kind = "drop"
        <3>1. StatementFacts(s, DropIndex(s, st), D)
            BY <1>4, <1>5, <2>4
        <3> QED
            BY <2>1, <2>4, <3>1 DEF D
    <2>5. CASE st.kind = "garbage"
        BY <2>1, <2>5, FailedFacts
    <2> QED
        BY <1>5, <2>2, <2>3, <2>4, <2>5
<1> QED
    BY <1>6, <1>7

\* What holds of each of two statements holds of both in a row.
LEMMA FactsTwice ==
    ASSUME NEW a, NEW b, NEW c, NEW D, NEW E \in SUBSET D,
           StatementFacts(a, b, D), StatementFacts(b, c, E)
    PROVE  StatementFacts(a, c, D)
<1>1. KeysKept(a.reg, b.reg) /\ KeysKept(b.reg, c.reg)
    BY DEF StatementFacts
<1>2. KeysKept(a.reg, c.reg)
    BY <1>1, KeysKeptTwice
<1> QED
    BY <1>2 DEF StatementFacts, AllPlain

\* So does a file.
LEMMA ApplyStatementsFacts ==
    ASSUME NEW s \in Applied, NEW stmts \in Seq(Ddl)
    PROVE  StatementFacts(s, ApplyStatements(s, stmts), ToSet(stmts))
<1> DEFINE D == ToSet(stmts)
<1>1. Len(stmts) \in Nat /\ \A n \in 1..Len(stmts) : {stmts[n]} \in SUBSET D
    BY DEF ToSet
<1> HIDE DEF D
<1>2. PICK f : StatementsRun(f, s, stmts) /\ ApplyStatements(s, stmts) = f[Len(stmts)]
    BY <1>1, StatementsHaveRun
<1> DEFINE T == {n \in Nat : n =< Len(stmts) => StatementFacts(s, f[n], D)}
<1>3. 0 \in T
    BY <1>2, FailedFacts DEF StatementsRun
<1>4. ASSUME NEW n \in Nat, n \in T PROVE n + 1 \in T
    <2>1. SUFFICES ASSUME n + 1 =< Len(stmts) PROVE StatementFacts(s, f[n + 1], D)
        OBVIOUS
    <2>2. n + 1 \in 1..Len(stmts) /\ (n + 1) - 1 = n /\ n =< Len(stmts) /\ stmts[n + 1] \in Ddl
        BY <1>1, <2>1
    <2>3. f[n + 1] = ApplyStatement(f[n], stmts[n + 1])
        BY <1>2, <2>2 DEF StatementsRun
    <2>4. StatementFacts(s, f[n], D) /\ f[n] \in Applied
        BY <1>4, <2>2 DEF StatementFacts
    <2>5. StatementFacts(f[n], f[n + 1], {stmts[n + 1]})
        BY <2>2, <2>3, <2>4, ApplyStatementFacts
    <2> QED
        BY <1>1, <2>2, <2>4, <2>5, FactsTwice
<1>5. Len(stmts) \in T
    <2> HIDE DEF T
    <2> QED
        BY <1>1, <1>3, <1>4, Induction
<1> QED
    BY <1>1, <1>2, <1>5 DEF D

\* What a file holds.
LEMMA FileFacts == \A f \in File : Migration[f] \in Seq(Ddl)
<1> SUFFICES ASSUME NEW f \in File PROVE Migration[f] \in Seq(Ddl)
    OBVIOUS
<1> DEFINE m == Migration[f]
<1>1. m \in Seq(Statement)
    BY SchemaAssumption DEF File
<1>2. Len(m) \in Nat /\ m \in [1..Len(m) -> Statement] /\ DOMAIN m = 1..Len(m)
    BY <1>1, LenProperties
<1>3. ASSUME NEW n \in 1..Len(m) PROVE m[n] \in Ddl
    <2>1. m[n] \in Statement /\ n \in DOMAIN Migration[f]
        BY <1>2
    <2>2. ASSUME m[n].kind = "index" PROVE <<m[n].coll, m[n].path>> \in Created
        <3>1. m[n].coll \in Coll /\ m[n].path \in Path
            BY <2>1, <2>2 DEF Statement
        <3> DEFINE x == <<m[n].coll, m[n].path>>
        <3>2. x \in Coll \X Path /\ x[1] = m[n].coll /\ x[2] = m[n].path
            BY <3>1
        <3> QED
            BY <2>1, <2>2, <3>2 DEF Created
    <2> QED
        BY <2>1, <2>2 DEF Ddl
<1> HIDE DEF m
<1>4. m \in [1..Len(m) -> Ddl]
    BY <1>2, <1>3
<1>5. m \in Seq(Ddl)
    BY <1>2, <1>4, FunctionIsSeq
<1> QED
    BY <1>5 DEF m

\* The statements of some files.
StatementsOf(fs) == UNION {ToSet(Migration[f]) : f \in ToSet(fs)}

\* And a migration.
LEMMA ApplyFilesFacts ==
    ASSUME NEW reg \in Registry, NEW fs \in Seq(File)
    PROVE  StatementFacts([ok |-> TRUE, reg |-> reg], ApplyFiles(reg, fs), StatementsOf(fs))
<1> DEFINE s == [ok |-> TRUE, reg |-> reg]
           D == StatementsOf(fs)
<1>1. Len(fs) \in Nat /\ s \in Applied
    BY DEF Applied
<1>a. \A n \in 1..Len(fs) : ToSet(Migration[fs[n]]) \in SUBSET D
    <2>1. \A n \in 1..Len(fs) : fs[n] \in ToSet(fs)
        BY DEF ToSet
    <2> QED
        BY <2>1 DEF StatementsOf
<1> HIDE DEF D
<1>2. PICK f : FilesRun(f, reg, fs) /\ ApplyFiles(reg, fs) = f[Len(fs)]
    BY <1>1, FilesHaveRun
<1>3. f[0] = s
    BY <1>2 DEF FilesRun
<1> HIDE DEF s
<1> DEFINE T == {n \in Nat : n =< Len(fs) => StatementFacts(s, f[n], D)}
<1>4. 0 \in T
    BY <1>1, <1>3, FailedFacts
<1>5. ASSUME NEW n \in Nat, n \in T PROVE n + 1 \in T
    <2>1. SUFFICES ASSUME n + 1 =< Len(fs) PROVE StatementFacts(s, f[n + 1], D)
        OBVIOUS
    <2>2. n + 1 \in 1..Len(fs) /\ (n + 1) - 1 = n /\ n =< Len(fs) /\ fs[n + 1] \in File
        BY <1>1, <2>1
    <2>3. Migration[fs[n + 1]] \in Seq(Ddl)
        BY <2>2, FileFacts
    <2>4. f[n + 1] = ApplyStatements(f[n], Migration[fs[n + 1]])
        BY <1>2, <2>2 DEF FilesRun
    <2>5. StatementFacts(s, f[n], D) /\ f[n] \in Applied
        BY <1>5, <2>2 DEF StatementFacts
    <2>6. StatementFacts(f[n], f[n + 1], ToSet(Migration[fs[n + 1]]))
        BY <2>3, <2>4, <2>5, ApplyStatementsFacts
    <2> QED
        BY <1>a, <2>2, <2>5, <2>6, FactsTwice
<1>6. Len(fs) \in T
    <2> HIDE DEF T
    <2> QED
        BY <1>1, <1>4, <1>5, Induction
<1> QED
    BY <1>1, <1>2, <1>6 DEF s, D

\* Migrating twice is migrating once with the files of both.
LEMMA ApplyFilesConcat ==
    ASSUME NEW reg, NEW mid, NEW V, NEW a \in Seq(V), NEW b \in Seq(V),
           ApplyFiles(reg, a) = [ok |-> TRUE, reg |-> mid]
    PROVE  ApplyFiles(reg, a \o b) = ApplyFiles(mid, b)
<1> DEFINE ab == a \o b
<1>1. /\ ab \in Seq(V) /\ Len(ab) = Len(a) + Len(b)
      /\ Len(a) \in Nat /\ Len(b) \in Nat /\ Len(ab) \in Nat
      /\ \A n \in 1..Len(a) : ab[n] = a[n]
      /\ \A n \in 1..Len(b) : ab[Len(a) + n] = b[n]
    OBVIOUS
<1> HIDE DEF ab
<1>2. PICK f : FilesRun(f, reg, ab) /\ ApplyFiles(reg, ab) = f[Len(ab)]
    BY <1>1, FilesHaveRun
<1>3. PICK g : FilesRun(g, reg, a) /\ ApplyFiles(reg, a) = g[Len(a)]
    BY <1>1, FilesHaveRun
<1>4. PICK h : FilesRun(h, mid, b) /\ ApplyFiles(mid, b) = h[Len(b)]
    BY <1>1, FilesHaveRun
<1> DEFINE T == {n \in Nat : n =< Len(a) => f[n] = g[n]}
           U == {n \in Nat : n =< Len(b) => f[Len(a) + n] = h[n]}
<1>5. Nat \subseteq T
    <2>1. 0 \in T
        BY <1>2, <1>3 DEF FilesRun
    <2>2. ASSUME NEW n \in Nat, n \in T PROVE n + 1 \in T
        <3>1. SUFFICES ASSUME n + 1 =< Len(a) PROVE f[n + 1] = g[n + 1]
            OBVIOUS
        <3>2. n + 1 \in 1..Len(a) /\ n + 1 \in 1..Len(ab) /\ (n + 1) - 1 = n
            BY <1>1, <3>1
        <3>3. /\ f[n + 1] = ApplyStatements(f[n], Migration[ab[n + 1]])
              /\ g[n + 1] = ApplyStatements(g[n], Migration[a[n + 1]])
            BY <1>2, <1>3, <3>2 DEF FilesRun
        <3>4. f[n] = g[n] /\ ab[n + 1] = a[n + 1]
            BY <1>1, <2>2, <3>1, <3>2
        <3> QED
            BY <3>3, <3>4
    <2> HIDE DEF T
    <2> QED
        BY <2>1, <2>2, Induction
<1>6. Nat \subseteq U
    <2>1. 0 \in U
        <3>1. f[Len(a)] = g[Len(a)] /\ Len(a) + 0 = Len(a)
            BY <1>1, <1>5
        <3>2. h[0] = g[Len(a)]
            BY <1>3, <1>4 DEF FilesRun
        <3> QED
            BY <3>1, <3>2
    <2>2. ASSUME NEW n \in Nat, n \in U PROVE n + 1 \in U
        <3>1. SUFFICES ASSUME n + 1 =< Len(b) PROVE f[Len(a) + (n + 1)] = h[n + 1]
            OBVIOUS
        <3>2. /\ n + 1 \in 1..Len(b) /\ Len(a) + (n + 1) \in 1..Len(ab) /\ (n + 1) - 1 = n
              /\ (Len(a) + (n + 1)) - 1 = Len(a) + n
            BY <1>1, <3>1
        <3>3. f[Len(a) + (n + 1)] = ApplyStatements(f[Len(a) + n], Migration[ab[Len(a) + (n + 1)]])
            BY <1>2, <3>2 DEF FilesRun
        <3>4. h[n + 1] = ApplyStatements(h[n], Migration[b[n + 1]])
            BY <1>4, <3>2 DEF FilesRun
        <3>5. f[Len(a) + n] = h[n] /\ ab[Len(a) + (n + 1)] = b[n + 1]
            BY <1>1, <2>2, <3>1, <3>2
        <3> QED
            BY <3>3, <3>4, <3>5
    <2> HIDE DEF U
    <2> QED
        BY <2>1, <2>2, Induction
<1>7. f[Len(a) + Len(b)] = h[Len(b)]
    BY <1>1, <1>6
<1> QED
    BY <1>1, <1>2, <1>4, <1>7 DEF ab

\* Applying no file changes nothing.
LEMMA ApplyNothing == ASSUME NEW reg PROVE ApplyFiles(reg, <<>>) = [ok |-> TRUE, reg |-> reg]
<1>1. Len(<<>>) = 0 /\ Len(<<>>) \in Nat
    OBVIOUS
<1>2. PICK f : FilesRun(f, reg, <<>>) /\ ApplyFiles(reg, <<>>) = f[Len(<<>>)]
    BY <1>1, FilesHaveRun
<1> QED
    BY <1>1, <1>2 DEF FilesRun

\* The files that are applied are files, each is new, and none is there twice.
LEMMA PendingFacts ==
    ASSUME NEW fs \in SUBSET File, NEW lk \in Seq(File), IsInjective(lk)
    PROVE  /\ PendingFiles(fs, lk) \in Seq(File)
           /\ lk \o PendingFiles(fs, lk) \in Seq(File)
           /\ IsInjective(lk \o PendingFiles(fs, lk))
<1> DEFINE all == [f \in File |-> f]
           new == PendingFiles(fs, lk)
           S == fs \ ToSet(lk)
<1>1. new = Retain(all, S)
    BY DEF PendingFiles
<1>2. all \in Seq(File) /\ IsInjective(all)
    <2>1. \E n \in Nat : File = 1..n
        BY SchemaAssumption DEF File
    <2> QED
        BY <2>1 DEF IsInjective
<1> HIDE DEF all, new, S
<1>3. new \in Seq(File) /\ ToSet(new) \subseteq S /\ IsInjective(new)
    BY <1>1, <1>2, RetainFacts
<1> DEFINE s == lk \o new
<1>4. /\ s \in Seq(File) /\ DOMAIN s = 1..(Len(lk) + Len(new))
      /\ Len(lk) \in Nat /\ Len(new) \in Nat
      /\ DOMAIN lk = 1..Len(lk) /\ DOMAIN new = 1..Len(new)
      /\ \A n \in 1..Len(lk) : s[n] = lk[n]
      /\ \A n \in 1..Len(new) : s[Len(lk) + n] = new[n]
    BY <1>3
<1>5. \A n \in DOMAIN lk, m \in DOMAIN new : lk[n] # new[m]
    <2>1. \A n \in DOMAIN lk : lk[n] \in ToSet(lk)
        BY DEF ToSet
    <2>2. \A m \in DOMAIN new : new[m] \in ToSet(new)
        BY DEF ToSet
    <2> QED
        BY <1>3, <2>1, <2>2 DEF S
<1> HIDE DEF s
<1>6. ASSUME NEW n \in DOMAIN s
      PROVE  \/ n \in DOMAIN lk /\ s[n] = lk[n]
             \/ n - Len(lk) \in DOMAIN new /\ s[n] = new[n - Len(lk)]
    <2>1. CASE n =< Len(lk)
        BY <1>4, <2>1
    <2>2. CASE ~(n =< Len(lk))
        <3>1. n - Len(lk) \in 1..Len(new) /\ Len(lk) + (n - Len(lk)) = n
            BY <1>4, <2>2
        <3> QED
            BY <1>4, <3>1
    <2> QED
        BY <2>1, <2>2
<1>7. ASSUME NEW n \in DOMAIN s, NEW m \in DOMAIN s, s[n] = s[m] PROVE n = m
    <2>1. n \in Int /\ m \in Int /\ Len(lk) \in Int
        BY <1>4
    <2>2. CASE n \in DOMAIN lk /\ s[n] = lk[n] /\ m \in DOMAIN lk /\ s[m] = lk[m]
        BY <1>7, <2>2 DEF IsInjective
    <2>3. CASE /\ n - Len(lk) \in DOMAIN new /\ s[n] = new[n - Len(lk)]
               /\ m - Len(lk) \in DOMAIN new /\ s[m] = new[m - Len(lk)]
        <3>1. n - Len(lk) = m - Len(lk)
            BY <1>3, <1>7, <2>3 DEF IsInjective
        <3> QED
            BY <2>1, <3>1
    <2> QED
        BY <1>5, <1>6, <1>7, <2>2, <2>3
<1>8. IsInjective(s)
    BY <1>7 DEF IsInjective
<1> QED
    BY <1>3, <1>4, <1>8 DEF s, new

-----------------------------------------------------------------------------
(* The invariant of migrations *)

\* What the lock and the registry are once the migration that is running ends.
LockNow     == IF mig = Idle THEN lock ELSE mig.lock
StateNow    == IF mig = Idle THEN state ELSE mig.state
RegistryNow == Load(StateNow)

\* Whatever interleaving of edits, migrations and commits: schema.lock names
\* files, each once, and if schema.state loads, it loads as a registry in which
\* every index is in the collection its name begins with.  Between its writes a
\* migration carries both, and its lock is on disk before it touches schema.state.
FilesOK ==
    /\ files \subseteq File
    /\ mig = Running(mig.pc, mig.lock, mig.state)
    /\ mig = Idle \/ mig.pc \in {"lock", "lockdata", "state", "statedata"}
    /\ mig.pc \in {"state", "statedata"} => lock = mig.lock
    /\ LockNow \in Seq(File) /\ IsInjective(LockNow)
    /\ Loads(StateNow) => RegistryNow \in Registry /\ Owned(RegistryNow)

PlainFiles(lk) == \A f \in ToSet(lk) : PlainFile(f)

\* If the files of the lock are plain, schema.state loads and they describe the
\* registry.
Described ==
    PlainFiles(LockNow) =>
        /\ Loads(StateNow) /\ PlainRegistry(RegistryNow)
        /\ ApplyFiles(NoFun, LockNow) = [ok |-> TRUE, reg |-> RegistryNow]

MigrationInv == FilesOK /\ Described

\* A repository without migrations has an empty registry.
LEMMA MigrationInit == Init => MigrationInv
<1> SUFFICES ASSUME Init PROVE MigrationInv
    OBVIOUS
<1>1. mig = Idle /\ lock = <<>> /\ files = {} /\ state = <<>>
    BY DEF Init
<1>2. LockNow = <<>> /\ StateNow = <<>> /\ RegistryNow = Load(<<>>)
    BY <1>1 DEF LockNow, StateNow, RegistryNow
<1>3. Load(<<>>) = NoFun /\ Loads(<<>>)
    BY ParseNothing DEF Load, Loads
<1>4. mig = Running(mig.pc, mig.lock, mig.state) /\ mig.pc = "idle"
    BY <1>1 DEF Idle, Running
<1>5. LockNow \in Seq(File) /\ IsInjective(LockNow)
    BY <1>2 DEF IsInjective
<1>6. RegistryNow \in Registry /\ Owned(RegistryNow) /\ PlainRegistry(RegistryNow)
    BY <1>2, <1>3, NoFunRegistry DEF Owned, PlainRegistry
<1>7. Described
    BY <1>2, <1>3, <1>6, ApplyNothing DEF Described
<1> QED
    BY <1>1, <1>4, <1>5, <1>6, <1>7 DEF MigrationInv, FilesOK

\* The lock and the state that the migration will leave stay as they are.
Carried == /\ LockNow' = LockNow
           /\ StateNow' = StateNow

\* A step that leaves the lock and the state to come as they are preserves the invariant.
LEMMA CarriedOK ==
    ASSUME MigrationInv, Carried, files' \subseteq File,
           mig' = Running(mig'.pc, mig'.lock, mig'.state),
           mig' = Idle \/ mig'.pc \in {"lock", "lockdata", "state", "statedata"},
           mig'.pc \in {"state", "statedata"} => lock' = mig'.lock
    PROVE  MigrationInv'
<1>1. RegistryNow' = RegistryNow
    BY DEF RegistryNow, Carried
<1>2. /\ LockNow' \in Seq(File) /\ IsInjective(LockNow')
      /\ Loads(StateNow') => RegistryNow' \in Registry /\ Owned(RegistryNow')
    BY <1>1 DEF MigrationInv, FilesOK, Carried
<1>3. FilesOK'
    BY <1>2 DEF FilesOK
<1>4. Described'
    BY <1>1 DEF MigrationInv, Described, Carried
<1> QED
    BY <1>3, <1>4 DEF MigrationInv

\* Some of the files of a lock that are plain are plain, and so are their statements.
LEMMA PlainParts ==
    ASSUME NEW a \in Seq(File), NEW b \in Seq(File), PlainFiles(a \o b)
    PROVE  PlainFiles(a) /\ AllPlain(StatementsOf(b))
<1> DEFINE ab == a \o b
<1>1. /\ DOMAIN ab = 1..(Len(a) + Len(b)) /\ Len(a) \in Nat /\ Len(b) \in Nat
      /\ DOMAIN a = 1..Len(a) /\ DOMAIN b = 1..Len(b)
      /\ \A n \in 1..Len(a) : ab[n] = a[n]
      /\ \A n \in 1..Len(b) : ab[Len(a) + n] = b[n]
    OBVIOUS
<1>2. PlainFiles(ab)
    OBVIOUS
<1> HIDE DEF ab
<1>3. ToSet(a) \subseteq ToSet(ab)
    <2> SUFFICES ASSUME NEW n \in DOMAIN a PROVE a[n] \in ToSet(ab)
        BY DEF ToSet
    <2>1. n \in DOMAIN ab /\ ab[n] = a[n]
        BY <1>1
    <2> QED
        BY <2>1 DEF ToSet
<1>4. ToSet(b) \subseteq ToSet(ab)
    <2> SUFFICES ASSUME NEW n \in DOMAIN b PROVE b[n] \in ToSet(ab)
        BY DEF ToSet
    <2>1. Len(a) + n \in DOMAIN ab /\ ab[Len(a) + n] = b[n]
        BY <1>1
    <2> QED
        BY <2>1 DEF ToSet
<1>5. PlainFiles(a)
    BY <1>2, <1>3 DEF PlainFiles
<1>6. ASSUME NEW st \in StatementsOf(b) PROVE PlainStatement(st)
    <2>1. PICK f \in ToSet(b) : st \in ToSet(Migration[f])
        BY DEF StatementsOf
    <2>2. PlainFile(f)
        BY <1>2, <1>4 DEF PlainFiles
    <2> QED
        BY <2>1, <2>2 DEF PlainFile, ToSet
<1> QED
    BY <1>5, <1>6 DEF AllPlain

\* Migrate computes what the lock and the state will be.
LEMMA MigrateOK ==
    ASSUME MigrationInv, Migrate
    PROVE  /\ MigrationInv'
           /\ Loads(StateNow)
           /\ Whole /\ Loads(StateNow') => KeysKept(RegistryNow, RegistryNow')
<1> DEFINE new == PendingFiles(files, lock)
           res == ApplyFiles(Load(state), new)
<1>1. /\ mig = Idle /\ Loads(state) /\ res.ok
      /\ mig' = Running("lock", lock \o new, ToStateFile(res.reg))
      /\ files' = files
    BY DEF Migrate
<1>2. LockNow = lock /\ StateNow = state /\ RegistryNow = Load(state)
    BY <1>1 DEF LockNow, StateNow, RegistryNow
<1>3. /\ files \in SUBSET File /\ lock \in Seq(File) /\ IsInjective(lock)
      /\ Load(state) \in Registry /\ Owned(Load(state))
    BY <1>1, <1>2 DEF MigrationInv, FilesOK
<1>4. new \in Seq(File) /\ lock \o new \in Seq(File) /\ IsInjective(lock \o new)
    BY <1>3, PendingFacts
<1> HIDE DEF new
<1>5. StatementFacts([ok |-> TRUE, reg |-> Load(state)], res, StatementsOf(new))
    BY <1>3, <1>4, ApplyFilesFacts
<1>6. /\ res \in Applied /\ res.reg \in Registry
      /\ KeysKept(Load(state), res.reg)
      /\ AllPlain(StatementsOf(new)) /\ PlainRegistry(Load(state)) => PlainRegistry(res.reg)
    BY <1>3, <1>5 DEF StatementFacts, Applied
<1>7. res = [ok |-> TRUE, reg |-> res.reg]
    <2>1. res.ok = TRUE
        BY <1>1, <1>6 DEF Applied
    <2> HIDE DEF res
    <2> QED
        BY <1>6, <2>1 DEF Applied
<1>8. ApplyFiles(NoFun, lock) = [ok |-> TRUE, reg |-> Load(state)]
      => ApplyFiles(NoFun, lock \o new) = res
    BY <1>3, <1>4, ApplyFilesConcat
<1> HIDE DEF res
<1>9. mig'.pc = "lock" /\ mig'.lock = lock \o new /\ mig'.state = ToStateFile(res.reg)
    BY <1>1 DEF Running
<1>10. mig' # Idle
    BY <1>9 DEF Idle, Running
<1>11. LockNow' = lock \o new /\ StateNow' = ToStateFile(res.reg) /\ RegistryNow' = Load(ToStateFile(res.reg))
    BY <1>9, <1>10 DEF LockNow, StateNow, RegistryNow
<1>12. ASSUME Loads(StateNow')
       PROVE  RegistryNow' \in Registry /\ Owned(RegistryNow') /\ (Whole => KeysKept(res.reg, RegistryNow'))
    BY <1>6, <1>11, <1>12, ReadBack
<1>13. Whole /\ Loads(StateNow') => KeysKept(RegistryNow, RegistryNow')
    BY <1>2, <1>6, <1>12, KeysKeptTwice
<1>14. FilesOK'
    <2>1. mig' = Running(mig'.pc, mig'.lock, mig'.state)
        BY <1>1, <1>9
    <2>2. mig'.pc \in {"lock", "lockdata", "state", "statedata"} /\ mig'.pc \notin {"state", "statedata"}
        BY <1>9
    <2>3. LockNow' \in Seq(File) /\ IsInjective(LockNow')
        BY <1>4, <1>11
    <2>4. files' \subseteq File
        BY <1>1, <1>3
    <2> QED
        BY <1>12, <2>1, <2>2, <2>3, <2>4 DEF FilesOK
<1>15. Described'
    <2>1. ASSUME PlainFiles(LockNow')
          PROVE  /\ Loads(StateNow') /\ PlainRegistry(RegistryNow')
                 /\ ApplyFiles(NoFun, LockNow') = [ok |-> TRUE, reg |-> RegistryNow']
        <3>1. PlainFiles(lock) /\ AllPlain(StatementsOf(new))
            BY <1>3, <1>4, <1>11, <2>1, PlainParts
        <3>2. PlainRegistry(Load(state)) /\ ApplyFiles(NoFun, lock) = [ok |-> TRUE, reg |-> Load(state)]
            BY <1>2, <3>1 DEF MigrationInv, Described
        <3>3. PlainRegistry(res.reg)
            BY <1>6, <3>1, <3>2
        <3>4. RegistryNow' = res.reg /\ Loads(StateNow')
            BY <1>6, <1>11, <3>3, RoundTrip, PlainLoads
        <3> QED
            BY <1>7, <1>8, <1>11, <3>2, <3>3, <3>4
    <2> QED
        BY <2>1 DEF Described, PlainFiles
<1> QED
    BY <1>1, <1>2, <1>13, <1>14, <1>15 DEF MigrationInv

\* No other step changes what the lock and the registry are going to be.
LEMMA MigrationStep ==
    ASSUME MigrationInv, [Next]_vars
    PROVE  MigrationInv' /\ (Migrate \/ Carried)
<1>1. FilesOK
    BY DEF MigrationInv
<1>2. /\ files \subseteq File /\ mig = Running(mig.pc, mig.lock, mig.state)
      /\ mig = Idle \/ mig.pc \in {"lock", "lockdata", "state", "statedata"}
      /\ mig.pc \in {"state", "statedata"} => lock = mig.lock
    BY <1>1 DEF FilesOK
<1>3. ASSUME files' \subseteq File, lock' = lock, state' = state, mig' = mig
      PROVE  MigrationInv' /\ Carried
    <2>1. Carried
        BY <1>3 DEF Carried, LockNow, StateNow
    <2> QED
        BY <1>2, <1>3, <2>1, CarriedOK
<1>4. CASE \E f \in File : AddFile(f) \/ RemoveFile(f)
    <2>1. files' \subseteq File /\ lock' = lock /\ state' = state /\ mig' = mig
        BY <1>2, <1>4 DEF AddFile, RemoveFile
    <2> QED
        BY <1>3, <2>1
<1>5. CASE Migrate
    BY <1>5, MigrateOK
<1>6. CASE LockTruncate \/ LockWrite \/ StateTruncate
    <2>1. /\ mig.pc # "idle" /\ files' = files /\ mig'.lock = mig.lock /\ mig'.state = mig.state
          /\ mig' = Running(mig'.pc, mig'.lock, mig'.state)
          /\ mig'.pc \in {"lockdata", "state", "statedata"}
        BY <1>2, <1>6 DEF LockTruncate, LockWrite, StateTruncate, Running
    <2>2. mig'.pc \in {"state", "statedata"} => lock' = mig'.lock
        BY <1>2, <1>6, <2>1 DEF LockTruncate, LockWrite, StateTruncate, Running
    <2>3. mig # Idle /\ mig' # Idle
        BY <2>1 DEF Idle, Running
    <2>4. Carried
        BY <2>1, <2>3 DEF Carried, LockNow, StateNow
    <2> QED
        BY <1>2, <2>1, <2>2, <2>4, CarriedOK
<1>7. CASE StateWrite
    <2>1. /\ mig.pc = "statedata" /\ files' = files /\ lock' = lock /\ state' = mig.state /\ mig' = Idle
        BY <1>7 DEF StateWrite
    <2>2. mig # Idle /\ lock = mig.lock
        BY <1>2, <2>1 DEF Idle, Running
    <2>3. Carried
        BY <2>1, <2>2 DEF Carried, LockNow, StateNow
    <2>4. mig' = Running(mig'.pc, mig'.lock, mig'.state) /\ mig'.pc = "idle"
        BY <2>1 DEF Idle, Running
    <2> QED
        BY <1>2, <2>1, <2>3, <2>4, CarriedOK
<1>8. CASE \E b \in DOMAIN commits : CmdCommit(b) \/ \E payload \in Payloads : ExecCommit(b, payload)
    <2>1. files' = files /\ lock' = lock /\ state' = state /\ mig' = mig
        BY <1>8 DEF CmdCommit, ExecCommit
    <2> QED
        BY <1>2, <1>3, <2>1
<1>9. CASE UNCHANGED vars
    BY <1>2, <1>3, <1>9 DEF vars
<1> QED
    BY <1>4, <1>5, <1>6, <1>7, <1>8, <1>9 DEF Next

\* The invariant of migrations holds in every behaviour without kills.
THEOREM MigrationsInvariant == Spec => []MigrationInv
<1>1. Init => MigrationInv
    BY MigrationInit
<1>2. MigrationInv /\ [Next]_vars => MigrationInv'
    BY MigrationStep
<1> QED
    BY <1>1, <1>2, PTL DEF Spec

\* Between migrations no file is in schema.lock twice; and whatever files are
\* added, taken back, fail or are applied in whatever order, as long as those that
\* were applied are plain, schema.state loads and the registry loaded from it is
\* the one that the files of schema.lock describe.
THEOREM StateFollowsLock == Spec => []StateMatchesLock
<1>1. MigrationInv => StateMatchesLock
    BY DEF MigrationInv, FilesOK, Described, PlainFiles, StateMatchesLock, LockNow, StateNow, RegistryNow
<1> QED
    BY <1>1, MigrationsInvariant, PTL

-----------------------------------------------------------------------------
(* The invariant of index roots *)

Doc == UNION {[D -> Val] : D \in SUBSET Path}

\* No two of the indexes that migrations create have one name.
DistinctNames == \A i, j \in Index : i.name = j.name => i = j

\* A trie with one entry.
Entry(v, key) == [x \in {v} |-> key]

\* The root of index i is what it has to be for a document of a collection c.
RootIs(roots, i, doc, c) ==
    IF i.path \in DOMAIN doc /\ PrimaryKey(c, doc) # NoKey
    THEN i.name \in DOMAIN roots /\ roots[i.name] = Entry(doc[i.path], PrimaryKey(c, doc))
    ELSE i.name \notin DOMAIN roots

\* The collection of an index.
Home(i) == Base[i.name[1]]

\* The roots there are, are right for the document.
RootsOK(roots, doc, reg) ==
    /\ roots = [n \in DOMAIN roots |-> roots[n]]
    /\ \A n \in DOMAIN roots : \E i \in Index :
        n = i.name /\ Home(i) \in DOMAIN reg /\ RootIs(roots, i, doc, reg[Home(i)])

IsSequence(s) == s \in Seq(ToSet(s))

CommitOK(c) ==
    /\ c.doc \in Doc
    /\ c.indexed => /\ c.reg \in Registry
                    /\ DOMAIN c.roots \subseteq {x.name : x \in AllIndexes(c.reg)}
                    /\ \A coll \in DOMAIN c.reg : \A x \in ToSet(c.reg[coll].indexes) :
                        RootIs(c.roots, x, c.doc, c.reg[coll])

\* Every commit, on whatever branch and from whatever time, has only roots that
\* are right for its document under the keys of the registry there is now, if
\* there is one.
CommitsOK ==
    /\ IsSequence(commits)
    /\ \A b \in DOMAIN commits : CommitOK(commits[b])
    /\ Loads(StateNow) =>
        \A b \in DOMAIN commits : RootsOK(commits[b].roots, commits[b].doc, RegistryNow)

IndexInv == MigrationInv /\ CommitsOK

\* extract_path finds the fields of a document and no others.
LEMMA DocFacts ==
    ASSUME NEW doc \in Doc
    PROVE  /\ DOMAIN doc \subseteq Path
           /\ \A p \in DOMAIN doc : doc[p] \in Val /\ doc[p] # None /\ Extract(doc, p) = doc[p]
           /\ \A p : Extract(doc, p) # None <=> p \in DOMAIN doc
<1>1. DOMAIN doc \subseteq Path /\ \A p \in DOMAIN doc : doc[p] \in Val
    BY DEF Doc
<1>2. None \notin Val
    BY SchemaAssumption
<1> QED
    BY <1>1, <1>2 DEF Extract

\* A document that only gains and changes fields keeps having a primary key.
LEMMA KeyStays ==
    ASSUME NEW old \in Doc, NEW new \in Doc, DOMAIN old \subseteq DOMAIN new,
           NEW c \in CollectionSchema, PrimaryKey(c, old) # NoKey
    PROVE  PrimaryKey(c, new) # NoKey
<1> DEFINE key == IF c.key = <<>> THEN <<Id>> ELSE c.key
<1>1. /\ PrimaryKey(c, old) = IF \E i \in DOMAIN key : Extract(old, key[i]) = None THEN NoKey
                              ELSE [i \in DOMAIN key |-> Extract(old, key[i])]
      /\ PrimaryKey(c, new) = IF \E i \in DOMAIN key : Extract(new, key[i]) = None THEN NoKey
                              ELSE [i \in DOMAIN key |-> Extract(new, key[i])]
    BY DEF PrimaryKey
<1>2. 1 \in DOMAIN key
    <2>1. c.key \in Seq(Path)
        BY SchemaFacts
    <2>2. c.key # <<>> => 1 \in DOMAIN c.key
        BY <2>1
    <2> QED
        BY <2>2
<1> HIDE DEF key
<1>3. \A i \in DOMAIN key : Extract(new, key[i]) # None
    <2>1. \A i \in DOMAIN key : key[i] \in DOMAIN old
        BY <1>1, DocFacts
    <2> QED
        BY <2>1, DocFacts
<1>4. PrimaryKey(c, new) = [i \in DOMAIN key |-> Extract(new, key[i])]
    BY <1>1, <1>3
<1>5. DOMAIN PrimaryKey(c, new) # {}
    BY <1>2, <1>4
<1>6. DOMAIN NoKey = {}
    BY DEF NoKey
<1> QED
    BY <1>5, <1>6

\* A commit never removes a field, so the key of the new document is the one used.
LEMMA KeyForNew ==
    ASSUME NEW old \in Doc, NEW new \in Doc, DOMAIN old \subseteq DOMAIN new, NEW c \in CollectionSchema
    PROVE  KeyFor(c, old, new) = PrimaryKey(c, new)
    BY KeyStays DEF KeyFor

\* r and t are functions that differ at name only.
OnlyAt(r, t, name) ==
    /\ t = [n \in DOMAIN t |-> t[n]]
    /\ \A n : n # name => (n \in DOMAIN t <=> n \in DOMAIN r) /\ (n \in DOMAIN r => t[n] = r[n])

\* Two changes of one root are a change of that root.
LEMMA OnlyAtTwice ==
    ASSUME NEW r, NEW s, NEW t, NEW name, OnlyAt(r, s, name), OnlyAt(s, t, name)
    PROVE  OnlyAt(r, t, name)
    BY DEF OnlyAt

\* Setting a root, or dropping it, changes that root only.
LEMMA WithOnlyAt ==
    ASSUME NEW r, NEW name, NEW y
    PROVE  OnlyAt(r, With(r, name, y), name) /\ OnlyAt(r, Without(r, name), name)
    BY DEF OnlyAt, With, Without

\* index_remove leaves the other indexes alone and its own trie without v.
LEMMA RemoveFacts ==
    ASSUME NEW roots, NEW name, NEW v, NEW t, t = RemoveEntry(roots, name, v)
    PROVE  /\ OnlyAt(roots, t, name)
           /\ DOMAIN Trie(t, name) \subseteq DOMAIN Trie(roots, name) \ {v}
<1> DEFINE e == Without(Trie(roots, name), v)
<1>1. t = IF DOMAIN e = {} THEN Without(roots, name) ELSE With(roots, name, e)
    BY DEF RemoveEntry
<1>2. DOMAIN e = DOMAIN Trie(roots, name) \ {v}
    BY DEF Without
<1> HIDE DEF e
<1>3. CASE DOMAIN e = {}
    <2>1. t = Without(roots, name)
        BY <1>1, <1>3
    <2>2. name \notin DOMAIN t
        BY <2>1 DEF Without
    <2>3. DOMAIN Trie(t, name) = {}
        BY <2>2 DEF Trie, NoFun
    <2> QED
        BY <2>1, <2>3, WithOnlyAt
<1>4. CASE DOMAIN e # {}
    <2>1. t = With(roots, name, e)
        BY <1>1, <1>4
    <2>2. Trie(t, name) = e
        BY <2>1 DEF Trie, With
    <2> QED
        BY <1>2, <2>1, <2>2, WithOnlyAt
<1> QED
    BY <1>3, <1>4

\* One index of update_indexes_for_commit: whether its root was right for the old
\* document, for the new one, or was not there, it is right for the new one then.
LEMMA UpdateIndexOK ==
    ASSUME NEW old \in Doc, NEW new \in Doc, DOMAIN old \subseteq DOMAIN new,
           NEW c \in CollectionSchema, NEW i \in Index, NEW r, r = [n \in DOMAIN r |-> r[n]],
           i.name \in DOMAIN r => RootIs(r, i, old, c) \/ RootIs(r, i, new, c),
           NEW t, t = UpdateIndex(r, i, KeyFor(c, old, new), old, new)
    PROVE  OnlyAt(r, t, i.name) /\ RootIs(t, i, new, c)
<1> DEFINE name == i.name
           p == i.path
           pk == PrimaryKey(c, new)
           oldVal == Extract(old, p)
           newVal == Extract(new, p)
           removed == IF oldVal # None /\ pk # NoKey /\ oldVal # newVal
                      THEN RemoveEntry(r, name, oldVal) ELSE r
<1>1. t = IF newVal # None /\ pk # NoKey THEN PutEntry(removed, name, newVal, pk) ELSE removed
    BY KeyForNew DEF UpdateIndex
<1>2. OnlyAt(r, r, name)
    BY DEF OnlyAt
<1>3. /\ oldVal # None <=> p \in DOMAIN old
      /\ newVal # None <=> p \in DOMAIN new
      /\ p \in DOMAIN old => old[p] = oldVal
      /\ p \in DOMAIN new => new[p] = newVal
    BY DocFacts
<1>4. PrimaryKey(c, old) # NoKey => pk # NoKey
    BY KeyStays
<1>5. CASE pk = NoKey \/ newVal = None
    <2>1. t = r
        BY <1>1, <1>3, <1>5
    <2>2. name \notin DOMAIN r
        BY <1>3, <1>4, <1>5 DEF RootIs
    <2>3. RootIs(r, i, new, c)
        BY <1>3, <1>5, <2>2 DEF RootIs
    <2> QED
        BY <1>2, <2>1, <2>3
<1>6. CASE pk # NoKey /\ newVal # None
    <2>1. DOMAIN Trie(r, name) \subseteq {oldVal, newVal}
        <3>1. CASE name \notin DOMAIN r
            BY <3>1 DEF Trie, NoFun
        <3>2. CASE name \in DOMAIN r
            <4>1. \/ p \in DOMAIN old /\ r[name] = Entry(old[p], PrimaryKey(c, old))
                  \/ r[name] = Entry(new[p], pk) /\ p \in DOMAIN new
                BY <3>2 DEF RootIs
            <4>2. Trie(r, name) = r[name]
                BY <3>2 DEF Trie
            <4> QED
                BY <1>3, <4>1, <4>2 DEF Entry
        <3> QED
            BY <3>1, <3>2
    <2>2. OnlyAt(r, removed, name) /\ DOMAIN Trie(removed, name) \subseteq {newVal}
        <3>1. CASE oldVal # None /\ oldVal # newVal
            <4>1. removed = RemoveEntry(r, name, oldVal)
                BY <1>6, <3>1
            <4> QED
                BY <2>1, <4>1, RemoveFacts
        <3>2. CASE oldVal = newVal
            BY <1>2, <2>1, <3>2
        <3>3. CASE oldVal = None
            <4>1. removed = r
                BY <3>3
            <4>2. name \in DOMAIN r => r[name] = Entry(new[p], pk) /\ p \in DOMAIN new
                BY <1>3, <3>3 DEF RootIs
            <4>3. DOMAIN Trie(r, name) \subseteq {newVal}
                BY <1>3, <4>2 DEF Trie, NoFun, Entry
            <4> QED
                BY <1>2, <4>1, <4>3
        <3> QED
            BY <3>1, <3>2, <3>3
    <2> HIDE DEF removed
    <2> DEFINE e == With(Trie(removed, name), newVal, pk)
    <2>3. t = With(removed, name, e)
        BY <1>1, <1>6 DEF PutEntry
    <2>4. e = Entry(newVal, pk)
        BY <2>2 DEF With, Entry
    <2> HIDE DEF e
    <2>5. OnlyAt(r, t, name)
        BY <2>2, <2>3, WithOnlyAt, OnlyAtTwice
    <2>6. name \in DOMAIN t /\ t[name] = e
        BY <2>3 DEF With
    <2>7. RootIs(t, i, new, c)
        BY <1>3, <1>6, <2>4, <2>6 DEF RootIs
    <2> QED
        BY <2>5, <2>7
<1> QED
    BY <1>5, <1>6

\* While the indexes are updated, the roots there are, are right for the old or
\* for the new document.
Mixed(r, old, new, reg) ==
    /\ r = [n \in DOMAIN r |-> r[n]]
    /\ \A n \in DOMAIN r : \E i \in Index :
        /\ n = i.name /\ Home(i) \in DOMAIN reg
        /\ RootIs(r, i, old, reg[Home(i)]) \/ RootIs(r, i, new, reg[Home(i)])

\* From r to t, no root that was right for the new document became wrong.
Advance(r, t, old, new, reg) ==
    /\ Mixed(t, old, new, reg)
    /\ \A i \in Index : Home(i) \in DOMAIN reg /\ RootIs(r, i, new, reg[Home(i)])
                        => RootIs(t, i, new, reg[Home(i)])

\* Two advances in a row are an advance.
LEMMA AdvanceTwice ==
    ASSUME NEW r, NEW s, NEW t, NEW old, NEW new, NEW reg,
           Advance(r, s, old, new, reg), Advance(s, t, old, new, reg)
    PROVE  Advance(r, t, old, new, reg)
    BY DEF Advance

\* A root depends on the map at its name only.
LEMMA RootIsAt ==
    ASSUME NEW r, NEW t, NEW name, OnlyAt(r, t, name), NEW i, i.name # name, NEW doc, NEW c,
           RootIs(r, i, doc, c)
    PROVE  RootIs(t, i, doc, c)
    BY DEF OnlyAt, RootIs

\* Updating one index makes its root right for the new document and disturbs no other.
LEMMA IndexAdvance ==
    ASSUME DistinctNames, NEW old \in Doc, NEW new \in Doc, DOMAIN old \subseteq DOMAIN new,
           NEW reg \in Registry, NEW r, Mixed(r, old, new, reg), NEW i \in Index, Home(i) \in DOMAIN reg,
           NEW t, t = UpdateIndex(r, i, KeyFor(reg[Home(i)], old, new), old, new)
    PROVE  Advance(r, t, old, new, reg) /\ RootIs(t, i, new, reg[Home(i)])
<1> DEFINE c == reg[Home(i)]
<1>1. c \in CollectionSchema
    BY RegistryFacts
<1>2. i.name \in DOMAIN r => RootIs(r, i, old, c) \/ RootIs(r, i, new, c)
    <2> SUFFICES ASSUME i.name \in DOMAIN r PROVE RootIs(r, i, old, c) \/ RootIs(r, i, new, c)
        OBVIOUS
    <2>1. PICK j \in Index : /\ i.name = j.name
                             /\ RootIs(r, j, old, reg[Home(j)]) \/ RootIs(r, j, new, reg[Home(j)])
        BY DEF Mixed
    <2>2. i = j
        BY <2>1 DEF DistinctNames
    <2> QED
        BY <2>1, <2>2
<1>3. r = [n \in DOMAIN r |-> r[n]]
    BY DEF Mixed
<1>4. OnlyAt(r, t, i.name) /\ RootIs(t, i, new, c)
    BY <1>1, <1>2, <1>3, UpdateIndexOK
<1>5. Mixed(t, old, new, reg)
    <2>1. t = [n \in DOMAIN t |-> t[n]]
        BY <1>4 DEF OnlyAt
    <2>2. ASSUME NEW n \in DOMAIN t
          PROVE  \E j \in Index : /\ n = j.name /\ Home(j) \in DOMAIN reg
                                  /\ RootIs(t, j, old, reg[Home(j)]) \/ RootIs(t, j, new, reg[Home(j)])
        <3>1. CASE n = i.name
            BY <1>4, <3>1
        <3>2. CASE n # i.name
            <4>1. n \in DOMAIN r
                BY <1>4, <2>2, <3>2 DEF OnlyAt
            <4>2. PICK j \in Index : /\ n = j.name /\ Home(j) \in DOMAIN reg
                                     /\ RootIs(r, j, old, reg[Home(j)]) \/ RootIs(r, j, new, reg[Home(j)])
                BY <4>1 DEF Mixed
            <4>3. RootIs(t, j, old, reg[Home(j)]) \/ RootIs(t, j, new, reg[Home(j)])
                BY <1>4, <3>2, <4>2, RootIsAt
            <4> QED
                BY <4>2, <4>3
        <3> QED
            BY <3>1, <3>2
    <2> QED
        BY <2>1, <2>2 DEF Mixed
<1>6. ASSUME NEW j \in Index, Home(j) \in DOMAIN reg, RootIs(r, j, new, reg[Home(j)])
      PROVE  RootIs(t, j, new, reg[Home(j)])
    <2>1. CASE j.name = i.name
        <3>1. j = i
            BY <2>1 DEF DistinctNames
        <3> QED
            BY <1>4, <3>1
    <2>2. CASE j.name # i.name
        BY <1>4, <1>6, <2>2, RootIsAt
    <2> QED
        BY <2>1, <2>2
<1> QED
    BY <1>4, <1>5, <1>6 DEF Advance

\* The indexes of one collection.
LEMMA CollectionAdvance ==
    ASSUME DistinctNames, NEW old \in Doc, NEW new \in Doc, DOMAIN old \subseteq DOMAIN new,
           NEW reg \in Registry, Owned(reg), NEW r, Mixed(r, old, new, reg), NEW c \in DOMAIN reg,
           NEW t, t = UpdateCollection(r, reg[c], old, new)
    PROVE  /\ Advance(r, t, old, new, reg)
           /\ \A k \in DOMAIN reg[c].indexes : RootIs(t, reg[c].indexes[k], new, reg[c])
<1> DEFINE idx == reg[c].indexes
           N == Len(idx)
           Good(n, s) == /\ Advance(r, s, old, new, reg)
                         /\ \A k \in 1..n : RootIs(s, idx[k], new, reg[c])
<1>1. idx \in Seq(Index)
    <2>1. reg[c] \in CollectionSchema
        BY RegistryFacts
    <2> QED
        BY <2>1, SchemaFacts
<1>2. N \in Nat /\ DOMAIN idx = 1..N
    BY <1>1
<1>3. \A k \in 1..N : idx[k] \in Index /\ Home(idx[k]) = c
    BY <1>1, <1>2 DEF Owned, Home
<1>4. PICK f : CollectionRun(f, r, reg[c], old, new) /\ UpdateCollection(r, reg[c], old, new) = f[N]
    BY <1>2, CollectionHasRun
<1>5. /\ f[0] = r
      /\ \A n \in 1..N : f[n] = UpdateIndex(f[n - 1], idx[n], KeyFor(reg[c], old, new), old, new)
    BY <1>4 DEF CollectionRun
<1> HIDE DEF idx, N
<1> DEFINE T == {n \in Nat : n =< N => Good(n, f[n])}
<1>6. 0 \in T
    <2>1. Good(0, r)
        BY DEF Advance
    <2> HIDE DEF Good
    <2> QED
        BY <1>5, <2>1
<1>7. ASSUME NEW n \in Nat, n \in T PROVE n + 1 \in T
    <2>1. SUFFICES ASSUME n + 1 =< N PROVE Good(n + 1, f[n + 1])
        <3> HIDE DEF Good
        <3> QED
            OBVIOUS
    <2>2. n + 1 \in 1..N /\ (n + 1) - 1 = n /\ n =< N
        BY <1>2, <2>1
    <2>3. Good(n, f[n])
        <3> HIDE DEF Good
        <3> QED
            BY <1>7, <2>2
    <2> DEFINE i == idx[n + 1]
    <2>4. i \in Index /\ Home(i) = c
        BY <1>3, <2>2
    <2>5. f[n + 1] = UpdateIndex(f[n], i, KeyFor(reg[Home(i)], old, new), old, new)
        BY <1>5, <2>2, <2>4
    <2> HIDE DEF i
    <2>6. Mixed(f[n], old, new, reg)
        BY <2>3 DEF Advance
    <2>7. Advance(f[n], f[n + 1], old, new, reg) /\ RootIs(f[n + 1], i, new, reg[c])
        BY <2>4, <2>5, <2>6, IndexAdvance
    <2>8. Advance(r, f[n + 1], old, new, reg)
        BY <2>3, <2>7, AdvanceTwice
    <2>9. ASSUME NEW k \in 1..(n + 1) PROVE RootIs(f[n + 1], idx[k], new, reg[c])
        <3>1. CASE k = n + 1
            BY <2>7, <3>1 DEF i
        <3>2. CASE k # n + 1
            <4>1. k \in 1..n /\ k \in 1..N
                BY <1>2, <2>2, <3>2
            <4>2. RootIs(f[n], idx[k], new, reg[c]) /\ idx[k] \in Index /\ Home(idx[k]) = c
                BY <1>3, <2>3, <4>1
            <4> QED
                BY <2>7, <4>2 DEF Advance
        <3> QED
            BY <3>1, <3>2
    <2> QED
        BY <2>8, <2>9
<1>8. Good(N, f[N])
    <2>1. N \in T
        <3> HIDE DEF T
        <3> QED
            BY <1>2, <1>6, <1>7, Induction
    <2> HIDE DEF Good
    <2> QED
        BY <1>2, <2>1
<1> QED
    BY <1>2, <1>4, <1>8 DEF idx

\* All collections: update_indexes_for_commit leaves roots that are right for the
\* new document, one for every index that has to have one, and no others.
LEMMA UpdateIndexesOK ==
    ASSUME DistinctNames, NEW old \in Doc, NEW new \in Doc, DOMAIN old \subseteq DOMAIN new,
           NEW reg \in Registry, Owned(reg), NEW roots, RootsOK(roots, old, reg),
           NEW t, t = UpdateIndexes(reg, old, new, roots)
    PROVE  /\ RootsOK(t, new, reg)
           /\ DOMAIN t \subseteq {x.name : x \in AllIndexes(reg)}
           /\ \A c \in DOMAIN reg : \A x \in ToSet(reg[c].indexes) : RootIs(t, x, new, reg[c])
<1>1. CASE DOMAIN reg = {}
    <2>1. t = roots
        BY <1>1 DEF UpdateIndexes
    <2>2. DOMAIN roots = {}
        BY <1>1 DEF RootsOK
    <2> QED
        BY <1>1, <2>1, <2>2 DEF RootsOK
<1>2. CASE DOMAIN reg # {}
    <2> DEFINE N == Len(CollSeq)
               Done(c, s) == \A k \in DOMAIN reg[c].indexes : RootIs(s, reg[c].indexes[k], new, reg[c])
               Good(n, s) == /\ Mixed(s, old, new, reg)
                             /\ \A c \in Written(reg, n) : Done(c, s)
    <2>1. N \in Nat /\ Coll = {CollSeq[i] : i \in 1..N}
        BY SchemaAssumption DEF Coll, ToSet
    <2>2. PICK f : RootsRun(f, reg, old, new, roots) /\ t = Live(reg, f[N])
        BY <1>2, <2>1, RootsHaveRun
    <2>3. /\ f[0] = roots
          /\ \A n \in 1..N : f[n] = IF CollSeq[n] \in DOMAIN reg
                                    THEN UpdateCollection(f[n - 1], reg[CollSeq[n]], old, new)
                                    ELSE f[n - 1]
        BY <2>2 DEF RootsRun
    <2> HIDE DEF N
    <2>4. ASSUME NEW c \in DOMAIN reg, NEW k \in DOMAIN reg[c].indexes
          PROVE  reg[c].indexes[k] \in Index /\ Home(reg[c].indexes[k]) = c
        <3>1. reg[c].indexes \in Seq(Index)
            <4>1. reg[c] \in CollectionSchema
                BY RegistryFacts
            <4> QED
                BY <4>1, SchemaFacts
        <3> QED
            BY <3>1 DEF Owned, Home
    <2>5. ASSUME NEW c \in DOMAIN reg, NEW r, NEW s, Done(c, r), Advance(r, s, old, new, reg)
          PROVE  Done(c, s)
        BY <2>4, <2>5 DEF Advance
    <2> HIDE DEF Done
    <2> DEFINE T == {n \in Nat : n =< N => Good(n, f[n])}
    <2>6. 0 \in T
        <3>1. Written(reg, 0) = {}
            BY DEF Written
        <3>2. Mixed(roots, old, new, reg)
            BY DEF Mixed, RootsOK
        <3>3. Good(0, roots)
            BY <3>1, <3>2
        <3> HIDE DEF Good
        <3> QED
            BY <2>3, <3>3
    <2>7. ASSUME NEW n \in Nat, n \in T PROVE n + 1 \in T
        <3>1. SUFFICES ASSUME n + 1 =< N PROVE Good(n + 1, f[n + 1])
            <4> HIDE DEF Good
            <4> QED
                OBVIOUS
        <3>2. n + 1 \in 1..N /\ (n + 1) - 1 = n /\ n =< N
            BY <2>1, <3>1
        <3>3. Good(n, f[n])
            <4> HIDE DEF Good
            <4> QED
                BY <2>7, <3>2
        <3> DEFINE c == CollSeq[n + 1]
        <3>4. Written(reg, n + 1) \subseteq Written(reg, n) \cup {c} /\ Written(reg, n + 1) \subseteq DOMAIN reg
            <4>1. \A i \in 1..(n + 1) : i \in 1..n \/ i = n + 1
                OBVIOUS
            <4> QED
                BY <4>1 DEF Written
        <3>5. f[n + 1] = IF c \in DOMAIN reg THEN UpdateCollection(f[n], reg[c], old, new) ELSE f[n]
            BY <2>3, <3>2
        <3> HIDE DEF c
        <3>6. CASE c \notin DOMAIN reg
            BY <3>3, <3>4, <3>5, <3>6
        <3>7. CASE c \in DOMAIN reg
            <4>1. f[n + 1] = UpdateCollection(f[n], reg[c], old, new)
                BY <3>5, <3>7
            <4>2. Mixed(f[n], old, new, reg)
                BY <3>3
            <4>3. Advance(f[n], f[n + 1], old, new, reg) /\ Done(c, f[n + 1])
                BY <3>7, <4>1, <4>2, CollectionAdvance DEF Done
            <4>4. Mixed(f[n + 1], old, new, reg)
                BY <4>3 DEF Advance
            <4>5. ASSUME NEW d \in Written(reg, n + 1) PROVE Done(d, f[n + 1])
                <5>1. CASE d = c
                    BY <4>3, <5>1
                <5>2. CASE d # c
                    <6>1. d \in Written(reg, n) /\ d \in DOMAIN reg
                        BY <3>4, <5>2
                    <6>2. Done(d, f[n])
                        BY <3>3, <6>1
                    <6> QED
                        BY <2>5, <4>3, <6>1, <6>2
                <5> QED
                    BY <5>1, <5>2
            <4> QED
                BY <4>4, <4>5
        <3> QED
            BY <3>6, <3>7
    <2>8. Good(N, f[N])
        <3>1. N \in T
            <4> HIDE DEF T
            <4> QED
                BY <2>1, <2>6, <2>7, Induction
        <3> HIDE DEF Good
        <3> QED
            BY <2>1, <3>1
    <2>9. Written(reg, N) = DOMAIN reg
        <3>1. DOMAIN reg \subseteq Coll
            BY RegistryFacts
        <3> QED
            BY <2>1, <3>1 DEF Written
    <2> DEFINE u == f[N]
               live == {x.name : x \in AllIndexes(reg)}
    <2>10. \A c \in DOMAIN reg : \A x \in ToSet(reg[c].indexes) :
                x \in Index /\ Home(x) = c /\ RootIs(u, x, new, reg[c]) /\ x.name \in live
        <3>1. SUFFICES ASSUME NEW c \in DOMAIN reg, NEW x \in ToSet(reg[c].indexes)
                       PROVE  x \in Index /\ Home(x) = c /\ RootIs(u, x, new, reg[c]) /\ x.name \in live
            OBVIOUS
        <3>2. PICK k \in DOMAIN reg[c].indexes : x = reg[c].indexes[k]
            BY DEF ToSet
        <3>3. x \in AllIndexes(reg)
            BY DEF AllIndexes
        <3>4. RootIs(u, x, new, reg[c])
            BY <2>8, <2>9, <3>2 DEF Done
        <3> QED
            BY <2>4, <3>2, <3>3, <3>4
    <2>11. /\ DOMAIN t = DOMAIN u \cap live /\ \A n \in DOMAIN t : t[n] = u[n]
           /\ t = [n \in DOMAIN t |-> t[n]]
        BY <2>2 DEF Live, Restrict
    <2>12. ASSUME NEW c \in DOMAIN reg, NEW x \in ToSet(reg[c].indexes) PROVE RootIs(t, x, new, reg[c])
        <3>1. RootIs(u, x, new, reg[c]) /\ x.name \in live
            BY <2>10
        <3> HIDE DEF u, live
        <3> QED
            BY <2>11, <3>1 DEF RootIs
    <2>13. ASSUME NEW n \in DOMAIN t
           PROVE  \E i \in Index : n = i.name /\ Home(i) \in DOMAIN reg /\ RootIs(t, i, new, reg[Home(i)])
        <3>1. PICK x \in AllIndexes(reg) : n = x.name
            BY <2>11
        <3>2. PICK c \in DOMAIN reg : x \in ToSet(reg[c].indexes)
            BY DEF AllIndexes
        <3> QED
            BY <2>10, <2>12, <3>1, <3>2
    <2>14. RootsOK(t, new, reg)
        BY <2>11, <2>13 DEF RootsOK
    <2> QED
        BY <2>11, <2>12, <2>14
<1> QED
    BY <1>1, <1>2

\* The primary key of a document depends on the key fields only.
LEMMA SameKey ==
    ASSUME NEW a, NEW b, NEW doc, a.key = b.key
    PROVE  PrimaryKey(a, doc) = PrimaryKey(b, doc)
<1> DEFINE K(c) == IF c.key = <<>> THEN <<Id>> ELSE c.key
           P(key) == IF \E i \in DOMAIN key : Extract(doc, key[i]) = None THEN NoKey
                     ELSE [i \in DOMAIN key |-> Extract(doc, key[i])]
<1>1. K(a) = K(b)
    OBVIOUS
<1>2. PrimaryKey(a, doc) = P(K(a)) /\ PrimaryKey(b, doc) = P(K(b))
    BY DEF PrimaryKey
<1> HIDE DEF K, P
<1> QED
    BY <1>1, <1>2

\* Roots that are right stay right when collections and indexes are added.
LEMMA RootsKept ==
    ASSUME NEW roots, NEW doc, NEW reg, NEW next, RootsOK(roots, doc, reg), KeysKept(reg, next)
    PROVE  RootsOK(roots, doc, next)
<1>1. ASSUME NEW c \in DOMAIN reg
      PROVE  c \in DOMAIN next /\ PrimaryKey(next[c], doc) = PrimaryKey(reg[c], doc)
    <2>1. c \in DOMAIN next /\ next[c].key = reg[c].key
        BY DEF KeysKept
    <2> QED
        BY <2>1, SameKey
<1>2. ASSUME NEW n \in DOMAIN roots
      PROVE  \E i \in Index : n = i.name /\ Home(i) \in DOMAIN next /\ RootIs(roots, i, doc, next[Home(i)])
    <2>1. PICK i \in Index : n = i.name /\ Home(i) \in DOMAIN reg /\ RootIs(roots, i, doc, reg[Home(i)])
        BY DEF RootsOK
    <2>2. Home(i) \in DOMAIN next /\ RootIs(roots, i, doc, next[Home(i)])
        BY <1>1, <2>1 DEF RootIs
    <2> QED
        BY <2>1, <2>2
<1> QED
    BY <1>2 DEF RootsOK

\* t is s and c.
Grown(s, c, t) == \A b \in DOMAIN t : t[b] = c \/ (b \in DOMAIN s /\ t[b] = s[b])

\* A commit is appended after the ones there are.
LEMMA AppendCommit ==
    ASSUME NEW s, IsSequence(s), NEW c
    PROVE  IsSequence(Append(s, c)) /\ Grown(s, c, Append(s, c))
<1> DEFINE V == ToSet(s) \cup {c}
           t == Append(s, c)
<1>1. s \in Seq(V)
    BY DEF IsSequence
<1> HIDE DEF V
<1>2. c \in V
    BY DEF V
<1>3. /\ t \in Seq(V) /\ Len(t) \in Nat /\ DOMAIN t = 1..Len(t)
      /\ \A b \in DOMAIN t : t[b] = c \/ (b \in DOMAIN s /\ t[b] = s[b])
    BY <1>1, <1>2
<1> HIDE DEF t
<1>4. t \in Seq(ToSet(t))
    <2>1. \A b \in 1..Len(t) : t[b] \in ToSet(t)
        BY <1>3 DEF ToSet
    <2>2. t \in [1..Len(t) -> V]
        BY <1>3, LenProperties
    <2>3. t \in [1..Len(t) -> ToSet(t)]
        BY <2>1, <2>2
    <2> QED
        BY <1>3, <2>3, FunctionIsSeq
<1> QED
    BY <1>3, <1>4 DEF Grown, IsSequence, t

\* Without roots nothing is wrong.
LEMMA NoRoots ==
    ASSUME NEW doc, NEW reg
    PROVE  RootsOK(NoFun, doc, reg)
    BY DEF RootsOK, NoFun

\* Before any commit nothing is wrong.
LEMMA CommitsInit == Init => CommitsOK
<1> SUFFICES ASSUME Init PROVE CommitsOK
    OBVIOUS
<1> DEFINE c == CommitRec(NoFun, NoFun, NoFun, FALSE)
<1>1. commits = <<c>>
    BY DEF Init
<1>2. c.doc = NoFun /\ c.roots = NoFun /\ c.indexed = FALSE
    BY DEF CommitRec
<1> HIDE DEF c
<1>3. NoFun \in Doc
    BY DEF NoFun, Doc
<1>4. CommitOK(c) /\ RootsOK(c.roots, c.doc, RegistryNow)
    BY <1>2, <1>3, NoRoots DEF CommitOK
<1>5. IsSequence(commits) /\ \A b \in DOMAIN commits : commits[b] = c
    BY <1>1 DEF IsSequence, ToSet
<1> QED
    BY <1>4, <1>5 DEF CommitsOK

\* A commit is added to those there are.
LEMMA CommitAdded ==
    ASSUME CommitsOK, NEW c, commits' = Append(commits, c), StateNow' = StateNow,
           CommitOK(c), Loads(StateNow) => RootsOK(c.roots, c.doc, RegistryNow)
    PROVE  CommitsOK'
<1>1. IsSequence(Append(commits, c)) /\ Grown(commits, c, Append(commits, c))
    BY AppendCommit DEF CommitsOK
<1>2. IsSequence(commits') /\ Grown(commits, c, commits')
    BY <1>1
<1>3. \A b \in DOMAIN commits' : CommitOK(commits'[b])
    BY <1>2 DEF CommitsOK, Grown
<1>4. RegistryNow' = RegistryNow
    BY DEF RegistryNow
<1>5. ASSUME Loads(StateNow'), NEW b \in DOMAIN commits'
      PROVE  RootsOK(commits'[b].roots, commits'[b].doc, RegistryNow')
    BY <1>2, <1>4, <1>5 DEF CommitsOK, Grown
<1> QED
    BY <1>2, <1>3, <1>5 DEF CommitsOK

\* COMMIT makes roots that are right for the document it makes.
LEMMA ExecCommitOK ==
    ASSUME DistinctNames, MigrationInv, CommitsOK, NEW b \in DOMAIN commits, NEW payload \in Payloads,
           ExecCommit(b, payload), StateNow' = StateNow
    PROVE  CommitsOK'
<1> DEFINE base == commits[b]
           old == base.doc
           new == [p \in DOMAIN old \cup DOMAIN payload |-> IF p \in DOMAIN payload THEN payload[p] ELSE old[p]]
           reg == Load(state)
           t == UpdateIndexes(reg, old, new, base.roots)
           c == CommitRec(new, t, reg, TRUE)
<1>1. commits' = Append(commits, c) /\ mig = Idle /\ Loads(state)
    BY DEF ExecCommit
<1>2. StateNow = state /\ RegistryNow = reg
    BY <1>1 DEF StateNow, RegistryNow
<1>3. reg \in Registry /\ Owned(reg)
    BY <1>1, <1>2 DEF MigrationInv, FilesOK
<1>4. CommitOK(base) /\ RootsOK(base.roots, base.doc, reg)
    BY <1>1, <1>2 DEF CommitsOK
<1>5. old \in Doc /\ RootsOK(base.roots, old, reg)
    BY <1>4 DEF CommitOK
<1>6. new \in Doc /\ DOMAIN old \subseteq DOMAIN new
    <2>1. PICK D \in SUBSET Path : payload \in [D -> Val]
        BY DEF Payloads
    <2>2. PICK E \in SUBSET Path : old \in [E -> Val]
        BY <1>5 DEF Doc
    <2> HIDE DEF old
    <2>3. new \in [E \cup D -> Val] /\ DOMAIN old \subseteq DOMAIN new
        BY <2>1, <2>2
    <2> QED
        BY <2>3 DEF Doc
<1> HIDE DEF new, reg, old
<1>7. /\ RootsOK(t, new, reg)
      /\ DOMAIN t \subseteq {x.name : x \in AllIndexes(reg)}
      /\ \A d \in DOMAIN reg : \A x \in ToSet(reg[d].indexes) : RootIs(t, x, new, reg[d])
    BY <1>3, <1>5, <1>6, UpdateIndexesOK
<1>8. c.doc = new /\ c.roots = t /\ c.reg = reg /\ c.indexed = TRUE
    BY DEF CommitRec
<1> HIDE DEF c, t
<1>9. CommitOK(c) /\ RootsOK(c.roots, c.doc, reg)
    BY <1>3, <1>6, <1>7, <1>8 DEF CommitOK
<1> QED
    BY <1>1, <1>2, <1>9, CommitAdded

\* Every step preserves what is said of the commits.
LEMMA CommitsStep ==
    ASSUME DistinctNames, Whole, MigrationInv, CommitsOK, [Next]_vars
    PROVE  CommitsOK'
<1>1. Migrate \/ Carried
    BY MigrationStep
<1>2. CASE Migrate
    <2>1. /\ Loads(StateNow) /\ commits' = commits
          /\ Loads(StateNow') => KeysKept(RegistryNow, RegistryNow')
        BY <1>2, MigrateOK DEF Migrate
    <2>2. ASSUME Loads(StateNow'), NEW b \in DOMAIN commits
          PROVE  RootsOK(commits[b].roots, commits[b].doc, RegistryNow')
        BY <2>1, <2>2, RootsKept DEF CommitsOK
    <2> QED
        BY <2>1, <2>2 DEF CommitsOK
<1>3. CASE Carried
    <2>1. StateNow' = StateNow /\ RegistryNow' = RegistryNow
        BY <1>3 DEF Carried, RegistryNow
    <2>2. CASE commits' = commits
        BY <2>1, <2>2 DEF CommitsOK
    <2>3. CASE \E b \in DOMAIN commits : CmdCommit(b)
        <3>1. PICK b \in DOMAIN commits : CmdCommit(b)
            BY <2>3
        <3> DEFINE c == CommitRec(commits[b].doc, NoFun, NoFun, FALSE)
        <3>2. commits' = Append(commits, c)
            BY <3>1 DEF CmdCommit
        <3>3. c.doc = commits[b].doc /\ c.roots = NoFun /\ c.indexed = FALSE
            BY DEF CommitRec
        <3> HIDE DEF c
        <3>4. CommitOK(c) /\ RootsOK(c.roots, c.doc, RegistryNow)
            BY <3>3, NoRoots DEF CommitOK, CommitsOK
        <3> QED
            BY <2>1, <3>2, <3>4, CommitAdded
    <2>4. CASE \E b \in DOMAIN commits : \E payload \in Payloads : ExecCommit(b, payload)
        BY <2>1, <2>4, ExecCommitOK
    <2>5. \/ commits' = commits
          \/ \E b \in DOMAIN commits : CmdCommit(b) \/ \E payload \in Payloads : ExecCommit(b, payload)
        BY DEF Next, vars, AddFile, RemoveFile, Migrate, LockTruncate, LockWrite, StateTruncate, StateWrite
    <2> QED
        BY <2>2, <2>3, <2>4, <2>5
<1> QED
    BY <1>1, <1>2, <1>3

\* A lookup in roots that are right finds the document by the value it has.
LEMMA LookupExact ==
    ASSUME NEW doc \in Doc, NEW roots, NEW x, NEW c, RootIs(roots, x, doc, c), NEW v \in Val
    PROVE  LookupIndex(roots, x, v) = IF Extract(doc, x.path) = v THEN PrimaryKey(c, doc) ELSE NoKey
<1>1. v # None
    BY SchemaAssumption
<1>2. /\ x.path \in DOMAIN doc => Extract(doc, x.path) = doc[x.path]
      /\ x.path \notin DOMAIN doc => Extract(doc, x.path) = None
    BY DEF Extract
<1> DEFINE key == PrimaryKey(c, doc)
<1>3. CASE x.path \in DOMAIN doc /\ key # NoKey
    <2>1. x.name \in DOMAIN roots /\ roots[x.name] = Entry(doc[x.path], key)
        BY <1>3 DEF RootIs
    <2> HIDE DEF key
    <2>2. LookupIndex(roots, x, v) = IF v = doc[x.path] THEN key ELSE NoKey
        BY <2>1 DEF LookupIndex, Entry
    <2> QED
        BY <1>2, <1>3, <2>2 DEF key
<1>4. CASE ~(x.path \in DOMAIN doc /\ key # NoKey)
    <2>1. x.name \notin DOMAIN roots
        BY <1>4 DEF RootIs
    <2>2. LookupIndex(roots, x, v) = NoKey
        BY <2>1 DEF LookupIndex
    <2> QED
        BY <1>1, <1>2, <1>4, <2>2
<1> QED
    BY <1>3, <1>4

\* A lookup in a commit that COMMIT made returns the primary key of its document
\* exactly for the value the document has, in every index of the schema it was
\* made under, whatever commits it descends from and whenever its indexes were
\* created, dropped and created again: for any collections (with dots in their
\* names or without), keys, paths, values, migrations and payloads.  Two paths
\* with one slug share the name of an index and with it its old entries, so the
\* theorem is about migrations that never index both in one collection; and a
\* collection with a name of several words is read back with the first as its
\* name, and takes the place of the collection of that name, so there is none.
THEOREM LookupsExact ==
    ASSUME DistinctNames, Whole
    PROVE  Spec => []IndexesExact
<1>1. Init => IndexInv
    BY MigrationInit, CommitsInit DEF IndexInv
<1>2. IndexInv /\ [Next]_vars => IndexInv'
    BY MigrationStep, CommitsStep DEF IndexInv
<1>3. IndexInv => IndexesExact
    <2> SUFFICES ASSUME IndexInv, NEW b \in DOMAIN commits, commits[b].indexed
                 PROVE  /\ DOMAIN commits[b].roots \subseteq {x.name : x \in AllIndexes(commits[b].reg)}
                        /\ \A coll \in DOMAIN commits[b].reg :
                             \A x \in ToSet(commits[b].reg[coll].indexes) : \A v \in Val :
                                LookupIndex(commits[b].roots, x, v) =
                                    IF Extract(commits[b].doc, x.path) = v
                                    THEN PrimaryKey(commits[b].reg[coll], commits[b].doc) ELSE NoKey
        BY DEF IndexesExact
    <2> DEFINE c == commits[b]
    <2>1. CommitOK(c)
        BY DEF IndexInv, CommitsOK
    <2>2. /\ c.doc \in Doc
          /\ DOMAIN c.roots \subseteq {x.name : x \in AllIndexes(c.reg)}
          /\ \A coll \in DOMAIN c.reg : \A x \in ToSet(c.reg[coll].indexes) :
                RootIs(c.roots, x, c.doc, c.reg[coll])
        BY <2>1 DEF CommitOK
    <2> HIDE DEF c
    <2>3. \A coll \in DOMAIN c.reg : \A x \in ToSet(c.reg[coll].indexes) : \A v \in Val :
              LookupIndex(c.roots, x, v) =
                  IF Extract(c.doc, x.path) = v THEN PrimaryKey(c.reg[coll], c.doc) ELSE NoKey
        BY <2>2, LookupExact
    <2> QED
        BY <2>2, <2>3 DEF c
<1> QED
    BY <1>1, <1>2, <1>3, PTL DEF Spec

=============================================================================
