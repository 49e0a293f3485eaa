-------------------------- MODULE DiskStoreProofs ---------------------------
(***************************************************************************)
(* What a repository on disk promises, for any branches, documents, number  *)
(* of commits and number of kills and power losses: HEAD is usable until    *)
(* something is killed and never dangles while the files are what was       *)
(* written; COMMIT and MERGE keep a branch's history; and with an fsync on  *)
(* every commit whatever a ref holds can be walked and read to the end.     *)
(*                                                                          *)
(* The invariant is DiskInv.  The walk along parents is a recursive         *)
(* function: that it exists is itself part of the invariant (History), and  *)
(* that a new commit does not change the walk from an old one follows by    *)
(* looking at the least commit where it would.                              *)
(***************************************************************************)
EXTENDS DiskStore, WellFoundedInduction, SequenceTheorems, FiniteSetTheorems, TLAPS

-----------------------------------------------------------------------------
(* Walks *)

CommitRec == [parents : Seq(Obj), root : Root \cup {Zero}, trie : Root \cup {Zero}, whole : BOOLEAN]

Visit(cs, f, n) ==
    {n} \cup UNION {IF p \in DOMAIN cs THEN f[p] ELSE {p} : p \in ToSet(cs[n].parents)}

IsWalk(cs, f) == f = [n \in DOMAIN cs |-> Visit(cs, f, n)]

Older(cs) == \A n \in DOMAIN cs : ToSet(cs[n].parents) \subseteq Root \cup 1..(n - 1)

\* A set of natural numbers has a least member.
LEMMA NatMin ==
    ASSUME NEW T \in SUBSET Nat, T # {}
    PROVE  \E m \in T : \A k \in T : m =< k
<1>1. IsWellFoundedOn(OpToRel(<, Nat), Nat)
    BY NatLessThanWellFounded
<1>2. PICK m \in T : \A k \in T : ~(<<k, m>> \in OpToRel(<, Nat))
    BY <1>1, WFMin
<1>3. \A k \in T : ~(k < m)
    BY <1>2, Zenon DEF OpToRel
<1> QED
    BY <1>3

\* The walk of the model is a function that satisfies its recursive definition,
\* if there is one.
LEMMA WalkChosen == walk = CHOOSE f : IsWalk(commits, f)
BY DEF walk, IsWalk, Visit, IsCommit

\* Roots are negative.
LEMMA RootNegative == \A r \in Root : r \in Int /\ r < 0
BY DiskAssumption DEF Root

\* A commit of known parents extends the walk ...
LEMMA WalkExtends ==
    ASSUME NEW S, NEW cs \in Seq(S), Older(cs), NEW f, IsWalk(cs, f),
           NEW r \in S, ToSet(r.parents) \subseteq Root \cup DOMAIN cs
    PROVE  \E g : IsWalk(Append(cs, r), g)
<1> DEFINE N   == Len(cs)
           cs2 == Append(cs, r)
           g   == [n \in 1..N + 1 |->
                     IF n = N + 1
                     THEN {n} \cup UNION {IF p \in DOMAIN cs THEN f[p] ELSE {p} : p \in ToSet(r.parents)}
                     ELSE f[n]]
<1>1. /\ N \in Nat /\ DOMAIN cs = 1..N /\ DOMAIN cs2 = 1..N + 1 /\ cs2[N + 1] = r
      /\ \A n \in 1..N : cs2[n] = cs[n]
    OBVIOUS
<1>2. \A n \in 1..N : g[n] = f[n]
    BY <1>1
<1>3. ASSUME NEW n \in 1..N + 1 PROVE g[n] = Visit(cs2, g, n)
    <2>1. \A p \in ToSet(cs2[n].parents) : p \in Root \cup 1..N
        <3>1. CASE n = N + 1
            BY <1>1, <3>1
        <3>2. CASE n # N + 1
            <4>1. n \in DOMAIN cs /\ cs2[n] = cs[n]
                BY <1>1, <3>2
            <4>2. ToSet(cs[n].parents) \subseteq Root \cup 1..(n - 1)
                BY <4>1 DEF Older
            <4>3. 1..(n - 1) \subseteq 1..N
                BY <1>1
            <4> QED
                BY <4>1, <4>2, <4>3
        <3> QED
            BY <3>1, <3>2
    <2>2. \A p \in ToSet(cs2[n].parents) : p \in DOMAIN cs2 <=> p \in DOMAIN cs
        BY <1>1, <2>1, RootNegative
    <2>3. \A p \in ToSet(cs2[n].parents) :
              (IF p \in DOMAIN cs2 THEN g[p] ELSE {p}) = (IF p \in DOMAIN cs THEN f[p] ELSE {p})
        BY <1>1, <1>2, <2>2
    <2> HIDE DEF g
    <2>4. Visit(cs2, g, n) = {n} \cup UNION {IF p \in DOMAIN cs THEN f[p] ELSE {p} : p \in ToSet(cs2[n].parents)}
        <3>1. {IF p \in DOMAIN cs2 THEN g[p] ELSE {p} : p \in ToSet(cs2[n].parents)}
                = {IF p \in DOMAIN cs THEN f[p] ELSE {p} : p \in ToSet(cs2[n].parents)}
            BY <2>3
        <3> QED
            BY <3>1 DEF Visit
    <2>5. CASE n = N + 1
        BY <1>1, <2>4, <2>5 DEF g
    <2>6. CASE n # N + 1
        <3>1. n \in DOMAIN cs /\ cs2[n] = cs[n]
            BY <1>1, <2>6
        <3>2. f[n] = Visit(cs, f, n)
            BY <3>1 DEF IsWalk
        <3>3. g[n] = f[n]
            BY <1>1, <1>2, <3>1
        <3> QED
            BY <2>4, <3>1, <3>2, <3>3 DEF Visit
    <2> QED
        BY <2>5, <2>6
<1>4. DOMAIN g = DOMAIN cs2 /\ g = [n \in 1..N + 1 |-> g[n]]
    BY <1>1
<1> HIDE DEF g
<1>5. g = [n \in DOMAIN cs2 |-> Visit(cs2, g, n)]
    BY <1>1, <1>3, <1>4
<1> QED
    BY <1>5 DEF IsWalk

\* ... and leaves it as it was from older commits.
LEMMA WalkKept ==
    ASSUME NEW S, NEW cs \in Seq(S), Older(cs), NEW f, IsWalk(cs, f),
           NEW r \in S, NEW g, IsWalk(Append(cs, r), g)
    PROVE  \A n \in DOMAIN cs : g[n] = f[n]
<1> DEFINE N   == Len(cs)
           cs2 == Append(cs, r)
           Bad == {n \in 1..N : g[n] # f[n]}
<1>1. /\ N \in Nat /\ DOMAIN cs = 1..N /\ DOMAIN cs2 = 1..N + 1
      /\ \A n \in 1..N : cs2[n] = cs[n]
    OBVIOUS
<1> SUFFICES ASSUME Bad # {} PROVE FALSE
    BY <1>1
<1>2. Bad \in SUBSET Nat
    BY <1>1
<1>3. PICK m \in Bad : \A k \in Bad : m =< k
    <2> HIDE DEF Bad
    <2> QED
        BY <1>2, NatMin
<1>4. m \in 1..N /\ g[m] # f[m]
    OBVIOUS
<1>5. \A k \in 1..(m - 1) : k \in 1..N /\ g[k] = f[k]
    <2> SUFFICES ASSUME NEW k \in 1..(m - 1) PROVE k \in 1..N /\ g[k] = f[k]
        OBVIOUS
    <2>1. k \in 1..N /\ ~(m =< k)
        BY <1>1, <1>4
    <2> QED
        BY <1>3, <2>1
<1>6. f[m] = Visit(cs, f, m) /\ g[m] = Visit(cs2, g, m)
    <2>1. m \in DOMAIN cs /\ m \in DOMAIN cs2
        BY <1>1, <1>4
    <2>2. IsWalk(cs2, g)
        OBVIOUS
    <2> HIDE DEF cs2, Bad
    <2>3. f[m] = Visit(cs, f, m)
        BY <2>1 DEF IsWalk
    <2>4. g[m] = Visit(cs2, g, m)
        BY <2>1, <2>2 DEF IsWalk
    <2> QED
        BY <2>3, <2>4
<1>7. \A p \in ToSet(cs[m].parents) : p \in Root \cup 1..(m - 1)
    BY <1>1, <1>4 DEF Older
<1>8. \A p \in ToSet(cs[m].parents) :
          (IF p \in DOMAIN cs2 THEN g[p] ELSE {p}) = (IF p \in DOMAIN cs THEN f[p] ELSE {p})
    <2> SUFFICES ASSUME NEW p \in ToSet(cs[m].parents)
                 PROVE  (IF p \in DOMAIN cs2 THEN g[p] ELSE {p}) = (IF p \in DOMAIN cs THEN f[p] ELSE {p})
        OBVIOUS
    <2>1. CASE p \in 1..(m - 1)
        <3>1. p \in 1..N /\ g[p] = f[p]
            BY <1>5, <2>1
        <3>2. p \in DOMAIN cs2 /\ p \in DOMAIN cs
            BY <1>1, <3>1
        <3> QED
            BY <3>1, <3>2
    <2>2. CASE p \in Root
        <3>1. p \notin DOMAIN cs2 /\ p \notin DOMAIN cs
            BY <1>1, <2>2, RootNegative
        <3> QED
            BY <3>1
    <2> QED
        BY <1>7, <2>1, <2>2
<1>9. cs2[m] = cs[m]
    BY <1>1, <1>4
<1>10. {IF p \in DOMAIN cs2 THEN g[p] ELSE {p} : p \in ToSet(cs[m].parents)}
        = {IF p \in DOMAIN cs THEN f[p] ELSE {p} : p \in ToSet(cs[m].parents)}
    BY <1>8
<1>11. Visit(cs2, g, m) = Visit(cs, f, m)
    BY <1>9, <1>10 DEF Visit
<1> QED
    BY <1>4, <1>6, <1>11

\* The walk after a step, likewise.
LEMMA WalkChosenNext == walk' = CHOOSE f : IsWalk(commits', f)
BY DEF walk, IsWalk, Visit, IsCommit

\* History in terms of the above.
LEMMA HistoryWalk == History => Older(commits) /\ IsWalk(commits, walk)
BY Zenon DEF History, Older, IsWalk, Visit, IsCommit

\* The walk of a commit visits the commit and what its parents' walks visit.
LEMMA ReachStep ==
    ASSUME IsWalk(commits, walk), NEW n \in DOMAIN commits
    PROVE  Reach(n) = {n} \cup UNION {Reach(p) : p \in ToSet(commits[n].parents)}
<1>1. walk[n] = Visit(commits, walk, n)
    BY DEF IsWalk
<1>2. {IF p \in DOMAIN commits THEN walk[p] ELSE {p} : p \in ToSet(commits[n].parents)}
        = {Reach(p) : p \in ToSet(commits[n].parents)}
    BY DEF Reach, IsCommit
<1> QED
    BY <1>1, <1>2 DEF Reach, IsCommit, Visit

\* A walk visits where it starts.
LEMMA ReachSelf ==
    ASSUME IsWalk(commits, walk), NEW o
    PROVE  o \in Reach(o)
<1>1. CASE o \in DOMAIN commits
    BY <1>1, ReachStep
<1>2. CASE o \notin DOMAIN commits
    BY <1>2 DEF Reach, IsCommit
<1> QED
    BY <1>1, <1>2

\* A walk from a known object stays among known objects.
LEMMA ReachKnown ==
    ASSUME TypeOK, History, NEW o \in Known
    PROVE  Reach(o) \subseteq Known
<1> DEFINE Bad == {n \in DOMAIN commits : ~(Reach(n) \subseteq Known)}
           N   == Len(commits)
<1>1. N \in Nat /\ DOMAIN commits = 1..N
    BY DEF TypeOK
<1>2. Bad = {}
    <2> SUFFICES ASSUME Bad # {} PROVE FALSE
        OBVIOUS
    <2>1. Bad \in SUBSET Nat
        BY <1>1
    <2>2. PICK m \in Bad : \A k \in Bad : m =< k
        <3> HIDE DEF Bad
        <3> QED
            BY <2>1, NatMin
    <2>3. m \in 1..N /\ ~(Reach(m) \subseteq Known)
        BY <1>1
    <2>4. ToSet(commits[m].parents) \subseteq Root \cup 1..(m - 1)
        BY <1>1, <2>3 DEF History
    <2>5. ASSUME NEW p \in ToSet(commits[m].parents) PROVE Reach(p) \subseteq Known
        <3>1. CASE p \in 1..(m - 1)
            <4>1. p \in 1..N /\ ~(m =< p)
                BY <1>1, <2>3, <3>1
            <4>2. p \in DOMAIN commits /\ p \notin Bad
                BY <1>1, <2>2, <4>1
            <4> QED
                BY <4>2
        <3>2. CASE p \in Root
            <4>1. p \notin DOMAIN commits
                BY <1>1, <3>2, RootNegative
            <4> QED
                BY <3>2, <4>1 DEF Reach, IsCommit, Known
        <3> QED
            BY <2>4, <3>1, <3>2
    <2>6. m \in DOMAIN commits
        OBVIOUS
    <2>7. Reach(m) = {m} \cup UNION {Reach(p) : p \in ToSet(commits[m].parents)}
        BY <2>6, HistoryWalk, ReachStep
    <2>8. Reach(m) \subseteq Known
        <3> HIDE DEF Bad
        <3> QED
            BY <2>5, <2>6, <2>7 DEF Known
    <2> QED
        BY <2>3, <2>8
<1>3. CASE o \in DOMAIN commits
    BY <1>2, <1>3
<1>4. CASE o \notin DOMAIN commits
    BY <1>4 DEF Reach, IsCommit
<1> QED
    BY <1>3, <1>4

\* What is reached and stored does not depend on anything but the commits.
LEMMA SameWalk ==
    ASSUME commits' = commits
    PROVE  walk' = walk /\ Known' = Known /\ \A o : Reach(o)' = Reach(o)
<1>1. walk' = walk
    BY WalkChosen, WalkChosenNext
<1> QED
    BY <1>1 DEF Reach, IsCommit, Known

\* A commit r is added, with known parents.
Adds(r) ==
    /\ r \in CommitRec
    /\ ToSet(r.parents) \subseteq Known
    /\ commits' = Append(commits, r)

\* The new commit gets the next number; the older ones stay as they are.
LEMMA AddedFacts ==
    ASSUME TypeOK, NEW r, Adds(r)
    PROVE  /\ Len(commits) \in Nat /\ DOMAIN commits = 1..Len(commits)
           /\ DOMAIN commits' = 1..Len(commits) + 1
           /\ commits' \in Seq(CommitRec) /\ Len(commits') = Len(commits) + 1
           /\ commits'[Len(commits) + 1] = r
           /\ \A n \in DOMAIN commits : commits'[n] = commits[n]
           /\ Known' = Known \cup {Len(commits) + 1}
           /\ Len(commits) + 1 \notin Known
<1>1. commits \in Seq(CommitRec) /\ r \in CommitRec /\ commits' = Append(commits, r)
    BY DEF TypeOK, CommitRec, Adds
<1>2. /\ Len(commits) \in Nat /\ DOMAIN commits = 1..Len(commits)
      /\ DOMAIN commits' = 1..Len(commits) + 1
      /\ commits' \in Seq(CommitRec) /\ Len(commits') = Len(commits) + 1
      /\ commits'[Len(commits) + 1] = r
      /\ \A n \in DOMAIN commits : commits'[n] = commits[n]
    BY <1>1
<1>3. Known' = Known \cup {Len(commits) + 1}
    BY <1>2 DEF Known
<1>4. Len(commits) + 1 \notin Known
    BY <1>2, RootNegative DEF Known
<1> QED
    BY <1>2, <1>3, <1>4

\* Adding a commit keeps every older walk; the new one visits the commit and
\* what the walks of its parents visit.
LEMMA AddedWalk ==
    ASSUME TypeOK, History, NEW r, Adds(r), NEW c, c = Len(commits) + 1
    PROVE  /\ Older(commits') /\ IsWalk(commits', walk')
           /\ \A o \in Known : Reach(o)' = Reach(o)
           /\ Reach(c)' = {c} \cup UNION {Reach(p) : p \in ToSet(r.parents)}
<1>1. commits \in Seq(CommitRec) /\ r \in CommitRec /\ commits' = Append(commits, r)
    BY DEF TypeOK, CommitRec, Adds
<1>2. Older(commits) /\ IsWalk(commits, walk)
    BY HistoryWalk
<1>a. /\ Len(commits) \in Nat /\ DOMAIN commits = 1..Len(commits)
      /\ DOMAIN commits' = 1..c
      /\ commits'[c] = r
      /\ \A n \in DOMAIN commits : commits'[n] = commits[n]
      /\ c \notin Known
    BY AddedFacts
<1>3. ToSet(r.parents) \subseteq Root \cup DOMAIN commits
    BY DEF Adds, Known
<1>4. Older(commits')
    <2> SUFFICES ASSUME NEW n \in DOMAIN commits'
                 PROVE  ToSet(commits'[n].parents) \subseteq Root \cup 1..(n - 1)
        BY DEF Older
    <2>1. CASE n = c
        BY <1>a, <1>3, <2>1
    <2>2. CASE n # c
        <3>1. n \in DOMAIN commits
            BY <1>a, <2>2
        <3> QED
            BY <1>a, <1>2, <3>1 DEF Older
    <2> QED
        BY <2>1, <2>2
<1>5. \E g : IsWalk(commits', g)
    <2>1. \E g : IsWalk(Append(commits, r), g)
        BY <1>1, <1>2, <1>3, WalkExtends
    <2> QED
        BY <1>1, <2>1
<1>6. IsWalk(commits', walk')
    BY <1>5, WalkChosenNext
<1>7. \A n \in DOMAIN commits : walk'[n] = walk[n]
    <2>1. IsWalk(Append(commits, r), walk')
        BY <1>1, <1>6
    <2> QED
        BY <1>1, <1>2, <2>1, WalkKept
<1>8. ASSUME NEW o \in Known PROVE Reach(o)' = Reach(o)
    <2>1. CASE o \in DOMAIN commits
        <3>1. o \in DOMAIN commits'
            BY <1>a, <2>1
        <3> QED
            BY <1>7, <2>1, <3>1 DEF Reach, IsCommit
    <2>2. CASE o \notin DOMAIN commits
        <3>1. o \notin DOMAIN commits'
            BY <1>a, <2>2
        <3> QED
            BY <2>2, <3>1 DEF Reach, IsCommit
    <2> QED
        BY <2>1, <2>2
<1>9. Reach(c)' = {c} \cup UNION {Reach(p) : p \in ToSet(r.parents)}
    <2>1. c \in DOMAIN commits'
        BY <1>a
    <2>2. walk'[c] = Visit(commits', walk', c)
        BY <1>6, <2>1 DEF IsWalk
    <2>3. \A p \in ToSet(r.parents) :
             (IF p \in DOMAIN commits' THEN walk'[p] ELSE {p}) = Reach(p)
        BY <1>8 DEF Adds, Reach, IsCommit
    <2>4. {IF p \in DOMAIN commits' THEN walk'[p] ELSE {p} : p \in ToSet(r.parents)}
            = {Reach(p) : p \in ToSet(r.parents)}
        BY <2>3
    <2>5. walk'[c] = {c} \cup UNION {Reach(p) : p \in ToSet(r.parents)}
        BY <1>a, <2>2, <2>4 DEF Visit
    <2>6. Reach(c)' = walk'[c]
        BY <2>1 DEF Reach, IsCommit
    <2> QED
        BY <2>5, <2>6
<1> QED
    BY <1>4, <1>6, <1>8, <1>9

-----------------------------------------------------------------------------
(* The store *)

StoreOK ==
    /\ index \subseteq Obj /\ fresh \subseteq index
    /\ recs \subseteq Obj /\ cached \subseteq Obj /\ buf \in Seq(Obj)
    /\ dirty \in BOOLEAN

\* The members of a sequence with one more element, and of a prefix.
LEMMA ToSetFacts ==
    ASSUME NEW S, NEW s \in Seq(S)
    PROVE  /\ ToSet(s) \subseteq S
           /\ \A x \in S : ToSet(Append(s, x)) = ToSet(s) \cup {x}
           /\ \A k \in 0..Len(s) : ToSet(SubSeq(s, 1, k)) \subseteq ToSet(s)
<1>1. ToSet(s) \subseteq S
    BY DEF ToSet
<1>2. ASSUME NEW x \in S PROVE ToSet(Append(s, x)) = ToSet(s) \cup {x}
    <2>1. /\ Len(s) \in Nat /\ DOMAIN s = 1..Len(s) /\ DOMAIN Append(s, x) = 1..Len(s) + 1
          /\ Append(s, x)[Len(s) + 1] = x
          /\ \A i \in 1..Len(s) : Append(s, x)[i] = s[i]
        OBVIOUS
    <2>2. \A i \in 1..Len(s) + 1 : i \in 1..Len(s) \/ i = Len(s) + 1
        BY <2>1
    <2>3. 1..Len(s) \subseteq 1..Len(s) + 1 /\ Len(s) + 1 \in 1..Len(s) + 1
        BY <2>1
    <2> QED
        BY <2>1, <2>2, <2>3, Zenon DEF ToSet
<1>3. ASSUME NEW k \in 0..Len(s) PROVE ToSet(SubSeq(s, 1, k)) \subseteq ToSet(s)
    <2>1. /\ Len(s) \in Nat /\ DOMAIN s = 1..Len(s) /\ DOMAIN SubSeq(s, 1, k) = 1..k
          /\ \A i \in 1..k : SubSeq(s, 1, k)[i] = s[i]
        OBVIOUS
    <2>2. 1..k \subseteq 1..Len(s)
        BY <2>1
    <2> QED
        BY <2>1, <2>2, Zenon DEF ToSet
<1> QED
    BY <1>1, <1>2, <1>3

\* put loses nothing, and leads a new entry to its record.
LEMMA PutFacts ==
    ASSUME TypeOK, NEW o \in Obj, Put(o)
    PROVE  /\ StoreOK' /\ index' = index \cup {o}
           /\ Solid \subseteq Solid' /\ Owned \subseteq Owned' /\ Stored \subseteq Stored'
           /\ o \notin index => o \in Owned' /\ dirty'
<1>1. StoreOK
    BY DEF TypeOK, StoreOK
<1>2. buf \in Seq(Obj) /\ ToSet(Append(buf, o)) = ToSet(buf) \cup {o}
    BY <1>1, ToSetFacts DEF StoreOK
<1>3. buf' \in Seq(Obj) /\ ToSet(buf) \subseteq ToSet(buf')
    BY <1>2 DEF Put
<1>4. dirty' \in BOOLEAN
    BY DEF Put
<1>5. StoreOK'
    BY <1>1, <1>3, <1>4 DEF StoreOK, Put
<1>6. Solid \subseteq Solid'
    BY <1>1 DEF StoreOK, Put, Solid
<1>7. Owned \subseteq Owned' /\ Stored \subseteq Stored'
    BY <1>3 DEF Put, Owned, Stored
<1>8. o \notin index => o \in Owned'
    BY <1>2 DEF Put, Owned, Stored
<1>9. o \notin index => dirty'
    BY DEF Put
<1> QED
    BY <1>5, <1>6, <1>7, <1>8, <1>9 DEF Put

\* A tree that is put gets an entry; as long as no record is missing it is stored.
LEMMA PutTreeFacts ==
    ASSUME TypeOK, NEW r \in Root, PutTree(r)
    PROVE  /\ StoreOK' /\ index' = index \cup {r}
           /\ Solid \subseteq Solid' /\ Owned \subseteq Owned' /\ Stored \subseteq Stored'
           /\ index \subseteq Stored => index' \subseteq Stored'
<1>0. r \in Obj
    BY DEF Obj
<1>1. CASE Put(r)
    <2>1. /\ StoreOK' /\ index' = index \cup {r}
          /\ Solid \subseteq Solid' /\ Owned \subseteq Owned' /\ Stored \subseteq Stored'
          /\ r \notin index => r \in Owned'
        BY <1>0, <1>1, PutFacts
    <2>2. Owned' \subseteq Stored'
        BY DEF Owned
    <2> QED
        BY <2>1, <2>2
<1>2. CASE PutOnLost(r)
    <2>1. /\ r \notin index /\ ~(index \subseteq Stored) /\ index' = index \cup {r} /\ fresh' = fresh \cup {r}
          /\ recs' = recs /\ cached' = cached /\ buf' = buf /\ dirty' = TRUE
        BY <1>2 DEF PutOnLost, Owned
    <2>2. dirty' \in BOOLEAN
        BY <2>1, Zenon
    <2>3. StoreOK'
        BY <1>0, <2>1, <2>2 DEF TypeOK, StoreOK
    <2>4. Stored' = Stored
        BY <2>1 DEF Stored
    <2>5. Solid \subseteq Solid' /\ Owned \subseteq Owned'
        BY <2>1, <2>4 DEF Solid, Owned
    <2> QED
        BY <2>1, <2>3, <2>4, <2>5
<1> QED
    BY <1>1, <1>2 DEF PutTree

\* flush loses nothing; with something to write it makes all that can be read
\* safe from crashes.
LEMMA FlushFacts ==
    ASSUME TypeOK, FlushAll
    PROVE  /\ StoreOK' /\ index' = index
           /\ Solid \subseteq Solid' /\ Stored' = Stored
           /\ dirty => Owned \subseteq Solid'
<1>1. StoreOK
    BY DEF TypeOK, StoreOK
<1>2. ToSet(buf) \subseteq Obj
    BY <1>1, ToSetFacts DEF StoreOK
<1>3. buf' = <<>> /\ <<>> \in Seq(Obj) /\ ToSet(buf') = {} /\ index' = index
    BY DEF FlushAll, ToSet
<1>4. dirty' = FALSE
    BY DEF FlushAll
<1>5. dirty' \in BOOLEAN
    BY <1>4, Zenon
<1>6. CASE dirty
    <2>1. recs' = Stored /\ cached' = {} /\ fresh' = {}
        BY <1>6 DEF FlushAll
    <2>2. StoreOK'
        BY <1>1, <1>2, <1>3, <1>5, <2>1 DEF StoreOK, Stored
    <2>3. Solid \subseteq Solid' /\ Owned \subseteq Solid'
        BY <1>3, <2>1 DEF Solid, Owned, Stored
    <2>4. Stored' = Stored
        BY <1>3, <2>1 DEF Stored
    <2> QED
        BY <1>3, <2>2, <2>3, <2>4
<1>7. CASE ~dirty
    <2>1. cached' = cached \cup ToSet(buf) /\ recs' = recs /\ fresh' = fresh
        BY <1>7 DEF FlushAll
    <2>2. StoreOK'
        BY <1>1, <1>2, <1>3, <1>5, <2>1 DEF StoreOK
    <2>3. Solid \subseteq Solid'
        BY <1>3, <2>1 DEF Solid
    <2>4. Stored' = Stored
        BY <1>3, <2>1 DEF Stored
    <2> QED
        BY <1>3, <1>7, <2>2, <2>3, <2>4
<1> QED
    BY <1>6, <1>7

\* A record that no crash takes away can be read.
LEMMA SolidOwned == Solid \subseteq Owned
BY DEF Solid, Owned, Stored

\* As long as nothing solid is lost, what is solid with its history stays so.
LEMMA SolidSame ==
    ASSUME commits' = commits, Solid \subseteq Solid', NEW o, SolidFrom(o)
    PROVE  SolidFrom(o)'
<1>1. Reach(o)' = Reach(o)
    BY SameWalk
<1> QED
    BY <1>1 DEF SolidFrom, KeptIn, IsCommit

\* The same when a commit is added.  The commit itself is kept with its history
\* among what can be read when it can be read, its trees can if they were whole,
\* and its parents are solid.
LEMMA SolidAdded ==
    ASSUME TypeOK, History, NEW r, Adds(r), NEW c, c = Len(commits) + 1, Solid \subseteq Solid'
    PROVE  /\ \A o \in Known : SolidFrom(o) => SolidFrom(o)'
           /\ /\ \A p \in ToSet(r.parents) : SolidFrom(p)
              /\ c \in Owned'
              /\ r.whole => {r.root, r.trie} \subseteq Owned' \cup {Zero}
              => \A x \in Reach(c)' : KeptIn(Owned, x)'
<1>1. /\ DOMAIN commits' = DOMAIN commits \cup {c} /\ commits'[c] = r /\ c \notin Known
      /\ \A n \in DOMAIN commits : commits'[n] = commits[n]
    <2>1. 1..Len(commits) + 1 = 1..Len(commits) \cup {Len(commits) + 1}
        BY AddedFacts
    <2> QED
        BY <2>1, AddedFacts
<1>2. /\ \A o \in Known : Reach(o)' = Reach(o)
      /\ Reach(c)' = {c} \cup UNION {Reach(p) : p \in ToSet(r.parents)}
    BY AddedWalk
<1>3. ASSUME NEW o \in Known, SolidFrom(o), NEW x \in Reach(o), x \in DOMAIN commits'
      PROVE  /\ x \in Solid'
             /\ commits'[x].whole => {commits'[x].root, commits'[x].trie} \subseteq Solid' \cup {Zero}
    <2>1. x \in Known
        BY ReachKnown
    <2>2. x \in DOMAIN commits /\ commits'[x] = commits[x]
        BY <1>1, <1>3, <2>1
    <2>3. /\ x \in Solid
          /\ commits[x].whole => {commits[x].root, commits[x].trie} \subseteq Solid \cup {Zero}
        BY <1>3, <2>2 DEF SolidFrom, KeptIn, IsCommit
    <2> QED
        BY <2>2, <2>3
<1>4. ASSUME NEW o \in Known, SolidFrom(o) PROVE SolidFrom(o)'
    BY <1>2, <1>3, <1>4 DEF SolidFrom, KeptIn, IsCommit
<1>o. Solid' \subseteq Owned'
    BY DEF Solid, Owned, Stored
<1>5. ASSUME \A p \in ToSet(r.parents) : SolidFrom(p), c \in Owned',
             r.whole => {r.root, r.trie} \subseteq Owned' \cup {Zero},
             NEW x \in Reach(c)', x \in DOMAIN commits'
      PROVE  /\ x \in Owned'
             /\ commits'[x].whole => {commits'[x].root, commits'[x].trie} \subseteq Owned' \cup {Zero}
    <2>1. CASE x = c
        BY <1>1, <1>5, <2>1
    <2>2. CASE x # c
        <3>1. PICK p \in ToSet(r.parents) : x \in Reach(p)
            BY <1>2, <1>5, <2>2
        <3>2. p \in Known /\ SolidFrom(p)
            BY <1>5 DEF Adds
        <3>3. /\ x \in Solid'
              /\ commits'[x].whole => {commits'[x].root, commits'[x].trie} \subseteq Solid' \cup {Zero}
            BY <1>3, <1>5, <3>1, <3>2
        <3> QED
            BY <1>o, <3>3
    <2> QED
        BY <2>1, <2>2
<1>6. ASSUME \A p \in ToSet(r.parents) : SolidFrom(p), c \in Owned',
             r.whole => {r.root, r.trie} \subseteq Owned' \cup {Zero}
      PROVE  \A x \in Reach(c)' : KeptIn(Owned, x)'
    BY <1>5, <1>6 DEF KeptIn, IsCommit
<1> QED
    BY <1>4, <1>6

-----------------------------------------------------------------------------
(* The invariant, part by part *)

OpRec == [pc : Pcs, name : Name, obj : Target, trie : Root \cup {Zero}, parents : Seq(Obj), why : Whys]

\* The marks for a HEAD that names no branch are no names.
LEMMA NameFacts == /\ NoHead \notin Name /\ Torn \notin Name /\ NoHead # Torn
                   /\ Main \in Name /\ DefaultBranch \in Name
BY DiskAssumption DEF NoHead, Torn

\* The fields of the call in progress.
LEMMA OpFields ==
    /\ \A pc, n, o, t, ps, w :
            /\ Op(pc, n, o, t, ps, w).pc = pc /\ Op(pc, n, o, t, ps, w).name = n
            /\ Op(pc, n, o, t, ps, w).obj = o /\ Op(pc, n, o, t, ps, w).trie = t
            /\ Op(pc, n, o, t, ps, w).parents = ps /\ Op(pc, n, o, t, ps, w).why = w
    /\ \A pc \in Pcs, n \in Name, o \in Target, t \in Root \cup {Zero}, ps \in Seq(Obj), w \in Whys :
            Op(pc, n, o, t, ps, w) \in OpRec
    /\ \A pc \in Pcs, n \in Name, o \in Target, w \in Whys : Op(pc, n, o, Zero, <<>>, w) \in OpRec
    /\ Zero \in Target
    /\ Idle \in OpRec /\ Idle.pc = "idle" /\ Idle.why = "none"
<1>1. \A pc, n, o, t, ps, w :
            /\ Op(pc, n, o, t, ps, w).pc = pc /\ Op(pc, n, o, t, ps, w).name = n
            /\ Op(pc, n, o, t, ps, w).obj = o /\ Op(pc, n, o, t, ps, w).trie = t
            /\ Op(pc, n, o, t, ps, w).parents = ps /\ Op(pc, n, o, t, ps, w).why = w
    BY DEF Op
<1>2. \A pc \in Pcs, n \in Name, o \in Target, t \in Root \cup {Zero}, ps \in Seq(Obj), w \in Whys :
            Op(pc, n, o, t, ps, w) \in OpRec
    BY DEF Op, OpRec
<1>3. Main \in Name /\ Zero \in Target /\ <<>> \in Seq(Obj) /\ "idle" \in Pcs /\ "none" \in Whys
    BY DiskAssumption DEF Target, Pcs, Whys
<1>4. Idle \in OpRec
    BY <1>2, <1>3 DEF Idle
<1>5. Idle.pc = "idle" /\ Idle.why = "none"
    BY <1>1 DEF Idle
<1>6. \A pc \in Pcs, n \in Name, o \in Target, w \in Whys : Op(pc, n, o, Zero, <<>>, w) \in OpRec
    BY <1>2, <1>3
<1> QED
    BY <1>1, <1>2, <1>3, <1>4, <1>5, <1>6

\* A call in progress has an open repository, and no call has none.
LEMMA Busy ==
    ASSUME DiskInv
    PROVE  /\ op.pc # "idle" => up
           /\ op = Idle => op.pc = "idle" /\ op.why = "none" /\ op \in OpRec
BY OpFields DEF DiskInv, OpInStep

\* A call that goes on to its next step keeps its arguments.
LEMMA OpMoves ==
    ASSUME op \in OpRec, NEW pc \in Pcs, op' = [op EXCEPT !.pc = pc]
    PROVE  /\ op' \in OpRec /\ op'.pc = pc /\ op'.name = op.name
           /\ op'.obj = op.obj /\ op'.trie = op.trie /\ op'.parents = op.parents /\ op'.why = op.why
BY DEF OpRec

\* Zero is neither a commit nor a document root.
LEMMA KnownFacts ==
    ASSUME TypeOK
    PROVE  /\ Zero \notin Known /\ Known \subseteq Obj /\ Obj \subseteq Target /\ Zero \notin Obj
           /\ Zero \in Target /\ DOMAIN commits \subseteq 1..MaxCommits
           /\ Known \ Root = DOMAIN commits /\ Root \cap DOMAIN commits = {}
           /\ Len(commits) \in Nat /\ DOMAIN commits = 1..Len(commits)
           /\ \A n \in DOMAIN commits : {commits[n].root, commits[n].trie} \subseteq Root \cup {Zero}
<1>1. /\ commits \in Seq(CommitRec)
      /\ Len(commits) \in Nat /\ DOMAIN commits = 1..Len(commits) /\ Len(commits) =< MaxCommits
    BY DEF TypeOK, CommitRec
<1>2. ASSUME NEW n \in DOMAIN commits PROVE {commits[n].root, commits[n].trie} \subseteq Root \cup {Zero}
    <2>2. commits[n] \in CommitRec
        BY <1>1
    <2> QED
        BY <2>2 DEF CommitRec
<1>3. DOMAIN commits \subseteq 1..MaxCommits /\ MaxCommits \in Nat
    BY <1>1, DiskAssumption
<1>4. \A x \in 1..MaxCommits : x \in Int /\ x > 0
    BY <1>3
<1>5. Zero \notin Known /\ Zero \notin Obj
    BY <1>3, <1>4, RootNegative DEF Known, Obj, Zero
<1>6. Root \cap DOMAIN commits = {}
    BY <1>3, <1>4, RootNegative
<1> QED
    BY <1>1, <1>2, <1>3, <1>5, <1>6 DEF Known, Obj, Target

\* History after a step, in terms of the walk.
LEMMA HistoryNext ==
    ASSUME Older(commits'), IsWalk(commits', walk'),
           published' \subseteq Known', told' \subseteq published' \cap DOMAIN commits',
           \A n \in Name : tip'[n] \in published' \cup {Zero}
    PROVE  History'
<1>1. \A n \in DOMAIN commits' : ToSet(commits'[n].parents) \subseteq Root \cup 1..(n - 1)
    BY DEF Older
<1>2. walk' = [n \in DOMAIN commits' |-> Visit(commits', walk', n)]
    BY DEF IsWalk
<1>3. walk' = [n \in DOMAIN commits' |->
        {n} \cup UNION {IF p \in DOMAIN commits' THEN walk'[p] ELSE {p} : p \in ToSet(commits'[n].parents)}]
    BY <1>2, Zenon DEF Visit
<1> QED
    BY <1>1, <1>3, Zenon DEF History, IsCommit

\* History, when no commit is added ...
LEMMA HistorySame ==
    ASSUME History, commits' = commits,
           published' \subseteq Known, told' \subseteq published' \cap DOMAIN commits,
           \A n \in Name : tip'[n] \in published' \cup {Zero}
    PROVE  History'
<1>1. walk' = walk /\ Known' = Known
    BY SameWalk
<1>2. Older(commits') /\ IsWalk(commits', walk')
    BY <1>1, HistoryWalk
<1> QED
    BY <1>1, <1>2, HistoryNext

\* ... and when one is.
LEMMA HistoryAdded ==
    ASSUME TypeOK, History, NEW r, Adds(r),
           published' = published, told' = told, tip' = tip
    PROVE  History'
<1>1. PICK c : c = Len(commits) + 1
    OBVIOUS
<1>2. Older(commits') /\ IsWalk(commits', walk')
    BY <1>1, AddedWalk
<1>3. Known \subseteq Known' /\ DOMAIN commits \subseteq DOMAIN commits'
    <2>1. 1..Len(commits) \subseteq 1..Len(commits) + 1
        BY AddedFacts
    <2> QED
        BY <2>1, AddedFacts
<1>4. published' \subseteq Known' /\ told' \subseteq published' \cap DOMAIN commits'
    BY <1>3 DEF History
<1>5. \A n \in Name : tip'[n] \in published' \cup {Zero}
    BY DEF History
<1> QED
    BY <1>2, <1>4, <1>5, HistoryNext

\* What a name or a hash resolves to was given to a ref, or is the root of a
\* commit that was: it is known, and solid when every commit is fsync'd.
LEMMA ResolvesFacts ==
    ASSUME DiskInv, NEW o, Resolves(o)
    PROVE  o \in Known /\ (~batched => SolidFrom(o))
<1> USE DEF DiskInv
<1>1. CASE \E n \in Name : ReadBranch(n) /\ o = tip[n]
    <2>1. o \in published
        BY <1>1 DEF ReadBranch, History
    <2> QED
        BY <2>1 DEF History, SolidRefs
<1>2. CASE o \in told
    <2>1. o \in published
        BY <1>2 DEF History
    <2> QED
        BY <2>1 DEF History, SolidRefs
<1>3. CASE o \in {commits[c].root : c \in told} \ {Zero}
    <2>1. PICK c \in told : o = commits[c].root
        BY <1>3
    <2>2. c \in published /\ c \in DOMAIN commits
        BY DEF History
    <2>3. o \in Root
        BY <1>3, <2>1, <2>2, KnownFacts
    <2>4. Reach(o) = {o} /\ ~IsCommit(o)
        BY <2>3, KnownFacts DEF Reach, IsCommit
    <2>5. SolidFrom(o)
        BY <2>4 DEF SolidFrom, KeptIn
    <2> QED
        BY <2>3, <2>5 DEF Known
<1> QED
    BY <1>1, <1>2, <1>3 DEF Resolves, HexTargets

\* The same of the commit that HEAD names.
LEMMA HeadFacts ==
    ASSUME DiskInv, HeadReads
    PROVE  /\ tip[head] \in Known /\ tip[head] \in Obj /\ head \in Name
           /\ ~batched => SolidFrom(tip[head])
<1>1. head \in Name /\ Resolves(tip[head])
    BY DEF HeadReads, Resolves
<1> QED
    BY <1>1, ResolvesFacts, KnownFacts DEF DiskInv

\* SolidRefs, when no ref is about to be given anything.
LEMMA SolidQuiet ==
    ASSUME DiskInv, commits' = commits, published' = published, batched' = batched,
           fsyncEvery' \in {1, fsyncEvery}, Solid \subseteq Solid',
           op'.pc \notin {"flush", "ref", "refdata", "indexes", "persist"}
    PROVE  SolidRefs'
<1> SUFFICES ASSUME ~batched'
             PROVE  fsyncEvery' = 1 /\ \A o \in published' : SolidFrom(o)'
    BY DEF SolidRefs
<1>1. fsyncEvery = 1 /\ \A o \in published : SolidFrom(o)
    BY DEF DiskInv, SolidRefs
<1> QED
    BY <1>1, SolidSame

\* StoreInStep, when no commit is added, no record goes and the trees in hand have
\* entries.
LEMMA StoreSame ==
    ASSUME StoreInStep, commits' = commits, crashes' = crashes, index' = index, Stored \subseteq Stored',
           \/ op'.pc \notin {"indexes", "persist"}
           \/ op.pc \in {"indexes", "persist"} /\ op'.obj = op.obj /\ op'.trie \in {op.trie, Zero}
    PROVE  StoreInStep'
<1>1. Known' = Known
    BY SameWalk
<1> QED
    BY <1>1 DEF StoreInStep

\* The refs without a hash.
TornRefs == {n \in refs : tip[n] = Zero}

\* There are finitely many of them.
LEMMA TornFinite ==
    ASSUME TypeOK
    PROVE  IsFiniteSet(TornRefs) /\ Cardinality(TornRefs) \in Nat
<1>1. TornRefs \subseteq Name /\ IsFiniteSet(Name)
    BY DiskAssumption DEF TypeOK, TornRefs
<1>2. IsFiniteSet(TornRefs)
    BY <1>1, FS_Subset
<1> QED
    BY <1>2, FS_CardinalityType

\* RefsTornByKills, when the refs stay as they are.
LEMMA TornSame ==
    ASSUME RefsTornByKills, refs' = refs, tip' = tip, crashes' = crashes, powerLost' = powerLost,
           op.pc # "refdata", op'.pc # "refdata"
    PROVE  RefsTornByKills'
BY DEF RefsTornByKills

-----------------------------------------------------------------------------
(* The invariant, step by step *)

\* open reads HEAD.
LEMMA OpenOK ==
    ASSUME DiskInv, Open
    PROVE  DiskInv'
<1> USE DEF DiskInv
<1>0. op = Idle /\ op' = Idle /\ op'.pc = "idle" /\ op'.why = "none" /\ op' \in OpRec
    BY OpFields DEF OpInStep, Open
<1>1. TypeOK'
    BY <1>0 DEF TypeOK, OpRec, Open, files, cas, memory, users, faults
<1>a. Known' = Known
    BY SameWalk DEF Open, files
<1>2. History'
    BY HistorySame DEF History, Open, files, users
<1>3. OpInStep'
    BY <1>0, <1>a, NameFacts DEF OpInStep, RefExists, Open, files, cas, memory, users
<1>4. HeadInStep'
    BY <1>0, NameFacts DEF HeadInStep, OpInStep, TypeOK, Open, files, cas, memory, users, faults
<1>5. SolidRefs'
    BY <1>0, SolidQuiet DEF Solid, Open, cas, memory, users
<1>6. PublishKeepsHistory'
    BY <1>0 DEF PublishKeepsHistory
<1>7. HeadNeverDangles'
    BY <1>0, NameFacts DEF HeadNeverDangles, RefExists, OpInStep, HeadInStep, Open, files, users, faults
<1>8. StoreInStep'
    BY <1>0, StoreSame DEF Stored, Open, files, cas, faults
<1>9. RefsTornByKills'
    BY <1>0, TornSame DEF Open, files, cas, faults
<1> QED
    BY <1>1, <1>2, <1>3, <1>4, <1>5, <1>6, <1>7, <1>8, <1>9

\* init truncates HEAD.
LEMMA InitStartOK ==
    ASSUME DiskInv, InitStart
    PROVE  DiskInv'
<1> USE DEF DiskInv
<1>0. op' \in OpRec /\ op'.pc = "init" /\ op'.why = "genesis" /\ op.pc = "idle"
    BY OpFields, DiskAssumption DEF InitStart, Pcs, Whys, OpInStep
<1>1. TypeOK'
    <2>1. up' \in BOOLEAN
        BY Zenon DEF InitStart
    <2> QED
        BY <1>0, <2>1, NameFacts DEF TypeOK, OpRec, InitStart, files, cas, users, faults
<1>a. Known' = Known
    BY SameWalk DEF InitStart, files
<1>2. History'
    BY HistorySame DEF History, InitStart, files, users
<1>3. OpInStep'
    BY <1>0, <1>a, NameFacts DEF OpInStep, RefExists, InitStart, files, cas, memory, users
<1>4. HeadInStep'
    BY <1>0, NameFacts DEF HeadInStep, OpInStep, TypeOK, InitStart, files, cas, memory, users, faults
<1>5. SolidRefs'
    BY <1>0, SolidQuiet DEF Solid, InitStart, cas, memory, users
<1>6. PublishKeepsHistory'
    BY <1>0 DEF PublishKeepsHistory
<1>7. HeadNeverDangles'
    BY <1>0, NameFacts DEF HeadNeverDangles, RefExists, OpInStep, HeadInStep, InitStart, files, users, faults
<1>8. StoreInStep'
    BY <1>0, StoreSame DEF Stored, InitStart, cas, faults
<1>9. RefsTornByKills'
    BY <1>0, TornSame DEF InitStart, cas, faults
<1> QED
    BY <1>1, <1>2, <1>3, <1>4, <1>5, <1>6, <1>7, <1>8, <1>9

\* init writes HEAD.
LEMMA InitHeadOK ==
    ASSUME DiskInv, InitHead
    PROVE  DiskInv'
<1> USE DEF DiskInv
<1>0. /\ op' \in OpRec /\ op'.pc = "genesis" /\ op'.name = op.name /\ op'.obj = op.obj
      /\ op'.parents = op.parents /\ op'.why = op.why /\ up
    BY OpMoves, Busy DEF InitHead, Pcs, TypeOK, OpRec
<1>1. TypeOK'
    BY <1>0, NameFacts DEF TypeOK, OpRec, InitHead, files, cas, memory, users, faults
<1>a. Known' = Known
    BY SameWalk DEF InitHead, files
<1>2. History'
    BY HistorySame DEF History, InitHead, files, users
<1>3. OpInStep'
    BY <1>0, <1>a, NameFacts DEF OpInStep, RefExists, InitHead, files, cas, memory, users
<1>4. HeadInStep'
    BY <1>0, NameFacts DEF HeadInStep, OpInStep, TypeOK, InitHead, files, cas, memory, users, faults
<1>5. SolidRefs'
    BY <1>0, SolidQuiet DEF Solid, InitHead, cas, memory, users
<1>6. PublishKeepsHistory'
    BY <1>0 DEF PublishKeepsHistory
<1>7. HeadNeverDangles'
    BY <1>0, NameFacts DEF HeadNeverDangles, RefExists, OpInStep, HeadInStep, InitHead, files, users, faults
<1>8. StoreInStep'
    BY <1>0, StoreSame DEF Stored, InitHead, cas, faults
<1>9. RefsTornByKills'
    BY <1>0, TornSame DEF InitHead, cas, faults
<1> QED
    BY <1>1, <1>2, <1>3, <1>4, <1>5, <1>6, <1>7, <1>8, <1>9

\* set_head truncates HEAD.
LEMMA HeadTruncateOK ==
    ASSUME DiskInv, HeadTruncate
    PROVE  DiskInv'
<1> USE DEF DiskInv
<1>0. /\ op' \in OpRec /\ op'.pc = "headdata" /\ op'.name = op.name /\ op'.obj = op.obj
      /\ op'.parents = op.parents /\ op'.why = op.why /\ up
    BY OpMoves, Busy DEF HeadTruncate, Pcs, TypeOK, OpRec
<1>1. TypeOK'
    BY <1>0 DEF TypeOK, OpRec, HeadTruncate, files, cas, memory, users, faults
<1>a. Known' = Known
    BY SameWalk DEF HeadTruncate, files
<1>2. History'
    BY HistorySame DEF History, HeadTruncate, files, users
<1>3. OpInStep'
    BY <1>0, <1>a, NameFacts DEF OpInStep, RefExists, HeadTruncate, files, cas, memory, users
<1>4. HeadInStep'
    BY <1>0, NameFacts DEF HeadInStep, OpInStep, TypeOK, HeadTruncate, files, cas, memory, users, faults
<1>5. SolidRefs'
    BY <1>0, SolidQuiet DEF Solid, HeadTruncate, cas, memory, users
<1>6. PublishKeepsHistory'
    BY <1>0 DEF PublishKeepsHistory
<1>7. HeadNeverDangles'
    BY <1>0, NameFacts DEF HeadNeverDangles, RefExists, OpInStep, HeadInStep, HeadTruncate, files, users, faults
<1>8. StoreInStep'
    BY <1>0, StoreSame DEF Stored, HeadTruncate, cas, faults
<1>9. RefsTornByKills'
    BY <1>0, TornSame DEF HeadTruncate, cas, faults
<1> QED
    BY <1>1, <1>2, <1>3, <1>4, <1>5, <1>6, <1>7, <1>8, <1>9

\* set_head begins.
LEMMA CheckoutBranchOK ==
    ASSUME DiskInv, NEW n \in Name, CheckoutBranch(n)
    PROVE  DiskInv'
<1> USE DEF DiskInv
<1>0. /\ op' \in OpRec /\ op'.pc = "head" /\ op'.name = n /\ op'.obj = Zero
      /\ op'.why = "checkout" /\ op.pc = "idle" /\ op.why = "none"
    BY OpFields, Busy DEF CheckoutBranch, Pcs, Whys
<1>1. TypeOK'
    BY <1>0 DEF TypeOK, OpRec, CheckoutBranch, files, cas, memory, users, faults
<1>a. Known' = Known
    BY SameWalk DEF CheckoutBranch, files
<1>2. History'
    BY HistorySame DEF History, CheckoutBranch, files, users
<1>3. OpInStep'
    BY <1>0, <1>a, NameFacts DEF OpInStep, RefExists, CheckoutBranch, files, cas, memory, users
<1>4. HeadInStep'
    BY <1>0, NameFacts DEF HeadInStep, OpInStep, TypeOK, CheckoutBranch, files, cas, memory, users, faults
<1>5. SolidRefs'
    BY <1>0, SolidQuiet DEF Solid, CheckoutBranch, cas, memory, users
<1>6. PublishKeepsHistory'
    BY <1>0 DEF PublishKeepsHistory
<1>7. HeadNeverDangles'
    BY <1>0, NameFacts DEF HeadNeverDangles, RefExists, OpInStep, HeadInStep, CheckoutBranch, files, users, faults
<1>8. StoreInStep'
    BY <1>0, StoreSame DEF Stored, CheckoutBranch, files, cas, faults
<1>9. RefsTornByKills'
    BY <1>0, TornSame DEF CheckoutBranch, files, cas, faults
<1> QED
    BY <1>1, <1>2, <1>3, <1>4, <1>5, <1>6, <1>7, <1>8, <1>9

\* delete_branch leaves HEAD and its branch alone.
LEMMA DeleteBranchOK ==
    ASSUME DiskInv, NEW n \in Name, DeleteBranch(n)
    PROVE  DiskInv'
<1> USE DEF DiskInv
<1>0. op = Idle /\ op' = Idle /\ op'.pc = "idle" /\ op'.why = "none" /\ op' \in OpRec
    BY OpFields DEF DeleteBranch
<1>1. TypeOK'
    BY <1>0, OpFields DEF TypeOK, OpRec, DeleteBranch, cas, memory, users, faults
<1>a. Known' = Known
    BY SameWalk DEF DeleteBranch
<1>2. History'
    BY HistorySame DEF History, TypeOK, DeleteBranch, users
<1>3. OpInStep'
    BY <1>0, <1>a DEF OpInStep, RefExists, DeleteBranch, cas, memory, users
<1>4. HeadInStep'
    BY <1>0 DEF HeadInStep, TypeOK, DeleteBranch, cas, memory, users, faults
<1>5. SolidRefs'
    BY <1>0, SolidQuiet DEF Solid, DeleteBranch, cas, memory, users
<1>6. PublishKeepsHistory'
    BY <1>0 DEF PublishKeepsHistory
<1>7. HeadNeverDangles'
    BY <1>0 DEF HeadNeverDangles, RefExists, HeadInStep, DeleteBranch, Deletable, memory, users, faults
<1>8. StoreInStep'
    BY <1>0, StoreSame DEF Stored, DeleteBranch, cas, faults
<1>9. RefsTornByKills'
    <2>1. TornRefs' \subseteq TornRefs
        BY DEF TornRefs, DeleteBranch, TypeOK
    <2>2. Cardinality(TornRefs') =< Cardinality(TornRefs) /\ Cardinality(TornRefs') \in Nat /\ Cardinality(TornRefs) \in Nat
        BY <2>1, TornFinite, FS_Subset, FS_CardinalityType
    <2> QED
        BY <1>0, <2>2 DEF RefsTornByKills, TornRefs, TypeOK, DeleteBranch, faults
<1> QED
    BY <1>1, <1>2, <1>3, <1>4, <1>5, <1>6, <1>7, <1>8, <1>9

\* set_head writes the name of a ref that exists.
LEMMA HeadWriteOK ==
    ASSUME DiskInv, HeadWrite
    PROVE  DiskInv'
<1> USE DEF DiskInv
<1>0. /\ op' = Idle /\ op'.pc = "idle" /\ op'.why = "none" /\ op' \in OpRec
      /\ op.name \in Name /\ up
    BY OpFields, Busy DEF HeadWrite, TypeOK
<1>1. TypeOK'
    <2>1. ready' \in BOOLEAN
        BY Zenon DEF HeadWrite
    <2>2. told' \subseteq 1..MaxCommits
        BY KnownFacts DEF HeadWrite, TypeOK
    <2> QED
        BY <1>0, <2>1, <2>2 DEF TypeOK, OpRec, HeadWrite, cas, faults
<1>a. Known' = Known
    BY SameWalk DEF HeadWrite
<1>2. History'
    <2>1. op.obj \in published \cup {Zero} /\ Zero \notin DOMAIN commits
        BY KnownFacts DEF HeadWrite, OpInStep, Known
    <2> QED
        BY <2>1, HistorySame DEF History, HeadWrite
<1>3. OpInStep'
    BY <1>0, <1>a, NameFacts DEF OpInStep, HeadWrite, cas
<1>4. HeadInStep'
    BY <1>0, NameFacts DEF HeadInStep, OpInStep, HeadWrite, cas, faults
<1>5. SolidRefs'
    BY <1>0, SolidQuiet DEF Solid, HeadWrite, cas
<1>6. PublishKeepsHistory'
    BY <1>0 DEF PublishKeepsHistory
<1>7. HeadNeverDangles'
    BY <1>0 DEF HeadNeverDangles, RefExists, OpInStep, HeadWrite, faults
<1>8. StoreInStep'
    BY <1>0, StoreSame DEF Stored, HeadWrite, cas, faults
<1>9. RefsTornByKills'
    BY <1>0, TornSame DEF HeadWrite, cas, faults
<1> QED
    BY <1>1, <1>2, <1>3, <1>4, <1>5, <1>6, <1>7, <1>8, <1>9

\* A policy of more than one commit per fsync is remembered in batched.
LEMMA SetFsyncEveryOK ==
    ASSUME DiskInv, NEW n \in FsyncChoices, SetFsyncEvery(n)
    PROVE  DiskInv'
<1> USE DEF DiskInv
<1>0. op = Idle /\ op' = Idle /\ op'.pc = "idle" /\ op'.why = "none" /\ op' \in OpRec /\ n \in Nat
    BY OpFields, DiskAssumption DEF SetFsyncEvery
<1>1. TypeOK'
    <2>1. batched' \in BOOLEAN
        BY Zenon DEF SetFsyncEvery
    <2>2. fsyncEvery' \in Nat \ {0}
        BY <1>0 DEF SetFsyncEvery
    <2> QED
        BY <1>0, <2>1, <2>2 DEF TypeOK, SetFsyncEvery, files, cas, faults
<1>a. Known' = Known
    BY SameWalk DEF SetFsyncEvery
<1>2. History'
    BY HistorySame DEF History, SetFsyncEvery, files
<1>3. OpInStep'
    BY <1>0, <1>a DEF OpInStep, RefExists, SetFsyncEvery, files, cas
<1>4. HeadInStep'
    BY <1>0 DEF HeadInStep, SetFsyncEvery, files, cas, faults
<1>5. SolidRefs'
    <2> SUFFICES ASSUME ~batched' PROVE SolidRefs'
        BY DEF SolidRefs
    <2>1. ~batched /\ ~(n > 1)
        BY DEF SetFsyncEvery
    <2>2. batched' = batched
        BY <2>1 DEF SetFsyncEvery, TypeOK
    <2>3. fsyncEvery' = 1
        BY <1>0, <2>1 DEF SetFsyncEvery
    <2> QED
        BY <1>0, <2>2, <2>3, SolidQuiet DEF Solid, SetFsyncEvery, cas
<1>6. PublishKeepsHistory'
    BY <1>0 DEF PublishKeepsHistory
<1>7. HeadNeverDangles'
    BY DEF HeadNeverDangles, RefExists, SetFsyncEvery, files, faults
<1>8. StoreInStep'
    BY <1>0, StoreSame DEF Stored, SetFsyncEvery, files, cas, faults
<1>9. RefsTornByKills'
    BY <1>0, TornSame DEF SetFsyncEvery, files, cas, faults
<1> QED
    BY <1>1, <1>2, <1>3, <1>4, <1>5, <1>6, <1>7, <1>8, <1>9

\* flush.
LEMMA FlushOK ==
    ASSUME DiskInv, Flush
    PROVE  DiskInv'
<1> USE DEF DiskInv
<1>0. op = Idle /\ op' = Idle /\ op'.pc = "idle" /\ op'.why = "none" /\ op' \in OpRec
    BY OpFields DEF Flush
<1>b. StoreOK' /\ index' = index /\ Solid \subseteq Solid' /\ Stored' = Stored
    BY FlushFacts DEF Flush
<1>1. TypeOK'
    BY <1>0, <1>b DEF TypeOK, StoreOK, Flush, files, users, faults
<1>a. Known' = Known
    BY SameWalk DEF Flush
<1>2. History'
    BY HistorySame DEF History, Flush, files, users
<1>3. OpInStep'
    BY <1>0, <1>a, <1>b DEF OpInStep, RefExists, Flush, files, users
<1>4. HeadInStep'
    BY <1>0, <1>b DEF HeadInStep, Flush, files, users, faults
<1>5. SolidRefs'
    BY <1>0, <1>b, SolidQuiet DEF Flush, users
<1>6. PublishKeepsHistory'
    BY <1>0 DEF PublishKeepsHistory
<1>7. HeadNeverDangles'
    BY DEF HeadNeverDangles, RefExists, Flush, files, users, faults
<1>8. StoreInStep'
    BY <1>0, <1>b, StoreSame DEF Flush, faults
<1>9. RefsTornByKills'
    BY <1>0, TornSame DEF Flush, files, faults
<1> QED
    BY <1>1, <1>2, <1>3, <1>4, <1>5, <1>6, <1>7, <1>8, <1>9

\* Dropping the store flushes it.
LEMMA CloseOK ==
    ASSUME DiskInv, Close
    PROVE  DiskInv'
<1> USE DEF DiskInv
<1>0. op = Idle /\ op' = Idle /\ op'.pc = "idle" /\ op'.why = "none" /\ op' \in OpRec
    BY OpFields DEF Close
<1>b. StoreOK' /\ index' = index /\ Solid \subseteq Solid' /\ Stored' = Stored
    BY FlushFacts DEF Close
<1>1. TypeOK'
    <2>1. up' \in BOOLEAN
        BY Zenon DEF Close
    <2> QED
        BY <1>0, <1>b, <2>1 DEF TypeOK, StoreOK, Close, files, users, faults
<1>a. Known' = Known
    BY SameWalk DEF Close
<1>2. History'
    BY HistorySame DEF History, Close, files, users
<1>3. OpInStep'
    BY <1>0, <1>a, <1>b DEF OpInStep, RefExists, Close, files, users
<1>4. HeadInStep'
    BY <1>0, <1>b DEF HeadInStep, Close, files, users, faults
<1>5. SolidRefs'
    BY <1>0, <1>b, SolidQuiet DEF Close, users
<1>6. PublishKeepsHistory'
    BY <1>0 DEF PublishKeepsHistory
<1>7. HeadNeverDangles'
    BY DEF HeadNeverDangles, RefExists, Close, files, users, faults
<1>8. StoreInStep'
    BY <1>0, <1>b, StoreSame DEF Close, faults
<1>9. RefsTornByKills'
    BY <1>0, TornSame DEF Close, files, faults
<1> QED
    BY <1>1, <1>2, <1>3, <1>4, <1>5, <1>6, <1>7, <1>8, <1>9

\* A kill forgets the buffer, and the call in progress.
LEMMA KillOK ==
    ASSUME DiskInv, Kill
    PROVE  DiskInv'
<1> USE DEF DiskInv
<1>0. op' = Idle /\ op'.pc = "idle" /\ op'.why = "none" /\ op' \in OpRec /\ commits' = commits
    BY OpFields DEF Kill, Crash
<1>1. TypeOK'
    <2>1. up' \in BOOLEAN /\ dirty' \in BOOLEAN
        BY Zenon DEF Kill, Crash
    <2>2. cached' \subseteq Obj
        BY ToSetFacts DEF Kill, TypeOK
    <2>3. crashes' \in 0..MaxCrashes
        BY DiskAssumption DEF Kill, Crash, TypeOK
    <2>4. buf' \in Seq(Obj)
        BY DEF Kill, Crash
    <2> QED
        BY <1>0, <2>1, <2>2, <2>3, <2>4 DEF TypeOK, OpRec, Kill, Crash, users
<1>a. Known' = Known
    BY <1>0, SameWalk
<1>2. History'
    BY <1>0, HistorySame DEF History, Kill, Crash, users
<1>3. OpInStep'
    BY <1>0, <1>a DEF OpInStep, Kill, Crash, users
<1>4. HeadInStep'
    BY <1>0 DEF HeadInStep, TypeOK, Kill, Crash
<1>5. SolidRefs'
    BY <1>0, SolidQuiet DEF Solid, Kill, Crash, users
<1>6. PublishKeepsHistory'
    BY <1>0 DEF PublishKeepsHistory
<1>7. HeadNeverDangles'
    BY DEF HeadNeverDangles, RefExists, Kill, Crash, users
<1>8. StoreInStep'
    <2>1. crashes' # 0 /\ index' = index
        BY DEF Kill, Crash, TypeOK
    <2> QED
        BY <1>a, <2>1 DEF StoreInStep
<1>9. RefsTornByKills'
    <2>1. Cardinality(TornRefs) \in Nat /\ TornRefs' = TornRefs
        BY TornFinite DEF TornRefs, Kill, Crash
    <2> QED
        BY <1>0, <2>1 DEF RefsTornByKills, TornRefs, TypeOK, Kill, Crash
<1> QED
    BY <1>1, <1>2, <1>3, <1>4, <1>5, <1>6, <1>7, <1>8, <1>9

\* A power loss takes away nothing solid, and gives refs only what they once held.
LEMMA PowerLossOK ==
    ASSUME DiskInv, PowerLoss
    PROVE  DiskInv'
<1> USE DEF DiskInv
<1>0. op' = Idle /\ op'.pc = "idle" /\ op'.why = "none" /\ op' \in OpRec /\ commits' = commits
    BY OpFields DEF PowerLoss, Crash
<1>b. /\ index' \subseteq index /\ recs \subseteq recs' /\ recs' \subseteq Obj /\ index \ fresh \subseteq index'
    <2>1. ToSet(buf) \subseteq Obj
        BY ToSetFacts DEF TypeOK
    <2>2. PICK lost \in SUBSET fresh, kept \in SUBSET (cached \cup ToSet(buf)) :
              index' = index \ lost /\ recs' = recs \cup kept
        BY DEF PowerLoss
    <2> QED
        BY <2>1, <2>2 DEF TypeOK
<1>c. tip' \in [Name -> Target] /\ \A n \in Name : tip'[n] \in published \cup {Zero}
    <2>1. PICK held \in [refs -> {Zero} \cup published] :
              tip' = [n \in Name |-> IF n \in refs THEN held[n] ELSE tip[n]]
        BY DEF PowerLoss
    <2> QED
        BY <2>1 DEF TypeOK, Target, History
<1>1. TypeOK'
    <2>1. up' \in BOOLEAN /\ dirty' \in BOOLEAN /\ powerLost' \in BOOLEAN
        BY Zenon DEF PowerLoss, Crash
    <2>2. tip' \in [Name -> Target]
        BY <1>c
    <2>3. crashes' \in 0..MaxCrashes
        BY DiskAssumption DEF PowerLoss, Crash, TypeOK
    <2>4. buf' \in Seq(Obj)
        BY DEF PowerLoss, Crash
    <2>5. headFile' \in Name \cup {NoHead, Torn}
        BY DEF PowerLoss
    <2> QED
        BY <1>0, <1>b, <2>1, <2>2, <2>3, <2>4, <2>5 DEF TypeOK, OpRec, PowerLoss, Crash, users
<1>a. Known' = Known
    BY <1>0, SameWalk
<1>2. History'
    BY <1>0, <1>c, HistorySame DEF History, PowerLoss, Crash, users
<1>3. OpInStep'
    BY <1>0, <1>a, NameFacts DEF OpInStep, PowerLoss, Crash, users
<1>4. HeadInStep'
    BY <1>0 DEF HeadInStep, TypeOK, PowerLoss, Crash
<1>5. SolidRefs'
    <2>1. Solid \subseteq Solid'
        BY <1>b DEF Solid, PowerLoss
    <2> QED
        BY <1>0, <2>1, SolidQuiet DEF PowerLoss, Crash, users
<1>6. PublishKeepsHistory'
    BY <1>0 DEF PublishKeepsHistory
<1>7. HeadNeverDangles'
    BY DEF HeadNeverDangles, PowerLoss
<1>8. StoreInStep'
    <2>1. crashes' # 0
        BY DEF PowerLoss, Crash, TypeOK
    <2> QED
        BY <1>a, <1>b, <2>1 DEF StoreInStep
<1>9. RefsTornByKills'
    BY DEF RefsTornByKills, PowerLoss
<1> QED
    BY <1>1, <1>2, <1>3, <1>4, <1>5, <1>6, <1>7, <1>8, <1>9

\* create_branch is given what a name or a hash resolves to.
LEMMA CreateBranchOK ==
    ASSUME DiskInv, NEW n \in Name, NEW o \in Obj, CreateBranch(n, o)
    PROVE  DiskInv'
<1> USE DEF DiskInv
<1>0. /\ op = Idle /\ op.pc = "idle" /\ op.why = "none" /\ up
      /\ op' \in OpRec /\ op'.pc = "ref" /\ op'.name = n /\ op'.obj = o /\ op'.why = "branch"
    BY OpFields, Busy, KnownFacts DEF CreateBranch, Pcs, Whys
<1>b. o \in Known /\ (~batched => SolidFrom(o)) /\ o \in index
    BY ResolvesFacts DEF CreateBranch
<1>1. TypeOK'
    BY <1>0 DEF TypeOK, OpRec, CreateBranch, files, cas, memory, users, faults
<1>a. commits' = commits /\ Known' = Known
    BY SameWalk DEF CreateBranch
<1>2. History'
    BY HistorySame DEF History, CreateBranch, files, users
<1>3. OpInStep'
    BY <1>0, <1>a, <1>b DEF OpInStep, RefExists, CreateBranch, files, cas, memory, users
<1>4. HeadInStep'
    BY <1>0 DEF HeadInStep, CreateBranch, files, cas, memory, users, faults
<1>5. SolidRefs'
    <2> SUFFICES ASSUME ~batched'
                 PROVE  fsyncEvery' = 1 /\ (\A x \in published' : SolidFrom(x)') /\ SolidFrom(o)'
        BY <1>0 DEF SolidRefs
    <2>1. fsyncEvery = 1 /\ (\A x \in published : SolidFrom(x)) /\ SolidFrom(o)
        BY <1>b DEF SolidRefs, CreateBranch, users
    <2>2. Solid' = Solid
        BY DEF CreateBranch, cas, Solid
    <2> QED
        BY <1>a, <2>1, <2>2, SolidSame DEF CreateBranch, memory, users
<1>6. PublishKeepsHistory'
    BY <1>0 DEF PublishKeepsHistory
<1>7. HeadNeverDangles'
    BY DEF HeadNeverDangles, RefExists, CreateBranch, files, users, faults
<1>8. StoreInStep'
    BY <1>0, StoreSame DEF Stored, CreateBranch, files, cas, faults
<1>9. RefsTornByKills'
    BY <1>0, TornSame DEF CreateBranch, files, cas, faults
<1> QED
    BY <1>1, <1>2, <1>3, <1>4, <1>5, <1>6, <1>7, <1>8, <1>9

\* A merge is given a descendant of the tip.
LEMMA MergeOK ==
    ASSUME DiskInv, NEW n \in Name, NEW o \in Obj, Merge(o, n)
    PROVE  DiskInv'
<1> USE DEF DiskInv
<1>0. /\ op = Idle /\ op.pc = "idle" /\ op.why = "none" /\ up
      /\ op' \in OpRec /\ op'.pc = "ref" /\ op'.name = n /\ op'.obj = o /\ op'.why = "merge"
    BY OpFields, Busy, KnownFacts DEF Merge, Pcs, Whys
<1>b. o \in Known /\ (~batched => SolidFrom(o)) /\ o \in index
    BY ResolvesFacts DEF Merge
<1>1. TypeOK'
    BY <1>0 DEF TypeOK, OpRec, Merge, files, cas, memory, users, faults
<1>a. commits' = commits /\ Known' = Known
    BY SameWalk DEF Merge
<1>2. History'
    BY HistorySame DEF History, Merge, files, users
<1>3. OpInStep'
    BY <1>0, <1>a, <1>b DEF OpInStep, RefExists, Merge, files, cas, memory, users
<1>4. HeadInStep'
    BY <1>0 DEF HeadInStep, Merge, files, cas, memory, users, faults
<1>5. SolidRefs'
    <2> SUFFICES ASSUME ~batched'
                 PROVE  fsyncEvery' = 1 /\ (\A x \in published' : SolidFrom(x)') /\ SolidFrom(o)'
        BY <1>0 DEF SolidRefs
    <2>1. fsyncEvery = 1 /\ (\A x \in published : SolidFrom(x)) /\ SolidFrom(o)
        BY <1>b DEF SolidRefs, Merge, users
    <2>2. Solid' = Solid
        BY DEF Merge, cas, Solid
    <2> QED
        BY <1>a, <2>1, <2>2, SolidSame DEF Merge, memory, users
<1>6. PublishKeepsHistory'
    <2>1. tip[n] \in Reach(o) \/ Astray(o)
        BY HistoryWalk, ReachSelf DEF Merge, IsAncestor, Wanders
    <2>2. Reach(o)' = Reach(o)
        BY <1>a, SameWalk
    <2>3. Astray(o)' <=> Astray(o)
        BY <2>2 DEF Astray, Owned, Stored, Merge, cas
    <2>4. tip'[n] \in Reach(o)' \/ Astray(o)'
        BY <2>1, <2>2, <2>3 DEF Merge, files
    <2>5. (tip[op.name] \in Reach(op.obj) \/ Astray(op.obj))'
        BY <1>0, <2>4 DEF Astray, Reach, walk, IsCommit, Owned, Stored
    <2> QED
        BY <1>0, <2>5 DEF PublishKeepsHistory
<1>7. HeadNeverDangles'
    BY DEF HeadNeverDangles, RefExists, Merge, files, users, faults
<1>8. StoreInStep'
    BY <1>0, StoreSame DEF Stored, Merge, files, cas, faults
<1>9. RefsTornByKills'
    BY <1>0, TornSame DEF Merge, files, cas, faults
<1> QED
    BY <1>1, <1>2, <1>3, <1>4, <1>5, <1>6, <1>7, <1>8, <1>9

\* write_branch truncates the ref, unless a file is where its directory should be.
LEMMA RefTruncateOK ==
    ASSUME DiskInv, RefTruncate
    PROVE  DiskInv'
<1> USE DEF DiskInv
<1>a. commits' = commits /\ Known' = Known
    BY SameWalk DEF RefTruncate
<1>b. op.pc = "ref" /\ op \in OpRec /\ op.name \in Name /\ up /\ op.obj \in index /\ op.obj \in Known
    BY Busy DEF RefTruncate, TypeOK, OpRec, OpInStep
<1>c. \/ /\ op' = Idle /\ op'.pc = "idle" /\ op'.why = "none" /\ op' \in OpRec
         /\ UNCHANGED <<refs, dirs, tip>> /\ op.why # "genesis"
      \/ /\ op' \in OpRec /\ op'.pc = "refdata" /\ op'.name = op.name /\ op'.obj = op.obj
         /\ op'.parents = op.parents /\ op'.why = op.why
         /\ refs' = refs \cup {op.name}
         /\ dirs' = dirs \cup ({Under[op.name]} \ {"heads"})
         /\ tip' = [tip EXCEPT ![op.name] = Zero]
    <2>1. CASE ({Under[op.name]} \ {"heads"}) \cap refs # {}
        BY <1>b, <2>1, OpFields DEF RefTruncate, OpInStep
    <2>2. CASE ({Under[op.name]} \ {"heads"}) \cap refs = {}
        BY <1>b, <2>2, OpMoves DEF RefTruncate, Pcs
    <2> QED
        BY <2>1, <2>2
<1>d. /\ refs \subseteq refs' /\ dirs \subseteq dirs' /\ refs' \subseteq Name /\ dirs' \subseteq Name
      /\ tip' \in [Name -> Target]
      /\ \A n \in Name : tip'[n] \in {Zero, tip[n]}
      /\ \A n \in Name : (op'.pc = "refdata" /\ n = op.name) \/ tip'[n] = tip[n]
    <2>1. {Under[op.name]} \ {"heads"} \subseteq Name
        BY <1>b, DiskAssumption
    <2>2. refs \subseteq Name /\ dirs \subseteq Name /\ tip \in [Name -> Target] /\ Zero \in Target
        BY OpFields DEF TypeOK
    <2>3. CASE UNCHANGED <<refs, dirs, tip>>
        BY <2>2, <2>3
    <2>4. CASE op'.pc = "refdata" /\ tip' = [tip EXCEPT ![op.name] = Zero]
        <3>1. /\ tip' \in [Name -> Target]
              /\ \A n \in Name : tip'[n] = IF n = op.name THEN Zero ELSE tip[n]
            BY <1>b, <2>2, <2>4
        <3>2. refs \subseteq refs' /\ dirs \subseteq dirs' /\ refs' \subseteq Name /\ dirs' \subseteq Name
            BY <1>b, <1>c, <2>1, <2>2
        <3> QED
            BY <2>4, <3>1, <3>2
    <2> QED
        BY <1>c, <2>3, <2>4
<1>1. TypeOK'
    BY <1>c, <1>d DEF TypeOK, OpRec, RefTruncate, cas, memory, users, faults
<1>2. History'
    BY <1>a, <1>d, HistorySame DEF History, RefTruncate, users
<1>3. OpInStep'
    BY <1>a, <1>b, <1>c, <1>d DEF OpInStep, RefExists, RefTruncate, cas, memory, users
<1>4. HeadInStep'
    BY <1>b, <1>c, <1>d DEF HeadInStep, OpInStep, TypeOK, RefTruncate, cas, memory, users, faults
<1>5. SolidRefs'
    <2>1. CASE op' = Idle
        BY <1>a, <2>1, OpFields, SolidQuiet DEF Solid, RefTruncate, cas, memory, users
    <2>2. CASE op' # Idle
        <3>1. op'.pc = "refdata" /\ op'.obj = op.obj
            BY <1>c, <2>2
        <3>2. PICK o : o = op.obj
            OBVIOUS
        <3> SUFFICES ASSUME ~batched'
                     PROVE  fsyncEvery' = 1 /\ (\A x \in published' : SolidFrom(x)') /\ SolidFrom(o)'
            BY <3>1, <3>2 DEF SolidRefs, SolidFrom, Reach, walk
        <3>3. fsyncEvery = 1 /\ (\A x \in published : SolidFrom(x)) /\ SolidFrom(o)
            BY <1>b, <3>2 DEF SolidRefs, RefTruncate, users
        <3>4. Solid' = Solid
            BY DEF RefTruncate, cas, Solid
        <3> QED
            BY <1>a, <3>3, <3>4, SolidSame DEF RefTruncate, memory, users
    <2> QED
        BY <2>1, <2>2
<1>6. PublishKeepsHistory'
    BY <1>c DEF PublishKeepsHistory
<1>7. HeadNeverDangles'
    BY <1>d DEF HeadNeverDangles, RefExists, RefTruncate, users, faults
<1>8. StoreInStep'
    BY <1>a, <1>c, StoreSame DEF Stored, RefTruncate, cas, faults
<1>9. RefsTornByKills'
    <2>1. CASE op' = Idle
        BY <1>b, <1>c, <2>1, OpFields, TornSame DEF RefTruncate, faults
    <2>2. CASE op' # Idle
        <3>1. op'.pc = "refdata" /\ TornRefs' \subseteq TornRefs \cup {op.name}
            BY <1>b, <1>c, <2>2 DEF TornRefs, TypeOK
        <3>2. /\ IsFiniteSet(TornRefs \cup {op.name})
              /\ Cardinality(TornRefs \cup {op.name}) =< Cardinality(TornRefs) + 1
              /\ Cardinality(TornRefs \cup {op.name}) \in Nat
            <4>1. /\ IsFiniteSet(TornRefs \cup {op.name})
                  /\ Cardinality(TornRefs \cup {op.name})
                        = IF op.name \in TornRefs THEN Cardinality(TornRefs) ELSE Cardinality(TornRefs) + 1
                BY TornFinite, FS_AddElement
            <4> HIDE DEF TornRefs
            <4> QED
                BY <4>1, TornFinite, FS_CardinalityType
        <3>3. Cardinality(TornRefs') =< Cardinality(TornRefs \cup {op.name}) /\ Cardinality(TornRefs') \in Nat
            BY <3>1, <3>2, FS_Subset, FS_CardinalityType
        <3> QED
            BY <1>b, <3>1, <3>2, <3>3, TornFinite DEF RefsTornByKills, TornRefs, TypeOK, RefTruncate, faults
    <2> QED
        BY <2>1, <2>2
<1> QED
    BY <1>1, <1>2, <1>3, <1>4, <1>5, <1>6, <1>7, <1>8, <1>9

\* write_branch writes the hash.
LEMMA RefWriteOK ==
    ASSUME DiskInv, RefWrite
    PROVE  DiskInv'
<1> USE DEF DiskInv
<1>a. commits' = commits /\ Known' = Known
    BY SameWalk DEF RefWrite
<1>b. /\ op.pc = "refdata" /\ op \in OpRec /\ op.name \in Name /\ op.obj \in Target /\ up
      /\ op.obj \in index /\ op.obj \in Known /\ op.obj # Zero /\ op.obj \in Obj /\ RefExists(op.name)
    BY Busy, KnownFacts DEF RefWrite, TypeOK, OpRec, OpInStep
<1>c. \/ /\ op' = Idle /\ op'.pc = "idle" /\ op'.why = "none" /\ op' \in OpRec
         /\ told' = told \cup ({op.obj} \cap DOMAIN commits) /\ op.why # "genesis"
      \/ /\ op' \in OpRec /\ op'.pc = "head" /\ op'.name = op.name /\ op'.obj = op.obj
         /\ op'.why = "genesis" /\ op.why = "genesis" /\ told' = told
    <2>1. CASE op.why = "genesis"
        BY <1>b, <2>1, OpFields DEF RefWrite, Pcs, Whys
    <2>2. CASE op.why # "genesis"
        BY <2>2, OpFields DEF RefWrite
    <2> QED
        BY <2>1, <2>2
<1>d. /\ tip' = [tip EXCEPT ![op.name] = op.obj] /\ published' = published \cup {op.obj}
      /\ refs' = refs /\ dirs' = dirs /\ op'.pc \in {"idle", "head"} /\ told' \subseteq told \cup ({op.obj} \cap DOMAIN commits)
    BY <1>c DEF RefWrite
<1>1. TypeOK'
    <2>1. told' \subseteq 1..MaxCommits
        BY <1>d, KnownFacts DEF TypeOK
    <2>2. tip' \in [Name -> Target] /\ published' \subseteq Obj
        BY <1>b, <1>d DEF TypeOK
    <2> QED
        BY <1>c, <2>1, <2>2 DEF TypeOK, OpRec, RefWrite, cas, memory, faults
<1>2. History'
    <2>1. published' \subseteq Known /\ told' \subseteq published' \cap DOMAIN commits
        BY <1>b, <1>d DEF History
    <2>2. \A n \in Name : tip'[n] \in published' \cup {Zero}
        BY <1>b, <1>d DEF History, TypeOK
    <2> QED
        BY <1>a, <2>1, <2>2, HistorySame
<1>3. OpInStep'
    BY <1>a, <1>b, <1>c, <1>d DEF OpInStep, RefExists, RefWrite, cas, memory
<1>4. HeadInStep'
    BY <1>b, <1>c, <1>d DEF HeadInStep, OpInStep, TypeOK, RefWrite, cas, memory, faults
<1>5. SolidRefs'
    <2> SUFFICES ASSUME ~batched'
                 PROVE  fsyncEvery' = 1 /\ (\A x \in published' : SolidFrom(x)')
        BY <1>d DEF SolidRefs
    <2>1. fsyncEvery = 1 /\ (\A x \in published \cup {op.obj} : SolidFrom(x))
        BY <1>b DEF SolidRefs, RefWrite
    <2>2. Solid' = Solid
        BY DEF RefWrite, cas, Solid
    <2> QED
        BY <1>a, <1>d, <2>1, <2>2, SolidSame DEF RefWrite, memory
<1>6. PublishKeepsHistory'
    BY <1>d DEF PublishKeepsHistory
<1>7. HeadNeverDangles'
    BY <1>d DEF HeadNeverDangles, RefExists, RefWrite, faults
<1>8. StoreInStep'
    BY <1>a, <1>d, StoreSame DEF Stored, RefWrite, cas, faults
<1>9. RefsTornByKills'
    <2>1. op.name \in TornRefs /\ TornRefs' = TornRefs \ {op.name}
        BY <1>b, <1>d DEF TornRefs, TypeOK, OpInStep
    <2>2. Cardinality(TornRefs') = Cardinality(TornRefs) - 1
        BY <2>1, TornFinite, FS_RemoveElement
    <2> QED
        BY <1>b, <1>d, <2>2, TornFinite DEF RefsTornByKills, TornRefs, TypeOK, RefWrite, faults
<1> QED
    BY <1>1, <1>2, <1>3, <1>4, <1>5, <1>6, <1>7, <1>8, <1>9

\* Whatever list of parents COMMIT ends up with, they are known, and solid when
\* every commit is fsync'd.
LEMMA ParentFacts ==
    ASSUME DiskInv, HeadReads, NEW ps \in ParentLists
    PROVE  /\ ps \in Seq(Obj)
           /\ \A p \in ToSet(ps) : p \in Known /\ (~batched => SolidFrom(p))
<1>1. CASE ps = <<tip[head]>>
    <2>1. ToSet(ps) = {tip[head]} /\ ps \in Seq(Obj)
        BY <1>1, HeadFacts DEF ToSet
    <2> QED
        BY <2>1, HeadFacts
<1>2. ASSUME NEW p \in Obj, Resolves(p), ps = <<p>>
      PROVE  /\ ps \in Seq(Obj)
             /\ \A x \in ToSet(ps) : x \in Known /\ (~batched => SolidFrom(x))
    <2>1. ToSet(ps) = {p} /\ ps \in Seq(Obj)
        BY <1>2 DEF ToSet
    <2> QED
        BY <1>2, <2>1, ResolvesFacts
<1>3. ASSUME NEW p \in Obj, NEW q \in Obj, Resolves(p), Resolves(q), ps = <<p, q>>
      PROVE  /\ ps \in Seq(Obj)
             /\ \A x \in ToSet(ps) : x \in Known /\ (~batched => SolidFrom(x))
    <2>1. ToSet(ps) \subseteq {p, q} /\ ps \in Seq(Obj)
        BY <1>3 DEF ToSet
    <2> QED
        BY <1>3, <2>1, ResolvesFacts
<1> QED
    BY <1>1, <1>2, <1>3 DEF ParentLists

\* COMMIT stores the documents.
LEMMA ExecCommitOK ==
    ASSUME DiskInv, NEW r \in Root \cup {Zero}, ExecCommit(r)
    PROVE  DiskInv'
<1> USE DEF DiskInv
<1>a. commits' = commits /\ Known' = Known
    BY SameWalk DEF ExecCommit
<1>s. /\ StoreOK' /\ index' = index \cup ({r} \ {Zero})
      /\ Solid \subseteq Solid' /\ Stored \subseteq Stored'
      /\ index \subseteq Stored => index' \subseteq Stored'
    <2>1. CASE r = Zero
        <3>1. UNCHANGED cas
            BY <2>1 DEF ExecCommit
        <3> QED
            BY <2>1, <3>1 DEF cas, TypeOK, StoreOK, Solid, Stored
    <2>2. CASE r # Zero
        <3>1. r \in Root /\ PutTree(r)
            BY <2>2 DEF ExecCommit
        <3> QED
            BY <2>2, <3>1, PutTreeFacts
    <2> QED
        BY <2>1, <2>2
<1>0. /\ op = Idle /\ op.pc = "idle" /\ op.why = "none" /\ up /\ op' \in OpRec /\ Len(commits) < MaxCommits
      /\ \/ op' = Idle /\ op'.pc = "idle" /\ op'.why = "none"
         \/ /\ op'.pc = "indexes" /\ op'.name = head /\ op'.obj = r /\ op'.why \in {"commit", "parents"}
            /\ op'.why = "commit" => op'.parents = <<tip[head]>>
            /\ \A p \in ToSet(op'.parents) : p \in Known /\ (~batched => SolidFrom(p))
            /\ \E b \in DOMAIN commits : op'.trie = commits[b].trie
    <2>1. op = Idle /\ up /\ HeadReads /\ Len(commits) < MaxCommits
        BY DEF ExecCommit
    <2>2. PICK ps \in ParentLists, b \in DOMAIN commits :
              \/ op' = Idle
              \/ op' = Op("indexes", head, r, commits[b].trie, ps,
                          IF ps = <<tip[head]>> THEN "commit" ELSE "parents")
        BY DEF ExecCommit, LoadsAs
    <2>3. /\ ps \in Seq(Obj)
          /\ \A p \in ToSet(ps) : p \in Known /\ (~batched => SolidFrom(p))
        BY <2>1, ParentFacts
    <2>4. head \in Name
        BY <2>1 DEF HeadReads
    <2>5. r \in Target /\ commits[b].trie \in Root \cup {Zero}
        BY KnownFacts DEF Obj, Target
    <2>6. CASE op' = Idle
        BY <2>1, <2>6, OpFields, Busy
    <2>7. CASE op' # Idle
        <3>2. PICK w \in {"commit", "parents"} :
                 /\ op' = Op("indexes", head, r, commits[b].trie, ps, w)
                 /\ w = "commit" => ps = <<tip[head]>>
            BY <2>2, <2>7
        <3>a. op' = Op("indexes", head, r, commits[b].trie, ps, w)
            BY <3>2
        <3>3. op' \in OpRec
            <4>1. "indexes" \in Pcs /\ w \in Whys
                BY DEF Pcs, Whys
            <4> QED
                BY <2>3, <2>4, <2>5, <3>a, <4>1, OpFields
        <3>4. /\ op'.pc = "indexes" /\ op'.name = head /\ op'.obj = r /\ op'.trie = commits[b].trie
              /\ op'.why = w /\ op'.parents = ps
            BY <3>a, OpFields
        <3> QED
            BY <2>1, <2>3, <3>2, <3>3, <3>4, Busy
    <2> QED
        BY <2>6, <2>7
<1>1. TypeOK'
    BY <1>0, <1>s DEF TypeOK, StoreOK, OpRec, ExecCommit, files, memory, users, faults
<1>2. History'
    BY <1>a, HistorySame DEF History, ExecCommit, files, users
<1>3. OpInStep'
    BY <1>a, <1>0, <1>s DEF OpInStep, RefExists, ExecCommit, files, memory, users
<1>4. HeadInStep'
    BY <1>0, <1>s DEF HeadInStep, ExecCommit, files, memory, users, faults
<1>5. SolidRefs'
    <2>1. CASE op' = Idle
        BY <1>a, <1>s, <2>1, OpFields, SolidQuiet DEF ExecCommit, memory, users
    <2>2. CASE op' # Idle
        <3> SUFFICES ASSUME ~batched'
                     PROVE  /\ fsyncEvery' = 1 /\ (\A x \in published' : SolidFrom(x)')
                            /\ (\A p \in ToSet(op'.parents) : SolidFrom(p)')
            BY <1>0, <2>2 DEF SolidRefs
        <3>1. fsyncEvery = 1 /\ (\A x \in published : SolidFrom(x)) /\ ~batched
            BY DEF SolidRefs, ExecCommit, users
        <3> QED
            BY <1>a, <1>0, <1>s, <2>2, <3>1, SolidSame DEF ExecCommit, memory, users
    <2> QED
        BY <2>1, <2>2
<1>6. PublishKeepsHistory'
    BY <1>0 DEF PublishKeepsHistory
<1>7. HeadNeverDangles'
    BY DEF HeadNeverDangles, RefExists, ExecCommit, files, users, faults
<1>8. StoreInStep'
    <2>1. index' \subseteq Known' /\ crashes' = crashes
        BY <1>a, <1>s DEF StoreInStep, Known, ExecCommit, faults
    <2>2. ASSUME crashes = 0
          PROVE  /\ index' \subseteq Stored'
                 /\ \A n \in DOMAIN commits :
                        commits[n].whole /\ {commits[n].root, commits[n].trie} \subseteq index' \cup {Zero}
                 /\ op'.pc \in {"indexes", "persist"} => {op'.obj, op'.trie} \subseteq index' \cup {Zero}
        <3>1. \A n \in DOMAIN commits :
                        commits[n].whole /\ {commits[n].root, commits[n].trie} \subseteq index' \cup {Zero}
            BY <1>s, <2>2 DEF StoreInStep
        <3> QED
            BY <1>0, <1>s, <2>2, <3>1 DEF StoreInStep
    <2> QED
        BY <1>a, <2>1, <2>2 DEF StoreInStep
<1>9. RefsTornByKills'
    BY <1>0, TornSame DEF ExecCommit, files, faults
<1> QED
    BY <1>1, <1>2, <1>3, <1>4, <1>5, <1>6, <1>7, <1>8, <1>9

\* The indexes of the commit are kept, dropped or stored anew.
LEMMA UpdateIndexesOK ==
    ASSUME DiskInv, UpdateIndexes
    PROVE  DiskInv'
<1> USE DEF DiskInv
<1>a. commits' = commits /\ Known' = Known
    BY SameWalk DEF UpdateIndexes
<1>b. /\ op.pc = "indexes" /\ up /\ op \in OpRec
      /\ Len(commits) < MaxCommits /\ ToSet(op.parents) \subseteq Known
      /\ op.obj \in Root \cup {Zero} /\ op.why \in {"commit", "parents"}
      /\ op.why = "commit" => op.parents = <<tip[op.name]>>
    BY Busy DEF UpdateIndexes, OpInStep, TypeOK, OpRec
<1>0. /\ op' \in OpRec /\ StoreOK' /\ index \subseteq index' /\ index' \subseteq index \cup Root
      /\ Solid \subseteq Solid' /\ Stored \subseteq Stored'
      /\ index \subseteq Stored => index' \subseteq Stored'
      /\ \/ op' = Idle /\ op'.pc = "idle" /\ op'.why = "none"
         \/ /\ op'.pc = "persist" /\ op'.name = op.name /\ op'.obj = op.obj /\ op'.why = op.why
            /\ op'.parents = op.parents /\ op'.trie \in index' \cup {op.trie, Zero}
    <2>1. ASSUME UNCHANGED cas
          PROVE  /\ StoreOK' /\ index \subseteq index' /\ index' \subseteq index \cup Root
                 /\ Solid \subseteq Solid' /\ Stored \subseteq Stored'
                 /\ index \subseteq Stored => index' \subseteq Stored'
        BY <2>1 DEF cas, TypeOK, StoreOK, Solid, Stored
    <2>2. ASSUME NEW t \in Root, PutTree(t)
          PROVE  /\ StoreOK' /\ index \subseteq index' /\ index' \subseteq index \cup Root
                 /\ Solid \subseteq Solid' /\ Stored \subseteq Stored' /\ t \in index'
                 /\ index \subseteq Stored => index' \subseteq Stored'
        BY <2>2, PutTreeFacts
    <2>3. ASSUME NEW t \in Root \cup {Zero},
                 op' = IF ToSet(op.parents) \subseteq index'
                       THEN [op EXCEPT !.pc = "persist", !.trie = t] ELSE Idle
          PROVE  /\ op' \in OpRec
                 /\ \/ op' = Idle /\ op'.pc = "idle" /\ op'.why = "none"
                    \/ /\ op'.pc = "persist" /\ op'.name = op.name /\ op'.obj = op.obj /\ op'.why = op.why
                       /\ op'.parents = op.parents /\ op'.trie = t
        <3>1. CASE ToSet(op.parents) \subseteq index'
            <4>1. op' = [op EXCEPT !.pc = "persist", !.trie = t]
                BY <2>3, <3>1
            <4>2. "persist" \in Pcs
                BY DEF Pcs
            <4> QED
                BY <1>b, <4>1, <4>2 DEF OpRec
        <3>2. CASE ~(ToSet(op.parents) \subseteq index')
            BY <2>3, <3>2, OpFields
        <3> QED
            BY <3>1, <3>2
    <2>4. CASE \E t \in Root \cup {Zero} :
                  /\ \/ t \in {op.trie, Zero} /\ UNCHANGED cas
                     \/ t \in Root /\ ReadsTree(op.trie) /\ PutTree(t)
                  /\ op' = IF ToSet(op.parents) \subseteq index'
                           THEN [op EXCEPT !.pc = "persist", !.trie = t] ELSE Idle
        <3>1. PICK t \in Root \cup {Zero} :
                  /\ \/ t \in {op.trie, Zero} /\ UNCHANGED cas
                     \/ t \in Root /\ ReadsTree(op.trie) /\ PutTree(t)
                  /\ op' = IF ToSet(op.parents) \subseteq index'
                           THEN [op EXCEPT !.pc = "persist", !.trie = t] ELSE Idle
            BY <2>4
        <3> QED
            BY <2>1, <2>2, <2>3, <3>1
    <2>5. CASE op' = Idle /\ UNCHANGED cas
        BY <2>1, <2>5, OpFields
    <2> QED
        BY <2>4, <2>5 DEF UpdateIndexes
<1>1. TypeOK'
    BY <1>0 DEF TypeOK, StoreOK, OpRec, UpdateIndexes, files, memory, users, faults
<1>2. History'
    BY <1>a, HistorySame DEF History, UpdateIndexes, files, users
<1>3. OpInStep'
    BY <1>a, <1>b, <1>0 DEF OpInStep, RefExists, UpdateIndexes, files, memory, users
<1>4. HeadInStep'
    BY <1>b, <1>0 DEF HeadInStep, UpdateIndexes, files, memory, users, faults
<1>5. SolidRefs'
    <2>1. CASE op' = Idle
        BY <1>a, <1>0, <2>1, OpFields, SolidQuiet DEF UpdateIndexes, memory, users
    <2>2. CASE op' # Idle
        <3> SUFFICES ASSUME ~batched'
                     PROVE  /\ fsyncEvery' = 1 /\ (\A x \in published' : SolidFrom(x)')
                            /\ (\A p \in ToSet(op'.parents) : SolidFrom(p)')
            BY <1>0, <2>2 DEF SolidRefs
        <3>1. /\ fsyncEvery = 1 /\ (\A x \in published : SolidFrom(x)) /\ op'.parents = op.parents
              /\ \A p \in ToSet(op.parents) : SolidFrom(p)
            BY <1>b, <1>0, <2>2 DEF SolidRefs, UpdateIndexes, users
        <3> QED
            BY <1>a, <1>0, <3>1, SolidSame DEF UpdateIndexes, memory, users
    <2> QED
        BY <2>1, <2>2
<1>6. PublishKeepsHistory'
    BY <1>0 DEF PublishKeepsHistory
<1>7. HeadNeverDangles'
    BY DEF HeadNeverDangles, RefExists, UpdateIndexes, files, users, faults
<1>8. StoreInStep'
    <2>1. index' \subseteq Known' /\ crashes' = crashes
        BY <1>a, <1>0 DEF StoreInStep, Known, UpdateIndexes, faults
    <2>2. ASSUME crashes = 0
          PROVE  /\ index' \subseteq Stored'
                 /\ \A n \in DOMAIN commits :
                        commits[n].whole /\ {commits[n].root, commits[n].trie} \subseteq index' \cup {Zero}
                 /\ op'.pc \in {"indexes", "persist"} => {op'.obj, op'.trie} \subseteq index' \cup {Zero}
        <3>1. \A n \in DOMAIN commits :
                        commits[n].whole /\ {commits[n].root, commits[n].trie} \subseteq index' \cup {Zero}
            BY <1>0, <2>2 DEF StoreInStep
        <3>2. {op.obj, op.trie} \subseteq index' \cup {Zero}
            BY <1>b, <1>0, <2>2 DEF StoreInStep
        <3> QED
            BY <1>0, <2>2, <3>1, <3>2 DEF StoreInStep
    <2> QED
        BY <1>a, <2>1, <2>2 DEF StoreInStep
<1>9. RefsTornByKills'
    BY <1>b, <1>0, TornSame DEF UpdateIndexes, files, faults
<1> QED
    BY <1>1, <1>2, <1>3, <1>4, <1>5, <1>6, <1>7, <1>8, <1>9

\* `epochs commit` takes the parent's documents.
LEMMA CmdCommitOK ==
    ASSUME DiskInv, CmdCommit
    PROVE  DiskInv'
<1> USE DEF DiskInv
<1>a. commits' = commits /\ Known' = Known
    BY SameWalk DEF CmdCommit
<1>s. StoreOK' /\ index' = index /\ Solid' = Solid /\ Stored' = Stored
    BY DEF CmdCommit, cas, TypeOK, StoreOK, Solid, Stored
<1>0. /\ op = Idle /\ op.pc = "idle" /\ op.why = "none" /\ up /\ op' \in OpRec /\ Len(commits) < MaxCommits
      /\ op'.pc = "persist" /\ op'.name = head /\ op'.obj \in Root \cup {Zero} /\ op'.why = "commit"
      /\ op'.parents = <<tip[head]>> /\ op'.trie = Zero
      /\ \A p \in ToSet(op'.parents) : p \in Known /\ (~batched => SolidFrom(p))
      /\ \E b \in DOMAIN commits : op'.obj = commits[b].root
    <2>1. op = Idle /\ up /\ HeadReads /\ Len(commits) < MaxCommits
        BY DEF CmdCommit
    <2>2. PICK b \in DOMAIN commits : op' = Op("persist", head, commits[b].root, Zero, <<tip[head]>>, "commit")
        BY DEF CmdCommit, LoadsAs
    <2>3. /\ <<tip[head]>> \in Seq(Obj)
          /\ \A p \in ToSet(<<tip[head]>>) : p \in Known /\ (~batched => SolidFrom(p))
        <3>1. <<tip[head]>> \in ParentLists
            BY DEF ParentLists
        <3> QED
            BY <2>1, <3>1, ParentFacts
    <2>4. head \in Name
        BY <2>1, HeadFacts
    <2>5. commits[b].root \in Root \cup {Zero} /\ commits[b].root \in Target
        BY KnownFacts DEF Obj, Target
    <2>7. op' \in OpRec
        BY <2>2, <2>3, <2>4, <2>5, OpFields DEF Pcs, Whys
    <2> QED
        BY <2>1, <2>2, <2>3, <2>5, <2>7, OpFields, Busy
<1>1. TypeOK'
    BY <1>0, <1>s DEF TypeOK, StoreOK, OpRec, CmdCommit, files, memory, users, faults
<1>2. History'
    BY <1>a, HistorySame DEF History, CmdCommit, files, users
<1>3. OpInStep'
    BY <1>a, <1>0, <1>s DEF OpInStep, RefExists, CmdCommit, files, memory, users
<1>4. HeadInStep'
    BY <1>0, <1>s DEF HeadInStep, CmdCommit, files, memory, users, faults
<1>5. SolidRefs'
    <2> SUFFICES ASSUME ~batched'
                 PROVE  /\ fsyncEvery' = 1 /\ (\A x \in published' : SolidFrom(x)')
                        /\ (\A p \in ToSet(op'.parents) : SolidFrom(p)')
        BY <1>0 DEF SolidRefs
    <2>1. fsyncEvery = 1 /\ (\A x \in published : SolidFrom(x)) /\ ~batched
        BY DEF SolidRefs, CmdCommit, users
    <2> QED
        BY <1>a, <1>0, <1>s, <2>1, SolidSame DEF CmdCommit, memory, users
<1>6. PublishKeepsHistory'
    BY <1>0 DEF PublishKeepsHistory
<1>7. HeadNeverDangles'
    BY DEF HeadNeverDangles, RefExists, CmdCommit, files, users, faults
<1>8. StoreInStep'
    BY <1>a, <1>0, <1>s DEF StoreInStep, CmdCommit, faults
<1>9. RefsTornByKills'
    BY <1>0, TornSame DEF CmdCommit, files, faults
<1> QED
    BY <1>1, <1>2, <1>3, <1>4, <1>5, <1>6, <1>7, <1>8, <1>9

\* What a new commit is, in the store and in the history.
LEMMA NewCommit ==
    ASSUME DiskInv, NEW r, Adds(r), NEW c, c = Len(commits) + 1, Len(commits) < MaxCommits, Put(c)
    PROVE  /\ Len(commits) \in Nat /\ commits' \in Seq(CommitRec) /\ Len(commits') = c
           /\ c \in 1..MaxCommits /\ c \in Known' /\ Known \subseteq Known' /\ c \in Obj /\ c \in Target
           /\ StoreOK' /\ index' = index \cup {c} /\ index' \subseteq Known'
           /\ Solid \subseteq Solid' /\ Owned \subseteq Owned' /\ Stored \subseteq Stored'
           /\ c \in Owned' /\ dirty'
           /\ commits'[c] = r /\ DOMAIN commits' = DOMAIN commits \cup {c}
           /\ \A n \in DOMAIN commits : commits'[n] = commits[n]
<1> USE DEF DiskInv
<1>1. /\ Len(commits) \in Nat /\ commits' \in Seq(CommitRec) /\ Len(commits') = c
      /\ Known' = Known \cup {c} /\ c \notin Known /\ commits'[c] = r
      /\ \A n \in DOMAIN commits : commits'[n] = commits[n]
    BY AddedFacts
<1>2. c \in 1..MaxCommits
    BY <1>1, DiskAssumption
<1>3. c \in Obj /\ c \in Target
    BY <1>2 DEF Obj, Target
<1>4. c \notin index /\ index \subseteq Known
    BY <1>1 DEF StoreInStep
<1>5. /\ StoreOK' /\ index' = index \cup {c}
      /\ Solid \subseteq Solid' /\ Owned \subseteq Owned' /\ Stored \subseteq Stored'
      /\ c \in Owned' /\ dirty'
    BY <1>3, <1>4, PutFacts
<1>6. DOMAIN commits' = DOMAIN commits \cup {c}
    <2>1. 1..Len(commits) + 1 = 1..Len(commits) \cup {Len(commits) + 1}
        BY <1>1
    <2> QED
        BY <2>1, AddedFacts
<1> QED
    BY <1>1, <1>2, <1>3, <1>4, <1>5, <1>6

\* StoreInStep with a new commit whose trees were stored.
LEMMA StoreAdded ==
    ASSUME DiskInv, NEW r, Adds(r), NEW c, c = Len(commits) + 1, Len(commits) < MaxCommits, Put(c),
           crashes' = crashes, op'.pc \notin {"indexes", "persist"},
           crashes = 0 => r.whole /\ {r.root, r.trie} \subseteq index \cup {Zero}
    PROVE  StoreInStep'
<1>1. /\ index' = index \cup {c} /\ index' \subseteq Known' /\ Stored \subseteq Stored' /\ c \in Owned'
      /\ commits'[c] = r /\ DOMAIN commits' = DOMAIN commits \cup {c}
      /\ \A n \in DOMAIN commits : commits'[n] = commits[n]
    BY NewCommit
<1>2. ASSUME crashes = 0
      PROVE  /\ index' \subseteq Stored'
             /\ \A n \in DOMAIN commits' :
                    commits'[n].whole /\ {commits'[n].root, commits'[n].trie} \subseteq index' \cup {Zero}
    <2>1. index \subseteq Stored /\ c \in Stored'
        BY <1>1, <1>2 DEF DiskInv, StoreInStep, Owned
    <2>2. ASSUME NEW n \in DOMAIN commits'
          PROVE  commits'[n].whole /\ {commits'[n].root, commits'[n].trie} \subseteq index' \cup {Zero}
        <3>1. CASE n = c
            BY <1>1, <1>2, <3>1
        <3>2. CASE n # c
            <4>1. n \in DOMAIN commits /\ commits'[n] = commits[n]
                BY <1>1, <3>2
            <4> QED
                BY <1>1, <1>2, <4>1 DEF DiskInv, StoreInStep
        <3> QED
            BY <3>1, <3>2
    <2> QED
        BY <1>1, <2>1, <2>2
<1> QED
    BY <1>1, <1>2 DEF StoreInStep

\* write_genesis stores a commit without parents.
LEMMA InitGenesisOK ==
    ASSUME DiskInv, InitGenesis
    PROVE  DiskInv'
<1> USE DEF DiskInv
<1>r. PICK r : r = Commit(<<>>, Zero, Zero, TRUE)
    OBVIOUS
<1>c. PICK c : c = Len(commits) + 1
    OBVIOUS
<1>d. /\ Adds(r) /\ Len(commits) < MaxCommits /\ Put(c)
      /\ r.root = Zero /\ r.trie = Zero /\ ToSet(r.parents) = {}
    <2>a. r = [parents |-> <<>>, root |-> Zero, trie |-> Zero, whole |-> TRUE]
        BY <1>r DEF Commit
    <2>b. <<>> \in Seq(Obj) /\ TRUE \in BOOLEAN
        OBVIOUS
    <2>1. r \in CommitRec /\ r.root = Zero /\ r.trie = Zero /\ r.parents = <<>>
        BY <2>a, <2>b DEF CommitRec
    <2>2. ToSet(<<>>) = {}
        BY DEF ToSet
    <2>3. Len(commits) < MaxCommits
        BY DiskAssumption DEF InitGenesis, OpInStep
    <2>4. commits' = Append(commits, r) /\ Put(c)
        BY <1>r, <1>c DEF InitGenesis
    <2> QED
        BY <2>1, <2>2, <2>3, <2>4 DEF Adds
<1>w. r.whole
    BY <1>r DEF Commit
<1>e. /\ Len(commits) \in Nat /\ commits' \in Seq(CommitRec) /\ Len(commits') = c
      /\ c \in 1..MaxCommits /\ c \in Known' /\ Known \subseteq Known' /\ c \in Obj /\ c \in Target
      /\ StoreOK' /\ index' = index \cup {c} /\ Solid \subseteq Solid'
      /\ c \in Owned' /\ dirty'
    BY <1>c, <1>d, NewCommit
<1>0. /\ op.pc = "genesis" /\ op.why = "genesis" /\ up
      /\ op' \in OpRec /\ op'.pc = "flush" /\ op'.name = op.name /\ op'.obj = c /\ op'.why = "genesis"
    <2>1. op.pc = "genesis" /\ op' = Op("flush", op.name, c, Zero, <<>>, "genesis") /\ op.name \in Name
        BY <1>c DEF InitGenesis, TypeOK
    <2> QED
        BY <1>e, <2>1, OpFields, Busy DEF OpInStep, Pcs, Whys
<1>1. TypeOK'
    <2>1. Len(commits') =< MaxCommits
        BY <1>d, <1>e
    <2> QED
        BY <1>0, <1>e, <2>1 DEF TypeOK, CommitRec, StoreOK, OpRec, InitGenesis, files, memory, users, faults
<1>2. History'
    BY <1>d, HistoryAdded DEF InitGenesis, files, users
<1>3. OpInStep'
    BY <1>e, <1>0 DEF OpInStep, RefExists, InitGenesis, files, memory, users
<1>4. HeadInStep'
    BY <1>0, <1>e DEF HeadInStep, InitGenesis, files, memory, users, faults
<1>5. SolidRefs'
    <2> SUFFICES ASSUME ~batched'
                 PROVE  /\ fsyncEvery' = 1 /\ (\A x \in published' : SolidFrom(x)')
                        /\ \A x \in Reach(c)' : KeptIn(Owned, x)'
        BY <1>0 DEF SolidRefs, KeptIn, Reach, walk, IsCommit, Owned, Stored
    <2>1. fsyncEvery = 1 /\ (\A x \in published : x \in Known /\ SolidFrom(x))
        BY DEF SolidRefs, History, InitGenesis, users
    <2>2. /\ \A o \in Known : SolidFrom(o) => SolidFrom(o)'
          /\ \A x \in Reach(c)' : KeptIn(Owned, x)'
        BY <1>c, <1>d, <1>e, SolidAdded
    <2> QED
        BY <2>1, <2>2 DEF InitGenesis, memory, users
<1>6. PublishKeepsHistory'
    BY <1>0 DEF PublishKeepsHistory
<1>7. HeadNeverDangles'
    BY DEF HeadNeverDangles, RefExists, InitGenesis, files, users, faults
<1>8. StoreInStep'
    BY <1>c, <1>d, <1>w, <1>0, StoreAdded DEF InitGenesis, faults
<1>9. RefsTornByKills'
    BY <1>0, TornSame DEF InitGenesis, files, faults
<1> QED
    BY <1>1, <1>2, <1>3, <1>4, <1>5, <1>6, <1>7, <1>8, <1>9

\* persist_commit stores the commit, to be flushed when every commit is fsync'd.
LEMMA PersistCommitOK ==
    ASSUME DiskInv, PersistCommit
    PROVE  DiskInv'
<1> USE DEF DiskInv
<1>c. PICK c : c = Len(commits) + 1
    OBVIOUS
<1>w. PICK w \in BOOLEAN : w <=> {op.obj, op.trie} \subseteq Owned \cup {Zero}
    <2>1. CASE {op.obj, op.trie} \subseteq Owned \cup {Zero}
        BY <2>1
    <2>2. CASE ~({op.obj, op.trie} \subseteq Owned \cup {Zero})
        BY <2>2
    <2> QED
        BY <2>1, <2>2
<1>r. PICK r : r = Commit(op.parents, op.obj, op.trie, w)
    OBVIOUS
<1>d. /\ Adds(r) /\ Len(commits) < MaxCommits /\ Put(c)
      /\ r.root = op.obj /\ r.trie = op.trie /\ r.parents = op.parents
    <2>1. /\ op.parents \in Seq(Obj) /\ op.obj \in Root \cup {Zero} /\ ToSet(op.parents) \subseteq Known
          /\ Len(commits) < MaxCommits /\ op.trie \in Root \cup {Zero}
        BY DEF PersistCommit, OpInStep, TypeOK
    <2>2. r \in CommitRec /\ r.root = op.obj /\ r.trie = op.trie /\ r.parents = op.parents
        BY <1>r, <2>1 DEF Commit, CommitRec
    <2>3. commits' = Append(commits, r) /\ Put(c)
        <3>1. commits' = Append(commits, Commit(op.parents, op.obj, op.trie,
                                                {op.obj, op.trie} \subseteq Owned \cup {Zero}))
            BY DEF PersistCommit
        <3>2. w = ({op.obj, op.trie} \subseteq Owned \cup {Zero})
            BY <1>w, Zenon
        <3>3. commits' = Append(commits, r)
            BY <1>r, <3>1, <3>2, Zenon
        <3> QED
            BY <1>c, <3>3 DEF PersistCommit
    <2> QED
        BY <2>1, <2>2, <2>3 DEF Adds
<1>v. r.whole <=> {r.root, r.trie} \subseteq Owned \cup {Zero}
    <2>1. r.whole = w
        BY <1>r DEF Commit
    <2> QED
        BY <1>d, <1>w, <2>1
<1>e. /\ Len(commits) \in Nat /\ commits' \in Seq(CommitRec) /\ Len(commits') = c
      /\ c \in 1..MaxCommits /\ c \in Known' /\ Known \subseteq Known' /\ c \in Obj /\ c \in Target
      /\ StoreOK' /\ index' = index \cup {c} /\ Solid \subseteq Solid' /\ Owned \subseteq Owned'
      /\ c \in Owned' /\ dirty'
    BY <1>c, <1>d, NewCommit
<1>0. /\ op.pc = "persist" /\ op.why \in {"commit", "parents"} /\ up
      /\ op' \in OpRec /\ op'.name = op.name /\ op'.obj = c /\ op'.why = op.why
      /\ op.why = "commit" => op.parents = <<tip[op.name]>>
      /\ op'.pc = (IF FsyncDue THEN "flush" ELSE "ref")
    <2>1. /\ op.pc = "persist" /\ op.name \in Name /\ op.why \in Whys
          /\ op' = Op(IF FsyncDue THEN "flush" ELSE "ref", op.name, c, Zero, <<>>, op.why)
        BY <1>c DEF PersistCommit, TypeOK
    <2>2. (IF FsyncDue THEN "flush" ELSE "ref") \in Pcs
        BY DEF Pcs
    <2> QED
        BY <1>e, <2>1, <2>2, OpFields, Busy DEF OpInStep
<1>k. op.why = "commit" => tip[op.name] \in Reach(c)'
    <2> SUFFICES ASSUME op.why = "commit" PROVE tip[op.name] \in Reach(c)'
        OBVIOUS
    <2>1. Reach(c)' = {c} \cup UNION {Reach(p) : p \in ToSet(r.parents)}
        BY <1>c, <1>d, AddedWalk
    <2>2. tip[op.name] \in ToSet(r.parents)
        BY <1>0, <1>d DEF ToSet
    <2>3. tip[op.name] \in Reach(tip[op.name])
        BY HistoryWalk, ReachSelf
    <2> QED
        BY <2>1, <2>2, <2>3
<1>m. op.why = "commit" => (tip[op.name] \in Reach(op.obj))'
    BY <1>0, <1>k DEF Reach, walk, IsCommit, PersistCommit, files
<1>1. TypeOK'
    <2>1. sinceFsync' \in Nat
        BY DEF PersistCommit, TypeOK
    <2> QED
        BY <1>0, <1>e, <1>d, <2>1 DEF TypeOK, CommitRec, StoreOK, OpRec, PersistCommit, files, users, faults
<1>2. History'
    BY <1>d, HistoryAdded DEF PersistCommit, files, users
<1>3. OpInStep'
    BY <1>e, <1>0, <1>m DEF OpInStep, RefExists, PersistCommit, files, users
<1>4. HeadInStep'
    BY <1>0, <1>e DEF HeadInStep, PersistCommit, files, users, faults
<1>5. SolidRefs'
    <2> SUFFICES ASSUME ~batched'
                 PROVE  /\ fsyncEvery' = 1 /\ (\A x \in published' : SolidFrom(x)') /\ op'.pc = "flush"
                        /\ \A x \in Reach(c)' : KeptIn(Owned, x)'
        BY <1>0 DEF SolidRefs, KeptIn, Reach, walk, IsCommit, Owned, Stored
    <2>1. /\ fsyncEvery = 1 /\ (\A x \in published : x \in Known /\ SolidFrom(x))
          /\ (\A p \in ToSet(op.parents) : SolidFrom(p))
        BY <1>0 DEF SolidRefs, History, PersistCommit, users
    <2>2. FsyncDue
        BY <2>1 DEF FsyncDue, TypeOK
    <2>3. /\ \A o \in Known : SolidFrom(o) => SolidFrom(o)'
          /\ /\ \A p \in ToSet(r.parents) : SolidFrom(p)
             /\ c \in Owned'
             /\ r.whole => {r.root, r.trie} \subseteq Owned' \cup {Zero}
             => \A x \in Reach(c)' : KeptIn(Owned, x)'
        BY <1>c, <1>d, <1>e, SolidAdded
    <2>4. \A x \in Reach(c)' : KeptIn(Owned, x)'
        BY <1>d, <1>e, <1>v, <2>1, <2>3
    <2> QED
        BY <1>0, <2>1, <2>2, <2>3, <2>4 DEF PersistCommit, users
<1>6. PublishKeepsHistory'
    BY <1>0, <1>m DEF PublishKeepsHistory
<1>7. HeadNeverDangles'
    BY DEF HeadNeverDangles, RefExists, PersistCommit, files, users, faults
<1>8. StoreInStep'
    <2>1. crashes = 0 => {r.root, r.trie} \subseteq index \cup {Zero} /\ index \subseteq Owned
        BY <1>0, <1>d DEF StoreInStep, Owned
    <2>2. crashes' = crashes /\ op'.pc \notin {"indexes", "persist"}
        BY <1>0 DEF PersistCommit, faults
    <2> QED
        BY <1>c, <1>d, <1>v, <2>1, <2>2, StoreAdded
<1>9. RefsTornByKills'
    BY <1>0, TornSame DEF PersistCommit, files, faults
<1> QED
    BY <1>1, <1>2, <1>3, <1>4, <1>5, <1>6, <1>7, <1>8, <1>9

\* The flush makes the new commit solid with its history.
LEMMA FlushCommitOK ==
    ASSUME DiskInv, FlushCommit
    PROVE  DiskInv'
<1> USE DEF DiskInv
<1>a. commits' = commits /\ Known' = Known /\ \A o : Reach(o)' = Reach(o)
    BY SameWalk DEF FlushCommit
<1>s. /\ StoreOK' /\ index' = index /\ Solid \subseteq Solid' /\ Stored' = Stored
      /\ dirty /\ Owned \subseteq Solid'
    BY FlushFacts DEF FlushCommit, OpInStep
<1>0. /\ op.pc = "flush" /\ up /\ op.why \in {"genesis", "commit", "parents"}
      /\ op' \in OpRec /\ op'.pc = "ref" /\ op'.name = op.name /\ op'.obj = op.obj
      /\ op'.why = op.why
    BY OpMoves, Busy DEF FlushCommit, Pcs, TypeOK, OpRec, OpInStep
<1>m. op.why = "commit" => (tip[op.name] \in Reach(op.obj))'
    <2>1. op.why = "commit" => tip[op.name] \in Reach(op.obj)
        BY <1>0 DEF OpInStep
    <2>2. PICK o : o = op.obj
        OBVIOUS
    <2>3. op.why = "commit" => tip'[op'.name] \in Reach(o)'
        BY <1>a, <1>0, <2>1, <2>2 DEF FlushCommit, files
    <2> QED
        BY <1>0, <2>2, <2>3 DEF Reach, walk, IsCommit
<1>1. TypeOK'
    BY <1>0, <1>s DEF TypeOK, StoreOK, OpRec, FlushCommit, files, users, faults
<1>2. History'
    BY <1>a, HistorySame DEF History, FlushCommit, files, users
<1>3. OpInStep'
    BY <1>a, <1>0, <1>s DEF OpInStep, RefExists, FlushCommit, files, users
<1>4. HeadInStep'
    BY <1>0, <1>s DEF HeadInStep, FlushCommit, files, users, faults
<1>5. SolidRefs'
    <2>o. PICK o : o = op.obj
        OBVIOUS
    <2> SUFFICES ASSUME ~batched'
                 PROVE  fsyncEvery' = 1 /\ (\A x \in published' : SolidFrom(x)') /\ SolidFrom(o)'
        BY <1>0, <2>o DEF SolidRefs, SolidFrom, KeptIn, Reach, walk, IsCommit, Solid
    <2>1. /\ fsyncEvery = 1 /\ (\A x \in published : SolidFrom(x))
          /\ \A x \in Reach(o) : KeptIn(Owned, x)
        BY <1>0, <2>o DEF SolidRefs, FlushCommit, users
    <2>2. SolidFrom(o)'
        BY <1>a, <1>s, <2>1 DEF SolidFrom, KeptIn, IsCommit
    <2> QED
        BY <1>a, <1>s, <2>1, <2>2, SolidSame DEF FlushCommit, users
<1>6. PublishKeepsHistory'
    BY <1>0, <1>m DEF PublishKeepsHistory
<1>7. HeadNeverDangles'
    BY DEF HeadNeverDangles, RefExists, FlushCommit, files, users, faults
<1>8. StoreInStep'
    BY <1>a, <1>0, <1>s, StoreSame DEF FlushCommit, faults
<1>9. RefsTornByKills'
    BY <1>0, TornSame DEF FlushCommit, files, faults
<1> QED
    BY <1>1, <1>2, <1>3, <1>4, <1>5, <1>6, <1>7, <1>8, <1>9

\* The empty directory.
LEMMA InitOK == Init => DiskInv
<1> SUFFICES ASSUME Init PROVE DiskInv
    OBVIOUS
<1>0. /\ op = Idle /\ op \in OpRec /\ op.pc = "idle" /\ op.why = "none"
      /\ commits = <<>> /\ DOMAIN commits = {} /\ Len(commits) = 0
    BY OpFields DEF Init
<1>1. TypeOK
    <2>1. commits \in Seq(CommitRec) /\ buf \in Seq(Obj)
        BY DEF Init
    <2>2. tip \in [Name -> Target]
        BY OpFields DEF Init
    <2>3. /\ dirty \in BOOLEAN /\ up \in BOOLEAN /\ ready \in BOOLEAN
          /\ batched \in BOOLEAN /\ powerLost \in BOOLEAN
        BY Zenon DEF Init
    <2> QED
        BY <1>0, <2>1, <2>2, <2>3, DiskAssumption DEF TypeOK, OpRec, CommitRec, Init
<1>2. History
    <2>1. IsWalk(commits, [n \in {} |-> {}])
        BY <1>0 DEF IsWalk
    <2>2. IsWalk(commits, walk)
        BY <2>1, WalkChosen
    <2>3. walk = [n \in DOMAIN commits |->
            {n} \cup UNION {IF p \in DOMAIN commits THEN walk[p] ELSE {p} : p \in ToSet(commits[n].parents)}]
        BY <2>2, Zenon DEF IsWalk, Visit
    <2>4. \A n \in DOMAIN commits : ToSet(commits[n].parents) \subseteq Root \cup 1..(n - 1)
        BY <1>0
    <2>5. /\ published \subseteq Known /\ told \subseteq published \cap DOMAIN commits
          /\ \A n \in Name : tip[n] \in published \cup {Zero}
        BY DEF Init
    <2> QED
        BY <2>3, <2>4, <2>5, Zenon DEF History, IsCommit
<1>3. OpInStep
    BY <1>0 DEF OpInStep, Init
<1>4. HeadInStep
    BY <1>0 DEF HeadInStep, Init
<1>5. SolidRefs
    BY <1>0 DEF SolidRefs, Init
<1>6. PublishKeepsHistory
    BY <1>0 DEF PublishKeepsHistory
<1>7. HeadNeverDangles
    BY DEF HeadNeverDangles, Init
<1>8. StoreInStep
    BY <1>0 DEF StoreInStep, Init
<1>9. RefsTornByKills
    <2>1. {n \in refs : tip[n] = Zero} = {}
        BY DEF Init
    <2> QED
        BY <1>0, <2>1, FS_EmptySet DEF RefsTornByKills, Init
<1> QED
    BY <1>1, <1>2, <1>3, <1>4, <1>5, <1>6, <1>7, <1>8, <1>9 DEF DiskInv

\* A step that changes nothing.
LEMMA StutterOK ==
    ASSUME DiskInv, UNCHANGED vars
    PROVE  DiskInv'
<1> USE DEF vars, files, cas, memory, users, faults
<1>1. walk' = walk
    BY SameWalk
<1>2. History'
    BY HistorySame DEF DiskInv, History
<1>3. TypeOK' /\ HeadInStep' /\ HeadNeverDangles' /\ RefsTornByKills'
    BY DEF DiskInv, TypeOK, HeadInStep, HeadNeverDangles, RefExists, RefsTornByKills
<1>4. OpInStep'
    BY <1>1 DEF DiskInv, OpInStep, RefExists, Known, Reach, IsCommit
<1>5. StoreInStep'
    BY DEF DiskInv, StoreInStep, Known, Stored
<1>6. SolidRefs'
    BY <1>1 DEF DiskInv, SolidRefs, SolidFrom, KeptIn, Reach, IsCommit, Solid, Owned, Stored
<1>7. PublishKeepsHistory'
    BY <1>1 DEF DiskInv, PublishKeepsHistory, Astray, Reach, IsCommit, Owned, Stored
<1> QED
    BY <1>2, <1>3, <1>4, <1>5, <1>6, <1>7 DEF DiskInv

-----------------------------------------------------------------------------
(* Theorems *)

\* The files, the calls in progress, HEAD, the history of commits and what is on
\* disk stay in step through every operation, kill and power loss.
THEOREM DiskInvariant == CrashSpec => []DiskInv
<1>1. Init => DiskInv
    BY InitOK
<1>2. DiskInv /\ [CrashNext]_vars => DiskInv'
    <2> SUFFICES ASSUME DiskInv, [CrashNext]_vars PROVE DiskInv'
        OBVIOUS
    <2>1. CASE UNCHANGED vars
        BY <2>1, StutterOK
    <2>2. CASE Open \/ InitStart \/ InitHead \/ InitGenesis
        BY <2>2, OpenOK, InitStartOK, InitHeadOK, InitGenesisOK
    <2>3. CASE \E r \in Root \cup {Zero} : ExecCommit(r)
        BY <2>3, ExecCommitOK
    <2>4. CASE UpdateIndexes \/ CmdCommit \/ PersistCommit \/ FlushCommit \/ RefTruncate \/ RefWrite
        BY <2>4, UpdateIndexesOK, CmdCommitOK, PersistCommitOK, FlushCommitOK, RefTruncateOK, RefWriteOK
    <2>5. CASE \E n \in Name, o \in Obj : CreateBranch(n, o) \/ Merge(o, n)
        BY <2>5, CreateBranchOK, MergeOK
    <2>6. CASE \E n \in Name : DeleteBranch(n) \/ CheckoutBranch(n)
        BY <2>6, DeleteBranchOK, CheckoutBranchOK
    <2>7. CASE HeadTruncate \/ HeadWrite \/ Flush \/ Close
        BY <2>7, HeadTruncateOK, HeadWriteOK, FlushOK, CloseOK
    <2>8. CASE \E n \in FsyncChoices : SetFsyncEvery(n)
        BY <2>8, SetFsyncEveryOK
    <2>9. CASE Kill \/ PowerLoss
        BY <2>9, KillOK, PowerLossOK
    <2> QED
        BY <2>1, <2>2, <2>3, <2>4, <2>5, <2>6, <2>7, <2>8, <2>9 DEF CrashNext, Next
<1> QED
    BY <1>1, <1>2, PTL DEF CrashSpec

\* Every state of a repository on disk is well typed.
THEOREM DiskTypeCorrect == CrashSpec => []TypeOK
<1>1. DiskInv => TypeOK
    BY DEF DiskInv
<1> QED
    BY <1>1, DiskInvariant, PTL

\* Until something is killed, HEAD names a branch that can be read and whose
\* target is stored whenever no call is running, so that the next COMMIT has
\* somewhere to go (read_branch, set_head, delete_branch).
THEOREM HeadStaysUsable == CrashSpec => []HeadUsable
<1>1. DiskInv => HeadUsable
    <2> SUFFICES ASSUME DiskInv, crashes = 0, up, op = Idle
                 PROVE  /\ head \in Name /\ headFile = head
                        /\ head \notin dirs => ReadBranch(head) /\ tip[head] \in index
        BY DEF HeadUsable
    <2>1. op.pc = "idle" /\ op.why = "none"
        BY Busy
    <2>2. headFile \in Name /\ head = headFile /\ ready /\ ~powerLost
        BY <2>1 DEF DiskInv, HeadInStep, OpInStep
    <2>3. head \notin dirs => head \in refs
        BY <2>2 DEF DiskInv, HeadNeverDangles, RefExists
    <2> QED
        BY <2>1, <2>2, <2>3 DEF DiskInv, HeadInStep, ReadBranch
<1> QED
    BY <1>1, DiskInvariant, PTL

\* COMMIT without PARENTS and MERGE never drop history: when write_branch begins,
\* the tip of the branch is an ancestor of the commit it is about to get.
THEOREM PublishingKeepsHistory == CrashSpec => []PublishKeepsHistory
<1>1. DiskInv => PublishKeepsHistory
    BY DEF DiskInv
<1> QED
    BY <1>1, DiskInvariant, PTL

\* As long as no power loss brings back an older HEAD, a HEAD file that names a
\* branch names one that exists, at every step of delete_branch, set_head and
\* write_branch and wherever the process is killed.
THEOREM HeadExists == CrashSpec => []HeadNeverDangles
<1>1. DiskInv => HeadNeverDangles
    BY DEF DiskInv
<1> QED
    BY <1>1, DiskInvariant, PTL

\* With fsync_every = 1, whatever a ref file holds, after any kills and power
\* losses, every commit it leads to is found by its hash, with its documents and
\* index tries if they were stored when the commit was made, as they all were before
\* the first crash (persist_commit, write_branch, put).
THEOREM RefsStayReadable == CrashSpec => []RefsReadable
<1>1. DiskInv => RefsReadable
    <2> SUFFICES ASSUME DiskInv, ~batched, NEW n \in refs, tip[n] # Zero,
                        NEW o \in Reach(tip[n]), o \in DOMAIN commits
                 PROVE  /\ o \in Owned
                        /\ crashes = 0 => commits[o].whole
                        /\ commits[o].whole => {commits[o].root, commits[o].trie} \subseteq Owned \cup {Zero}
        BY DEF RefsReadable
    <2>1. tip[n] \in published
        BY DEF DiskInv, History, TypeOK
    <2>2. KeptIn(Solid, o)
        BY <2>1 DEF DiskInv, SolidRefs, SolidFrom
    <2>3. crashes = 0 => commits[o].whole
        BY DEF DiskInv, StoreInStep
    <2> QED
        BY <2>2, <2>3, SolidOwned DEF KeptIn, IsCommit
<1> QED
    BY <1>1, DiskInvariant, PTL

\* A kill leaves at most the one ref that write_branch was writing without a hash,
\* and no other call leaves one.
THEOREM TornRefsCounted == CrashSpec => []RefsTornByKills
<1>1. DiskInv => RefsTornByKills
    BY DEF DiskInv
<1> QED
    BY <1>1, DiskInvariant, PTL
=============================================================================
