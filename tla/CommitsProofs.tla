---------------------------- MODULE CommitsProofs ---------------------------
(***************************************************************************)
(* What holds of the stores of any number of threads, whatever commits and  *)
(* nodes they are given: the timestamps of commits grow, because a step of  *)
(* the stores is a step of next_timestamp or none; a hash prefix never      *)
(* comes to name another object, because nothing leaves a store; and what   *)
(* fits its fields is loaded as it was stored.  The last rests on the codec *)
(* (what is read of a payload is what was written, field by field and loop  *)
(* by loop, for any number of values of a byte and any length of a hash)    *)
(* and on an invariant of the records, the cache and the calls under way.   *)
(***************************************************************************)
EXTENDS Commits, FiniteSetTheorems, NaturalsInduction, WellFoundedInduction, SequenceTheorems,
        TLAPS

-----------------------------------------------------------------------------
(***************************************************************************)
(* Timestamps grow, for any number of threads and calls.  The inductive     *)
(* invariant says what the race of the first calls can look like: one call  *)
(* is on its way to the clock, the others have been given 1, 2, 3, ..., and *)
(* the counter, which is above everything that was given, is still below    *)
(* every time the clock can show.                                           *)
(***************************************************************************)


Issue == [n : Nat, after : Nat]

TsTypeOK ==
    /\ TS \in Nat
    /\ clock \in Clock
    /\ call \in [Thread -> Call]
    /\ issued \in Seq(Issue)

\* The call that found the counter at 0 and has not stored the clock yet.
Pending(t) == call[t].pc \in {"first", "store"}

\* At most one call is pending; it began before any returned, and while it is
\* pending every call that returned was given the number of its turn.
RaceInv ==
    /\ \A t \in Thread : Pending(t) =>
          /\ TS = Len(issued) + 1
          /\ TS =< MaxCalls
          /\ call[t].after = 0
          /\ call[t].pc = "store" => call[t].n \in Clock
          /\ \A u \in Thread : Pending(u) => u = t
    /\ TS = 0 => issued = <<>> /\ \A t \in Thread : ~Pending(t)

\* The counter is above every timestamp.
CounterInv ==
    \A i \in 1 .. Len(issued) : issued[i].n < TS /\ issued[i].after < i

GrowInv ==
    /\ \A i \in 1 .. Len(issued) : \A j \in 1 .. issued[i].after : issued[j].n < issued[i].n
    /\ \A i, j \in 1 .. Len(issued) : i < j => issued[i].n # issued[j].n

TsInv == TsTypeOK /\ RaceInv /\ CounterInv /\ GrowInv

-----------------------------------------------------------------------------

\* What is returned next is above everything that was returned: the part of
\* the invariant about issued survives Return.
LEMMA ReturnKeeps ==
    ASSUME TsInv, NEW t \in Thread, NEW n \in Nat, NEW after \in Nat,
           Return(t, n, after), TS' \in Nat, n < TS', TS =< TS',
           after =< Len(issued), \A i \in 1 .. Len(issued) : issued[i].n < n
    PROVE  /\ issued' \in Seq(Issue)
           /\ Len(issued') = Len(issued) + 1
           /\ CounterInv'
           /\ GrowInv'
<1>1. issued' = Append(issued, [n |-> n, after |-> after])
  BY DEF Return
<1>2. [n |-> n, after |-> after] \in Issue
  BY DEF Issue
<1>3. issued \in Seq(Issue)
  BY DEF TsInv, TsTypeOK
<1>4. /\ issued' \in Seq(Issue)
      /\ Len(issued') = Len(issued) + 1
      /\ \A i \in 1 .. Len(issued) : issued'[i] = issued[i]
      /\ issued'[Len(issued) + 1] = [n |-> n, after |-> after]
  BY <1>1, <1>2, <1>3
<1>5. \A i \in 1 .. Len(issued) : issued[i] \in Issue
  BY <1>3
<1>n. /\ Len(issued) \in Nat
      /\ TS \in Nat
      /\ issued'[Len(issued) + 1].n = n
      /\ issued'[Len(issued) + 1].after = after
      /\ \A i \in 1 .. Len(issued) : issued[i].n \in Nat
  <2>1. Len(issued) \in Nat /\ TS \in Nat
    BY <1>3 DEF TsInv, TsTypeOK
  <2>2. issued'[Len(issued) + 1].n = n /\ issued'[Len(issued) + 1].after = after
    BY <1>4
  <2>3. \A r \in Issue : r.n \in Nat
    BY DEF Issue
  <2> QED
    BY <1>5, <2>1, <2>2, <2>3
<1>6. CounterInv'
  <2> SUFFICES ASSUME NEW i \in 1 .. Len(issued')
               PROVE  issued'[i].n < TS' /\ issued'[i].after < i
    BY DEF CounterInv
  <2>1. CASE i = Len(issued) + 1
    BY <1>n, <2>1
  <2>2. CASE i \in 1 .. Len(issued)
    <3>1. issued[i].n < TS /\ issued[i].after < i /\ issued[i].n \in Nat
      BY <1>n, <2>2 DEF TsInv, CounterInv
    <3> QED
      BY <1>4, <1>n, <2>2, <3>1
  <2> QED
    BY <1>4, <1>n, <2>1, <2>2
<1>7. \A i \in 1 .. Len(issued') : \A j \in 1 .. issued'[i].after : issued'[j].n < issued'[i].n
  <2> SUFFICES ASSUME NEW i \in 1 .. Len(issued'), NEW j \in 1 .. issued'[i].after
               PROVE  issued'[j].n < issued'[i].n
    OBVIOUS
  <2>1. CASE i = Len(issued) + 1
    <3>1. j \in 1 .. Len(issued)
      BY <1>4, <2>1
    <3> QED
      BY <1>4, <2>1, <3>1
  <2>2. CASE i \in 1 .. Len(issued)
    <3>1. j \in 1 .. Len(issued) /\ j \in 1 .. issued[i].after
      BY <1>4, <1>5, <2>2, SMTT(30) DEF CounterInv, TsInv, Issue
    <3> QED
      BY <1>4, <2>2, <3>1 DEF TsInv, GrowInv
  <2> QED
    BY <1>3, <1>4, <2>1, <2>2
<1>8. \A i, j \in 1 .. Len(issued') : i < j => issued'[i].n # issued'[j].n
  <2> SUFFICES ASSUME NEW i \in 1 .. Len(issued'), NEW j \in 1 .. Len(issued'), i < j
               PROVE  issued'[i].n # issued'[j].n
    OBVIOUS
  <2>1. i \in 1 .. Len(issued)
    BY <1>3, <1>4
  <2>2. CASE j = Len(issued) + 1
    <3>1. issued[i].n < n /\ issued[i].n \in Nat
      BY <1>n, <2>1
    <3> QED
      BY <1>4, <1>n, <2>1, <2>2, <3>1
  <2>3. CASE j \in 1 .. Len(issued)
    BY <1>4, <2>1, <2>3 DEF TsInv, GrowInv
  <2> QED
    BY <1>3, <1>4, <2>2, <2>3
<1> QED
  BY <1>4, <1>6, <1>7, <1>8 DEF GrowInv

\* The invariant holds before the first call.
LEMMA InitKeeps == TsInit => TsInv
  BY ClockAssumption DEF TsInit, TsInv, TsTypeOK, RaceInv, CounterInv, GrowInv, Pending, NoCall, Call, Pcs, Issue

\* Every step of next_timestamp, and of the clock, keeps the invariant.
LEMMA StepKeeps == TsInv /\ [TsNext]_tsVars => TsInv'
<1> SUFFICES ASSUME TsInv, [TsNext]_tsVars PROVE TsInv'
  OBVIOUS
<1>0. /\ MaxCalls \in Nat
      /\ Clock \subseteq Nat
      /\ \A c \in Clock : c \in Nat /\ c > MaxCalls
  BY ClockAssumption
<1>a. TsTypeOK /\ RaceInv /\ CounterInv /\ GrowInv
  BY DEF TsInv
<1>1. ASSUME NEW t \in Thread, FetchAdd(t) PROVE TsInv'
  <2>1. TS' = TS + 1 /\ clock' = clock /\ call[t].pc = "idle" /\ Taken < MaxCalls
    BY <1>1 DEF FetchAdd
  <2>2. CASE TS = 0
    <3>1. issued = <<>> /\ issued' = issued /\ \A u \in Thread : ~Pending(u)
      BY <1>1, <1>a, <2>2 DEF FetchAdd, RaceInv
    <3>2. call' = [call EXCEPT ![t] = [pc |-> "first", n |-> 0, after |-> 0]]
      BY <1>1, <2>2, <3>1 DEF FetchAdd
    <3>3. TsTypeOK'
      BY <1>a, <2>1, <2>2, <3>1, <3>2 DEF TsTypeOK, Call, Pcs
    <3>4. \A u \in Thread : Pending(u)' <=> u = t
      BY <1>a, <3>1, <3>2 DEF Pending, TsTypeOK
    <3>5. 1 =< MaxCalls
      BY <1>0, <2>1, <3>1 DEF Taken, Pending
    <3>6. RaceInv'
      BY <1>a, <2>1, <2>2, <3>1, <3>2, <3>4, <3>5 DEF RaceInv, TsTypeOK, Pending
    <3>7. CounterInv' /\ GrowInv'
      BY <3>1 DEF CounterInv, GrowInv
    <3> QED
      BY <3>3, <3>6, <3>7 DEF TsInv
  <2>3. CASE TS # 0
    <3>1. Return(t, TS, Len(issued))
      BY <1>1, <2>3 DEF FetchAdd
    <3>2. /\ issued' \in Seq(Issue) /\ Len(issued') = Len(issued) + 1
          /\ CounterInv' /\ GrowInv'
      <4>1. TS \in Nat /\ Len(issued) \in Nat /\ \A i \in 1 .. Len(issued) : issued[i].n < TS
        BY <1>a DEF TsTypeOK, CounterInv
      <4> QED
        BY <2>1, <3>1, <4>1, ReturnKeeps
    <3>3. call' = [call EXCEPT ![t] = [pc |-> "got", n |-> TS, after |-> Len(issued)]]
      BY <3>1 DEF Return
    <3>4. TsTypeOK'
      BY <1>a, <2>1, <3>2, <3>3 DEF TsTypeOK, Call, Pcs
    <3>5. \A u \in Thread : Pending(u)' => Pending(u) /\ call'[u] = call[u]
      BY <1>a, <3>3 DEF Pending, TsTypeOK
    <3>6. ASSUME NEW u \in Thread, Pending(u) PROVE TS' =< MaxCalls
      <4>1. Taken = Len(issued) + 1
        BY <3>6 DEF Taken, Pending
      <4> QED
        BY <1>0, <1>a, <2>1, <3>6, <4>1 DEF RaceInv, TsTypeOK
    <3>7. RaceInv'
      BY <1>a, <2>1, <3>2, <3>5, <3>6 DEF RaceInv, TsTypeOK, Pending
    <3> QED
      BY <3>2, <3>4, <3>7 DEF TsInv
  <2> QED
    BY <2>2, <2>3
<1>2. ASSUME NEW t \in Thread, ReadClock(t) PROVE TsInv'
  <2>1. /\ UNCHANGED <<TS, clock, issued>>
        /\ call[t].pc = "first"
        /\ call' = [call EXCEPT ![t].pc = "store", ![t].n = clock]
    BY <1>2 DEF ReadClock
  <2>2. TsTypeOK'
    BY <1>0, <1>a, <2>1 DEF TsTypeOK, Call, Pcs
  <2>3. /\ \A u \in Thread : u # t => call'[u] = call[u]
        /\ call'[t].pc = "store" /\ call'[t].n = clock /\ call'[t].after = call[t].after
    BY <1>a, <2>1 DEF TsTypeOK, Call
  <2>4. \A u \in Thread : Pending(u)' <=> Pending(u)
    BY <2>1, <2>3 DEF Pending
  <2>5. RaceInv'
    BY <1>a, <2>1, <2>3, <2>4 DEF RaceInv, TsTypeOK, Pending
  <2> QED
    BY <1>a, <2>1, <2>2, <2>5 DEF TsInv, CounterInv, GrowInv
<1>3. ASSUME NEW t \in Thread, StoreNext(t) PROVE TsInv'
  <2>1. /\ call[t].pc = "store" /\ clock' = clock
        /\ TS' = call[t].n + 1
        /\ Return(t, call[t].n, call[t].after)
    BY <1>3 DEF StoreNext
  <2>2. /\ call[t].n \in Clock /\ call[t].after = 0 /\ TS =< MaxCalls
        /\ \A u \in Thread : Pending(u) => u = t
    BY <1>a, <2>1 DEF RaceInv, Pending
  <2>3. /\ call[t].n \in Nat /\ TS \in Nat /\ Len(issued) \in Nat
        /\ TS < call[t].n
    <3>1. TS \in Nat /\ Len(issued) \in Nat
      BY <1>a DEF TsTypeOK
    <3>2. call[t].n \in Nat /\ MaxCalls < call[t].n
      BY <1>0, <2>2
    <3> QED
      BY <1>0, <2>2, <3>1, <3>2
  <2>4. \A i \in 1 .. Len(issued) : issued[i].n < call[t].n
    <3> TAKE i \in 1 .. Len(issued)
    <3>1. issued[i].n \in Nat
      <4>1. issued[i] \in Issue
        BY <1>a DEF TsTypeOK
      <4> QED
        BY <4>1 DEF Issue
    <3>2. issued[i].n < TS
      BY <1>a DEF CounterInv
    <3> QED
      BY <2>3, <3>1, <3>2
  <2>5. /\ issued' \in Seq(Issue) /\ CounterInv' /\ GrowInv'
    <3>1. TS' \in Nat /\ call[t].n < TS' /\ TS =< TS'
      BY <2>1, <2>3
    <3>2. call[t].after \in Nat /\ call[t].after =< Len(issued)
      BY <2>2, <2>3
    <3> QED
      BY <2>1, <2>3, <2>4, <3>1, <3>2, ReturnKeeps
  <2>6. call' = [call EXCEPT ![t] = [pc |-> "got", n |-> call[t].n, after |-> call[t].after]]
    BY <2>1 DEF Return
  <2>7. TsTypeOK'
    BY <1>a, <2>1, <2>2, <2>3, <2>5, <2>6 DEF TsTypeOK, Call, Pcs
  <2>8. \A u \in Thread : ~Pending(u)'
    BY <1>a, <2>2, <2>6 DEF Pending, TsTypeOK
  <2>9. RaceInv'
    BY <2>1, <2>3, <2>8 DEF RaceInv
  <2> QED
    BY <2>5, <2>7, <2>9 DEF TsInv
<1>4. ASSUME NEW t \in Thread, Done(t) PROVE TsInv'
  <2>1. /\ UNCHANGED <<TS, clock, issued>>
        /\ call' = [call EXCEPT ![t] = NoCall]
    BY <1>4 DEF Done
  <2>2. TsTypeOK'
    BY <1>a, <2>1 DEF TsTypeOK, Call, Pcs, NoCall
  <2>3. \A u \in Thread : Pending(u)' => Pending(u) /\ call'[u] = call[u]
    BY <1>a, <2>1 DEF Pending, TsTypeOK, NoCall
  <2>4. RaceInv'
    BY <1>a, <2>1, <2>3 DEF RaceInv
  <2> QED
    BY <1>a, <2>1, <2>2, <2>4 DEF TsInv, CounterInv, GrowInv
<1>5. CASE Tick
  BY <1>a, <1>5 DEF Tick, TsInv, TsTypeOK, RaceInv, CounterInv, GrowInv, Pending
<1>6. CASE UNCHANGED tsVars
  BY <1>a, <1>6 DEF tsVars, TsInv, TsTypeOK, RaceInv, CounterInv, GrowInv, Pending
<1> QED
  BY <1>1, <1>2, <1>3, <1>4, <1>5, <1>6 DEF TsNext

\* The race of the first calls, the counter and the timestamps stay in step.
THEOREM TimestampInvariant == TsSpec => []TsInv
<1> QED
  BY InitKeeps, StepKeeps, PTL DEF TsSpec

\* next_timestamp: a call that begins after another has returned gets a larger
\* timestamp and none is given twice, for any number of threads, whichever of
\* them comes first and whatever the clock shows, as long as it shows a time
\* above the number of calls made.
THEOREM TimestampsMonotonic == TsSpec => []TimestampsGrow
<1>1. TsInv => TimestampsGrow
  <2> SUFFICES ASSUME TsInv PROVE TimestampsGrow
    OBVIOUS
  <2>1. DOMAIN issued = 1 .. Len(issued) /\ Len(issued) \in Nat
    BY DEF TsInv, TsTypeOK
  <2>2. \A i \in DOMAIN issued : \A j \in 1 .. issued[i].after : issued[j].n < issued[i].n
    BY <2>1 DEF TsInv, GrowInv
  <2>3. ASSUME NEW i \in DOMAIN issued, NEW j \in DOMAIN issued, issued[i].n = issued[j].n
        PROVE  i = j
    BY <2>1, <2>3 DEF TsInv, GrowInv
  <2> QED
    BY <2>2, <2>3 DEF TimestampsGrow
<1> QED
  BY <1>1, TimestampInvariant, PTL

-----------------------------------------------------------------------------

\* Every thread has a store, of finitely many objects.
StoresInv ==
    /\ DOMAIN cas = Thread
    /\ \A t \in Thread : IsFiniteSet(DOMAIN cas[t])

\* A step of the stores takes nothing out of them.
StoresGrow ==
    /\ DOMAIN cas' = Thread
    /\ \A t \in Thread : DOMAIN cas[t] \subseteq DOMAIN cas'[t] /\ IsFiniteSet(DOMAIN cas'[t])

-----------------------------------------------------------------------------

\* Every step of the stores is a step of the timestamps, or leaves them alone.
LEMMA TimestampStep == [Next]_vars => [TsNext]_tsVars
<1> SUFFICES ASSUME [Next]_vars PROVE TsNext \/ UNCHANGED tsVars
    OBVIOUS
<1> USE DEF tsVars
<1>1. CASE UNCHANGED vars
    BY <1>1 DEF vars
<1>2. ASSUME NEW t \in Thread, NEW p, NEW m, CommitWithRoot(t, p, m) PROVE TsNext
    BY <1>2 DEF CommitWithRoot, TsNext
<1>3. ASSUME NEW t \in Thread, NEW p, NEW m, NEW x, CommitWithIndexes(t, p, m, x) PROVE UNCHANGED tsVars
    BY <1>3 DEF CommitWithIndexes
<1>4. ASSUME NEW t \in Thread, NextTimestamp(t) PROVE TsNext
    BY <1>4 DEF NextTimestamp, TsNext
<1>5. ASSUME NEW t \in Thread, CommitStamped(t) PROVE TsNext
    BY <1>5 DEF CommitStamped, TsNext
<1>6. ASSUME NEW t \in Thread, NEW n, StoreNode(t, n) PROVE UNCHANGED tsVars
    BY <1>6 DEF StoreNode
<1>7. ASSUME NEW t \in Thread, NEW h, GetCommit(t, h) PROVE UNCHANGED tsVars
    BY <1>7 DEF GetCommit
<1>8. ASSUME NEW t \in Thread, NEW c, ConfigureCaches(t, c) PROVE UNCHANGED tsVars
    BY <1>8 DEF ConfigureCaches
<1>9. CASE Tick
    BY <1>9 DEF TsNext
<1> QED
    BY <1>1, <1>2, <1>3, <1>4, <1>5, <1>6, <1>7, <1>8, <1>9 DEF Next

\* put adds one object at most.
LEMMA PutGrows ==
    ASSUME StoresInv, NEW t \in Thread, NEW type, NEW payload, NEW h, Put(t, type, payload, h)
    PROVE  StoresGrow
<1>1. cas' = [cas EXCEPT ![t] = [x \in DOMAIN cas[t] \cup {h} |->
                 IF x \in DOMAIN cas[t] THEN cas[t][x] ELSE [type |-> type, payload |-> payload]]]
    BY DEF Put
<1>2. DOMAIN cas' = Thread /\ \A u \in Thread : u # t => cas'[u] = cas[u]
    BY <1>1 DEF StoresInv
<1>3. DOMAIN cas'[t] = DOMAIN cas[t] \cup {h}
    BY <1>1 DEF StoresInv
<1>4. IsFiniteSet(DOMAIN cas'[t])
    BY <1>3, FS_AddElement DEF StoresInv
<1> QED
    BY <1>2, <1>3, <1>4 DEF StoresInv, StoresGrow

\* So does every step.
LEMMA StepGrows == StoresInv /\ [Next]_vars => StoresGrow
<1> SUFFICES ASSUME StoresInv, [Next]_vars PROVE StoresGrow
    OBVIOUS
<1>0. cas' = cas => StoresGrow
    BY DEF StoresInv, StoresGrow
<1>1. CASE UNCHANGED vars
    BY <1>0, <1>1 DEF vars, storeVars
<1>2. ASSUME NEW t \in Thread, NEW p, NEW m, CommitWithRoot(t, p, m) PROVE StoresGrow
    BY <1>0, <1>2 DEF CommitWithRoot, storeVars
<1>3. ASSUME NEW t \in Thread, NEW p, NEW m, NEW x, CommitWithIndexes(t, p, m, x) PROVE StoresGrow
    BY <1>3, PutGrows DEF CommitWithIndexes, PersistCommit
<1>4. ASSUME NEW t \in Thread, NextTimestamp(t) PROVE StoresGrow
    BY <1>0, <1>4 DEF NextTimestamp, storeVars
<1>5. ASSUME NEW t \in Thread, CommitStamped(t) PROVE StoresGrow
    BY <1>5, PutGrows DEF CommitStamped, PersistCommit
<1>6. ASSUME NEW t \in Thread, NEW n, StoreNode(t, n) PROVE StoresGrow
    BY <1>6, PutGrows DEF StoreNode
<1>7. ASSUME NEW t \in Thread, NEW h, GetCommit(t, h) PROVE StoresGrow
    BY <1>0, <1>7 DEF GetCommit
<1>8. ASSUME NEW t \in Thread, NEW c, ConfigureCaches(t, c) PROVE StoresGrow
    BY <1>0, <1>8 DEF ConfigureCaches
<1>9. CASE Tick /\ UNCHANGED <<storeVars, args>>
    BY <1>0, <1>9 DEF storeVars
<1> QED
    BY <1>1, <1>2, <1>3, <1>4, <1>5, <1>6, <1>7, <1>8, <1>9 DEF Next

\* What resolve_hash_ref makes of a prefix before and after a store has grown.
LEMMA ResolveStable ==
    ASSUME StoresInv, StoresGrow, NEW t \in Thread, NEW hex, ResolveHashRef(t, hex) # NoMatch
    PROVE  ResolveHashRef(t, hex)' \in {ResolveHashRef(t, hex), NoMatch}
<1>1. CASE Len(hex) = HashLen
    BY <1>1 DEF ResolveHashRef, Stored, StoresGrow
<1>2. CASE Len(hex) # HashLen
    <2> DEFINE m  == FindByPrefix(t, hex)
               m2 == FindByPrefix(t, hex)'
    <2>1. m \subseteq m2
        BY DEF FindByPrefix, StoresGrow
    <2>2. m \subseteq DOMAIN cas[t] /\ m2 \subseteq DOMAIN cas'[t]
        BY DEF FindByPrefix
    <2>3. IsFiniteSet(DOMAIN cas[t]) /\ IsFiniteSet(DOMAIN cas'[t])
        BY DEF StoresInv, StoresGrow
    <2>4. IsFiniteSet(m) /\ IsFiniteSet(m2)
        BY <2>2, <2>3, FS_Subset
    <2>5. Cardinality(m) = 1 /\ ResolveHashRef(t, hex) = CHOOSE h \in m : TRUE
        BY <1>2 DEF ResolveHashRef
    <2>6. ResolveHashRef(t, hex)' = IF Cardinality(m2) = 1 THEN CHOOSE h \in m2 : TRUE ELSE NoMatch
        BY <1>2 DEF ResolveHashRef
    <2> HIDE DEF m, m2
    <2>7. CASE Cardinality(m2) = 1
        <3>1. PICK x : m = {x}
            BY <2>4, <2>5, FS_Singleton
        <3>2. PICK y : m2 = {y}
            BY <2>4, <2>7, FS_Singleton
        <3>3. m = m2
            BY <2>1, <3>1, <3>2
        <3> QED
            BY <2>5, <2>6, <2>7, <3>3
    <2>8. CASE Cardinality(m2) # 1
        BY <2>6, <2>8
    <2> QED
        BY <2>7, <2>8
<1> QED
    BY <1>1, <1>2

\* The stores stay finite.
LEMMA StoresInvariant == Spec => []StoresInv
<1>1. Init => StoresInv
    <2> SUFFICES ASSUME Init PROVE StoresInv
        OBVIOUS
    <2>1. cas = [t \in Thread |->
                [h \in {LegacyHash} |-> [type |-> "commit", payload |-> EncodePayloadV1(Legacy)]]]
        BY DEF Init
    <2>2. DOMAIN cas = Thread /\ \A t \in Thread : DOMAIN cas[t] = {LegacyHash}
        BY <2>1
    <2> QED
        BY <2>2, FS_Singleton DEF StoresInv
<1>2. StoresInv /\ [Next]_vars => StoresInv'
    BY StepGrows DEF StoresInv, StoresGrow
<1> QED
    BY <1>1, <1>2, PTL DEF Spec

-----------------------------------------------------------------------------
(* Induction, and the runs of the codec's loops: the sequences of their       *)
(* intermediate results                                                       *)

\* A set of natural numbers has a least member.
LEMMA LeastNumber ==
    ASSUME NEW T \in SUBSET Nat, T # {}
    PROVE  \E m \in T : \A k \in T : m =< k
<1>1. IsWellFoundedOn(OpToRel(<, Nat), Nat)
    BY NatLessThanWellFounded
<1>2. PICK m \in T : \A k \in T : ~(<<k, m>> \in OpToRel(<, Nat))
    BY <1>1, WFMin
<1>3. \A k \in T : ~(k < m)
    BY <1>2, Zenon DEF OpToRel
<1> QED
    BY <1>3

\* Induction: a set with 0 and the successor of each of its numbers holds all.
LEMMA Induction ==
    ASSUME NEW T, 0 \in T, \A k \in Nat : k \in T => k + 1 \in T
    PROVE  Nat \subseteq T
<1> DEFINE Bad == {k \in Nat : k \notin T}
<1>1. SUFFICES ASSUME Bad # {} PROVE FALSE
    OBVIOUS
<1>2. PICK m \in Bad : \A k \in Bad : m =< k
    <2>1. Bad \in SUBSET Nat
        OBVIOUS
    <2> HIDE DEF Bad
    <2> QED
        BY <1>1, <2>1, LeastNumber
<1>3. m # 0 /\ m - 1 \in Nat /\ m - 1 \notin Bad
    BY <1>2
<1> QED
    BY <1>3

ShiftRun(f, v, w) == f[0] = v /\ \A n \in 1..w : f[n] = f[n - 1] \div Base

BufferRun(f, parts) == f[0] = <<>> /\ \A n \in 1..Len(parts) : f[n] = f[n - 1] \o parts[n]

FromLeRun(f, bytes) ==
    f[0] = 0 /\ \A n \in 1..Len(bytes) : f[n] = bytes[Len(bytes) - n + 1] + Base * f[n - 1]

\* One round of read_hash ...
NextHash(d) ==
    LET r == ReadSlice(d, HashLen) IN IF r.ok THEN [r EXCEPT !.out = Append(d.out, r.out)] ELSE r

HashesRun(f, d, m) == f[0] = [d EXCEPT !.out = <<>>] /\ \A n \in 1..m : f[n] = NextHash(f[n - 1])

\* ... and one of the loop over the index roots.
NextRoot(d) ==
    LET name == ReadText(d)
        hash == ReadSlice(name, HashLen)
    IN  IF hash.ok
        THEN [hash EXCEPT !.out = [x \in DOMAIN d.out \cup {name.out} |->
                 IF x = name.out THEN hash.out ELSE d.out[x]]]
        ELSE hash

RootsRun(f, d, m) == f[0] = [d EXCEPT !.out = <<>>] /\ \A n \in 1..m : f[n] = NextRoot(f[n - 1])

\* Shifting a number byte by byte.
LEMMA ShiftHasRun ==
    ASSUME NEW v, NEW w, w \in Nat
    PROVE  \E f : ShiftRun(f, v, w) /\ ShiftRight(v, w) = f[w]
<1> DEFINE Step(n, x) == x \div Base
           Is(g, m) == g = [n \in 0..m |-> IF n = 0 THEN v ELSE Step(n, g[n - 1])]
           T == {m \in Nat : \E g : Is(g, m)}
           after == CHOOSE g : Is(g, w)
<1>1. ShiftRight(v, w) = after[w]
    BY DEF ShiftRight
<1>2. \A x : \A n \in 1..w : Step(n, x) = x \div Base
    OBVIOUS
<1> HIDE DEF Step
<1>3. 0 \in T
    <2>1. Is([n \in 0..0 |-> v], 0)
        OBVIOUS
    <2> HIDE DEF Is
    <2> QED
        BY <2>1
<1>4. ASSUME NEW m \in Nat, m \in T PROVE m + 1 \in T
    <2>1. PICK g : Is(g, m)
        BY <1>4
    <2> DEFINE h == [n \in 0..(m + 1) |-> IF n = m + 1 THEN Step(m + 1, g[m]) ELSE g[n]]
    <2>2. ASSUME NEW n \in 0..(m + 1)
          PROVE  h[n] = IF n = 0 THEN v ELSE Step(n, h[n - 1])
        <3>1. CASE n = m + 1
            <4>1. n # 0 /\ n - 1 = m /\ m \in 0..(m + 1) /\ m # m + 1
                BY <3>1
            <4>2. h[n - 1] = g[m] /\ h[n] = Step(m + 1, g[m])
                BY <3>1, <4>1
            <4> HIDE DEF h, Is
            <4> QED
                BY <3>1, <4>1, <4>2
        <3>2. CASE n # m + 1
            <4>1. n \in 0..m /\ h[n] = g[n]
                BY <3>2
            <4>2. n # 0 => n - 1 \in 0..(m + 1) /\ n - 1 # m + 1
                BY <4>1
            <4>3. n # 0 => h[n - 1] = g[n - 1]
                BY <4>2
            <4>4. g[n] = IF n = 0 THEN v ELSE Step(n, g[n - 1])
                BY <2>1, <4>1
            <4> HIDE DEF h, Is
            <4> QED
                BY <4>1, <4>3, <4>4
        <3> QED
            BY <3>1, <3>2
    <2>3. Is(h, m + 1)
        BY <2>2
    <2> HIDE DEF Is, h
    <2> QED
        BY <2>3
<1>5. w \in T
    <2> HIDE DEF T
    <2> QED
        BY <1>3, <1>4, Induction
<1>6. Is(after, w)
    <2> HIDE DEF Is
    <2> QED
        BY <1>5
<1>7. after[0] = v /\ \A n \in 1..w : after[n] = Step(n, after[n - 1])
    <2>1. w \in Nat
        BY <1>5
    <2>2. \A n \in 0..w : after[n] = IF n = 0 THEN v ELSE Step(n, after[n - 1])
        <3> HIDE DEF after
        <3> QED
            BY <1>6
    <2> HIDE DEF after, Is, T
    <2>3. 0 \in 0..w /\ \A n \in 1..w : n \in 0..w /\ n # 0
        BY <2>1
    <2> QED
        BY <2>2, <2>3
<1> QED
    <2> HIDE DEF after, Is, T
    <2> QED
        BY <1>1, <1>2, <1>7 DEF ShiftRun

\* The buffer of an encoder.
LEMMA BufferHasRun ==
    ASSUME NEW parts, Len(parts) \in Nat
    PROVE  \E f : BufferRun(f, parts) /\ EncodeWith(parts) = f[Len(parts)]
<1> DEFINE Step(n, x) == x \o parts[n]
           Is(g, m) == g = [n \in 0..m |-> IF n = 0 THEN <<>> ELSE Step(n, g[n - 1])]
           T == {m \in Nat : \E g : Is(g, m)}
           after == CHOOSE g : Is(g, Len(parts))
<1>1. EncodeWith(parts) = after[Len(parts)]
    BY DEF EncodeWith
<1>2. \A x : \A n \in 1..Len(parts) : Step(n, x) = x \o parts[n]
    OBVIOUS
<1> HIDE DEF Step
<1>3. 0 \in T
    <2>1. Is([n \in 0..0 |-> <<>>], 0)
        OBVIOUS
    <2> HIDE DEF Is
    <2> QED
        BY <2>1
<1>4. ASSUME NEW m \in Nat, m \in T PROVE m + 1 \in T
    <2>1. PICK g : Is(g, m)
        BY <1>4
    <2> DEFINE h == [n \in 0..(m + 1) |-> IF n = m + 1 THEN Step(m + 1, g[m]) ELSE g[n]]
    <2>2. ASSUME NEW n \in 0..(m + 1)
          PROVE  h[n] = IF n = 0 THEN <<>> ELSE Step(n, h[n - 1])
        <3>1. CASE n = m + 1
            <4>1. n # 0 /\ n - 1 = m /\ m \in 0..(m + 1) /\ m # m + 1
                BY <3>1
            <4>2. h[n - 1] = g[m] /\ h[n] = Step(m + 1, g[m])
                BY <3>1, <4>1
            <4> HIDE DEF h, Is
            <4> QED
                BY <3>1, <4>1, <4>2
        <3>2. CASE n # m + 1
            <4>1. n \in 0..m /\ h[n] = g[n]
                BY <3>2
            <4>2. n # 0 => n - 1 \in 0..(m + 1) /\ n - 1 # m + 1
                BY <4>1
            <4>3. n # 0 => h[n - 1] = g[n - 1]
                BY <4>2
            <4>4. g[n] = IF n = 0 THEN <<>> ELSE Step(n, g[n - 1])
                BY <2>1, <4>1
            <4> HIDE DEF h, Is
            <4> QED
                BY <4>1, <4>3, <4>4
        <3> QED
            BY <3>1, <3>2
    <2>3. Is(h, m + 1)
        BY <2>2
    <2> HIDE DEF Is, h
    <2> QED
        BY <2>3
<1>5. Len(parts) \in T
    <2> HIDE DEF T
    <2> QED
        BY <1>3, <1>4, Induction
<1>6. Is(after, Len(parts))
    <2> HIDE DEF Is
    <2> QED
        BY <1>5
<1>7. after[0] = <<>> /\ \A n \in 1..Len(parts) : after[n] = Step(n, after[n - 1])
    <2>1. Len(parts) \in Nat
        BY <1>5
    <2>2. \A n \in 0..Len(parts) : after[n] = IF n = 0 THEN <<>> ELSE Step(n, after[n - 1])
        <3> HIDE DEF after
        <3> QED
            BY <1>6
    <2> HIDE DEF after, Is, T
    <2>3. 0 \in 0..Len(parts) /\ \A n \in 1..Len(parts) : n \in 0..Len(parts) /\ n # 0
        BY <2>1
    <2> QED
        BY <2>2, <2>3
<1> QED
    <2> HIDE DEF after, Is, T
    <2> QED
        BY <1>1, <1>2, <1>7 DEF BufferRun

\* Putting a number together.
LEMMA FromLeHasRun ==
    ASSUME NEW bytes, Len(bytes) \in Nat
    PROVE  \E f : FromLeRun(f, bytes) /\ FromLe(bytes) = f[Len(bytes)]
<1> DEFINE Step(n, x) == bytes[Len(bytes) - n + 1] + Base * x
           Is(g, m) == g = [n \in 0..m |-> IF n = 0 THEN 0 ELSE Step(n, g[n - 1])]
           T == {m \in Nat : \E g : Is(g, m)}
           after == CHOOSE g : Is(g, Len(bytes))
<1>1. FromLe(bytes) = after[Len(bytes)]
    BY DEF FromLe
<1>2. \A x : \A n \in 1..Len(bytes) : Step(n, x) = bytes[Len(bytes) - n + 1] + Base * x
    OBVIOUS
<1> HIDE DEF Step
<1>3. 0 \in T
    <2>1. Is([n \in 0..0 |-> 0], 0)
        OBVIOUS
    <2> HIDE DEF Is
    <2> QED
        BY <2>1
<1>4. ASSUME NEW m \in Nat, m \in T PROVE m + 1 \in T
    <2>1. PICK g : Is(g, m)
        BY <1>4
    <2> DEFINE h == [n \in 0..(m + 1) |-> IF n = m + 1 THEN Step(m + 1, g[m]) ELSE g[n]]
    <2>2. ASSUME NEW n \in 0..(m + 1)
          PROVE  h[n] = IF n = 0 THEN 0 ELSE Step(n, h[n - 1])
        <3>1. CASE n = m + 1
            <4>1. n # 0 /\ n - 1 = m /\ m \in 0..(m + 1) /\ m # m + 1
                BY <3>1
            <4>2. h[n - 1] = g[m] /\ h[n] = Step(m + 1, g[m])
                BY <3>1, <4>1
            <4> HIDE DEF h, Is
            <4> QED
                BY <3>1, <4>1, <4>2
        <3>2. CASE n # m + 1
            <4>1. n \in 0..m /\ h[n] = g[n]
                BY <3>2
            <4>2. n # 0 => n - 1 \in 0..(m + 1) /\ n - 1 # m + 1
                BY <4>1
            <4>3. n # 0 => h[n - 1] = g[n - 1]
                BY <4>2
            <4>4. g[n] = IF n = 0 THEN 0 ELSE Step(n, g[n - 1])
                BY <2>1, <4>1
            <4> HIDE DEF h, Is
            <4> QED
                BY <4>1, <4>3, <4>4
        <3> QED
            BY <3>1, <3>2
    <2>3. Is(h, m + 1)
        BY <2>2
    <2> HIDE DEF Is, h
    <2> QED
        BY <2>3
<1>5. Len(bytes) \in T
    <2> HIDE DEF T
    <2> QED
        BY <1>3, <1>4, Induction
<1>6. Is(after, Len(bytes))
    <2> HIDE DEF Is
    <2> QED
        BY <1>5
<1>7. after[0] = 0 /\ \A n \in 1..Len(bytes) : after[n] = Step(n, after[n - 1])
    <2>1. Len(bytes) \in Nat
        BY <1>5
    <2>2. \A n \in 0..Len(bytes) : after[n] = IF n = 0 THEN 0 ELSE Step(n, after[n - 1])
        <3> HIDE DEF after
        <3> QED
            BY <1>6
    <2> HIDE DEF after, Is, T
    <2>3. 0 \in 0..Len(bytes) /\ \A n \in 1..Len(bytes) : n \in 0..Len(bytes) /\ n # 0
        BY <2>1
    <2> QED
        BY <2>2, <2>3
<1> QED
    <2> HIDE DEF after, Is, T
    <2> QED
        BY <1>1, <1>2, <1>7 DEF FromLeRun

\* Reading hashes.
LEMMA HashesHaveRun ==
    ASSUME NEW d, NEW count \in Nat
    PROVE  \E f : HashesRun(f, d, count) /\ ReadHashes(d, count) = f[count]
<1> DEFINE Step(n, x) == NextHash(x)
           Is(g, m) == g = [n \in 0..m |-> IF n = 0 THEN [d EXCEPT !.out = <<>>] ELSE Step(n, g[n - 1])]
           T == {m \in Nat : \E g : Is(g, m)}
           after == CHOOSE g : Is(g, count)
<1>1. ReadHashes(d, count) = after[count]
    BY DEF ReadHashes, NextHash
<1>2. \A x : \A n \in 1..count : Step(n, x) = NextHash(x)
    OBVIOUS
<1> HIDE DEF Step
<1>3. 0 \in T
    <2>1. Is([n \in 0..0 |-> [d EXCEPT !.out = <<>>]], 0)
        OBVIOUS
    <2> HIDE DEF Is
    <2> QED
        BY <2>1
<1>4. ASSUME NEW m \in Nat, m \in T PROVE m + 1 \in T
    <2>1. PICK g : Is(g, m)
        BY <1>4
    <2> DEFINE h == [n \in 0..(m + 1) |-> IF n = m + 1 THEN Step(m + 1, g[m]) ELSE g[n]]
    <2>2. ASSUME NEW n \in 0..(m + 1)
          PROVE  h[n] = IF n = 0 THEN [d EXCEPT !.out = <<>>] ELSE Step(n, h[n - 1])
        <3>1. CASE n = m + 1
            <4>1. n # 0 /\ n - 1 = m /\ m \in 0..(m + 1) /\ m # m + 1
                BY <3>1
            <4>2. h[n - 1] = g[m] /\ h[n] = Step(m + 1, g[m])
                BY <3>1, <4>1
            <4> HIDE DEF h, Is
            <4> QED
                BY <3>1, <4>1, <4>2
        <3>2. CASE n # m + 1
            <4>1. n \in 0..m /\ h[n] = g[n]
                BY <3>2
            <4>2. n # 0 => n - 1 \in 0..(m + 1) /\ n - 1 # m + 1
                BY <4>1
            <4>3. n # 0 => h[n - 1] = g[n - 1]
                BY <4>2
            <4>4. g[n] = IF n = 0 THEN [d EXCEPT !.out = <<>>] ELSE Step(n, g[n - 1])
                BY <2>1, <4>1
            <4> HIDE DEF h, Is
            <4> QED
                BY <4>1, <4>3, <4>4
        <3> QED
            BY <3>1, <3>2
    <2>3. Is(h, m + 1)
        BY <2>2
    <2> HIDE DEF Is, h
    <2> QED
        BY <2>3
<1>5. count \in T
    <2> HIDE DEF T
    <2> QED
        BY <1>3, <1>4, Induction
<1>6. Is(after, count)
    <2> HIDE DEF Is
    <2> QED
        BY <1>5
<1>7. after[0] = [d EXCEPT !.out = <<>>] /\ \A n \in 1..count : after[n] = Step(n, after[n - 1])
    <2>1. count \in Nat
        BY <1>5
    <2>2. \A n \in 0..count : after[n] = IF n = 0 THEN [d EXCEPT !.out = <<>>] ELSE Step(n, after[n - 1])
        <3> HIDE DEF after
        <3> QED
            BY <1>6
    <2> HIDE DEF after, Is, T
    <2>3. 0 \in 0..count /\ \A n \in 1..count : n \in 0..count /\ n # 0
        BY <2>1
    <2> QED
        BY <2>2, <2>3
<1> QED
    <2> HIDE DEF after, Is, T
    <2> QED
        BY <1>1, <1>2, <1>7 DEF HashesRun

\* Reading index roots.
LEMMA RootsHaveRun ==
    ASSUME NEW d, NEW count \in Nat
    PROVE  \E f : RootsRun(f, d, count) /\ ReadIndexRoots(d, count) = f[count]
<1> DEFINE Step(n, x) == NextRoot(x)
           Is(g, m) == g = [n \in 0..m |-> IF n = 0 THEN [d EXCEPT !.out = <<>>] ELSE Step(n, g[n - 1])]
           T == {m \in Nat : \E g : Is(g, m)}
           after == CHOOSE g : Is(g, count)
<1>1. ReadIndexRoots(d, count) = after[count]
    BY DEF ReadIndexRoots, NextRoot
<1>2. \A x : \A n \in 1..count : Step(n, x) = NextRoot(x)
    OBVIOUS
<1> HIDE DEF Step
<1>3. 0 \in T
    <2>1. Is([n \in 0..0 |-> [d EXCEPT !.out = <<>>]], 0)
        OBVIOUS
    <2> HIDE DEF Is
    <2> QED
        BY <2>1
<1>4. ASSUME NEW m \in Nat, m \in T PROVE m + 1 \in T
    <2>1. PICK g : Is(g, m)
        BY <1>4
    <2> DEFINE h == [n \in 0..(m + 1) |-> IF n = m + 1 THEN Step(m + 1, g[m]) ELSE g[n]]
    <2>2. ASSUME NEW n \in 0..(m + 1)
          PROVE  h[n] = IF n = 0 THEN [d EXCEPT !.out = <<>>] ELSE Step(n, h[n - 1])
        <3>1. CASE n = m + 1
            <4>1. n # 0 /\ n - 1 = m /\ m \in 0..(m + 1) /\ m # m + 1
                BY <3>1
            <4>2. h[n - 1] = g[m] /\ h[n] = Step(m + 1, g[m])
                BY <3>1, <4>1
            <4> HIDE DEF h, Is
            <4> QED
                BY <3>1, <4>1, <4>2
        <3>2. CASE n # m + 1
            <4>1. n \in 0..m /\ h[n] = g[n]
                BY <3>2
            <4>2. n # 0 => n - 1 \in 0..(m + 1) /\ n - 1 # m + 1
                BY <4>1
            <4>3. n # 0 => h[n - 1] = g[n - 1]
                BY <4>2
            <4>4. g[n] = IF n = 0 THEN [d EXCEPT !.out = <<>>] ELSE Step(n, g[n - 1])
                BY <2>1, <4>1
            <4> HIDE DEF h, Is
            <4> QED
                BY <4>1, <4>3, <4>4
        <3> QED
            BY <3>1, <3>2
    <2>3. Is(h, m + 1)
        BY <2>2
    <2> HIDE DEF Is, h
    <2> QED
        BY <2>3
<1>5. count \in T
    <2> HIDE DEF T
    <2> QED
        BY <1>3, <1>4, Induction
<1>6. Is(after, count)
    <2> HIDE DEF Is
    <2> QED
        BY <1>5
<1>7. after[0] = [d EXCEPT !.out = <<>>] /\ \A n \in 1..count : after[n] = Step(n, after[n - 1])
    <2>1. count \in Nat
        BY <1>5
    <2>2. \A n \in 0..count : after[n] = IF n = 0 THEN [d EXCEPT !.out = <<>>] ELSE Step(n, after[n - 1])
        <3> HIDE DEF after
        <3> QED
            BY <1>6
    <2> HIDE DEF after, Is, T
    <2>3. 0 \in 0..count /\ \A n \in 1..count : n \in 0..count /\ n # 0
        BY <2>1
    <2> QED
        BY <2>2, <2>3
<1> QED
    <2> HIDE DEF after, Is, T
    <2> QED
        BY <1>1, <1>2, <1>7 DEF RootsRun

-----------------------------------------------------------------------------
(* Numbers *)

\* Division by the number of values of a byte.
LEMMA DivMod ==
    ASSUME NEW a \in Nat
    PROVE  a \div Base \in Nat /\ a % Base \in Byte /\ a = (a % Base) + Base * (a \div Base)
<1>1. Base \in Nat /\ Base > 0
    BY CodecAssumption
<1> QED
    BY <1>1 DEF Byte

\* Shifting by n + 1 bytes is shifting by n bytes and one more.
LEMMA ShiftStep ==
    ASSUME NEW v \in Nat, NEW w \in Nat
    PROVE  ShiftRight(v, 0) = v /\ ShiftRight(v, w + 1) = ShiftRight(v, w) \div Base
<1>1. ShiftRight(v, 0) = v
    BY ShiftHasRun DEF ShiftRun
<1>2. PICK f : ShiftRun(f, v, w) /\ ShiftRight(v, w) = f[w]
    BY ShiftHasRun
<1>3. PICK g : ShiftRun(g, v, w + 1) /\ ShiftRight(v, w + 1) = g[w + 1]
    BY ShiftHasRun
<1> DEFINE T == {n \in Nat : n =< w => f[n] = g[n]}
<1>4. 0 \in T
    BY <1>2, <1>3 DEF ShiftRun
<1>5. ASSUME NEW n \in Nat, n \in T PROVE n + 1 \in T
    <2>1. SUFFICES ASSUME n + 1 =< w PROVE f[n + 1] = g[n + 1]
        OBVIOUS
    <2>2. n + 1 \in 1..w /\ n + 1 \in 1..(w + 1) /\ (n + 1) - 1 = n /\ f[n] = g[n]
        BY <1>5, <2>1
    <2>3. f[n + 1] = f[n] \div Base /\ g[n + 1] = g[n] \div Base
        BY <1>2, <1>3, <2>2 DEF ShiftRun
    <2> QED
        BY <2>2, <2>3
<1>6. w \in T
    <2> HIDE DEF T
    <2> QED
        BY <1>4, <1>5, Induction
<1>7. g[w + 1] = g[w] \div Base
    <2>1. w + 1 \in 1..(w + 1) /\ (w + 1) - 1 = w
        OBVIOUS
    <2> QED
        BY <1>3, <2>1 DEF ShiftRun
<1> QED
    BY <1>1, <1>2, <1>3, <1>6, <1>7

\* A number that is shifted is a number.
LEMMA ShiftType ==
    ASSUME NEW v \in Nat
    PROVE  \A w \in Nat : ShiftRight(v, w) \in Nat
<1> DEFINE T == {w \in Nat : ShiftRight(v, w) \in Nat}
<1>1. 0 \in T
    BY ShiftStep
<1>2. ASSUME NEW w \in Nat, w \in T PROVE w + 1 \in T
    BY <1>2, ShiftStep, DivMod
<1> HIDE DEF T
<1>3. Nat \subseteq T
    BY <1>1, <1>2, Induction
<1> QED
    BY <1>3 DEF T

\* The bytes of a number.
LEMMA WriteUFacts ==
    ASSUME NEW v \in Nat, NEW w \in Nat
    PROVE  WriteU(v, w) \in Seq(Byte) /\ Len(WriteU(v, w)) = w
<1>1. \A i \in 1..w : ShiftRight(v, i - 1) % Base \in Byte
    BY ShiftType, DivMod
<1> QED
    BY <1>1 DEF WriteU

\* What fits its bytes is read as it was written.
LEMMA FromLeOfWriteU ==
    ASSUME NEW v \in Nat, NEW w \in Nat, FitsU(v, w)
    PROVE  FromLe(WriteU(v, w)) = v
<1> DEFINE b == WriteU(v, w)
<1>1. Len(b) = w /\ \A i \in 1..w : b[i] = ShiftRight(v, i - 1) % Base
    BY WriteUFacts DEF WriteU
<1> HIDE DEF b
<1>2. PICK f : FromLeRun(f, b) /\ FromLe(b) = f[w]
    BY <1>1, FromLeHasRun
<1> DEFINE T == {n \in Nat : n =< w => f[n] = ShiftRight(v, w - n)}
<1>3. 0 \in T
    BY <1>2 DEF FromLeRun, FitsU
<1>4. ASSUME NEW n \in Nat, n \in T PROVE n + 1 \in T
    <2>1. SUFFICES ASSUME n + 1 =< w PROVE f[n + 1] = ShiftRight(v, w - (n + 1))
        OBVIOUS
    <2> DEFINE k == w - (n + 1)
               q == ShiftRight(v, k)
    <2>2. /\ k \in Nat /\ k + 1 = w - n /\ n + 1 \in 1..w /\ (n + 1) - 1 = n
          /\ w - (n + 1) + 1 = k + 1 /\ k + 1 \in 1..w /\ (k + 1) - 1 = k
        BY <2>1
    <2> HIDE DEF k
    <2>3. f[n + 1] = b[k + 1] + Base * f[n]
        BY <1>1, <1>2, <2>2 DEF FromLeRun
    <2>4. f[n] = q \div Base
        BY <1>4, <2>1, <2>2, ShiftStep
    <2>5. b[k + 1] = q % Base
        BY <1>1, <2>2
    <2>6. q \in Nat
        BY <2>2, ShiftType
    <2> HIDE DEF q
    <2>7. q = (q % Base) + Base * (q \div Base)
        BY <2>6, DivMod
    <2> QED
        BY <2>3, <2>4, <2>5, <2>7 DEF q, k
<1>5. w \in T
    <2> HIDE DEF T
    <2> QED
        BY <1>3, <1>4, Induction
<1>6. f[w] = ShiftRight(v, 0)
    BY <1>5
<1> QED
    BY <1>2, <1>6, ShiftStep DEF b

-----------------------------------------------------------------------------
(* Reading what was written *)

\* The bytes s lie at position pos of the buffer.
At(buf, pos, s) ==
    /\ buf \in Seq(Byte) /\ s \in Seq(Byte) /\ pos \in Nat
    /\ pos + Len(s) =< Len(buf)
    /\ \A i \in 1..Len(s) : buf[pos + i] = s[i]

\* A decoder that has not failed.
Cursor(buf, pos, x) == [buf |-> buf, pos |-> pos, ok |-> TRUE, out |-> x]

\* Replacing what was read last.
LEMMA CursorOut ==
    ASSUME NEW buf, NEW pos, NEW x, NEW y
    PROVE  /\ Cursor(buf, pos, x).ok /\ Cursor(buf, pos, x).out = x
           /\ [Cursor(buf, pos, x) EXCEPT !.out = y] = Cursor(buf, pos, y)
<1> DEFINE r == Cursor(buf, pos, x)
           s == Cursor(buf, pos, y)
           F == {"buf", "pos", "ok", "out"}
<1>1. r = [n \in F |-> r[n]] /\ s = [n \in F |-> s[n]]
    BY DEF Cursor
<1>2. r["buf"] = s["buf"] /\ r["pos"] = s["pos"] /\ r["ok"] = s["ok"] /\ s["out"] = y
    BY DEF Cursor
<1>3. r.ok /\ r.out = x
    BY DEF Cursor
<1> HIDE DEF r, s
<1>4. [r EXCEPT !.out = y] = s
    BY <1>1, <1>2
<1> QED
    BY <1>3, <1>4 DEF r, s

\* What lies in a buffer lies there in parts.
LEMMA AtConcat ==
    ASSUME NEW buf, NEW pos, NEW s \in Seq(Byte), NEW t \in Seq(Byte), At(buf, pos, s \o t)
    PROVE  At(buf, pos, s) /\ At(buf, pos + Len(s), t)
<1> DEFINE st == s \o t
<1>1. /\ Len(st) = Len(s) + Len(t) /\ Len(s) \in Nat /\ Len(t) \in Nat
      /\ \A i \in 1..Len(s) : st[i] = s[i]
      /\ \A i \in 1..Len(t) : st[Len(s) + i] = t[i]
    OBVIOUS
<1>2. /\ buf \in Seq(Byte) /\ pos \in Nat /\ pos + Len(st) =< Len(buf)
      /\ \A i \in 1..Len(st) : buf[pos + i] = st[i]
    BY DEF At
<1> HIDE DEF st
<1>3. Len(buf) \in Nat
    BY <1>2
<1>4. ASSUME NEW i \in 1..Len(s) PROVE buf[pos + i] = s[i]
    BY <1>1, <1>2
<1>5. ASSUME NEW i \in 1..Len(t) PROVE buf[pos + Len(s) + i] = t[i]
    <2>1. Len(s) + i \in 1..Len(st) /\ pos + Len(s) + i = pos + (Len(s) + i)
        BY <1>1, <1>2
    <2> QED
        BY <1>1, <1>2, <2>1
<1> QED
    BY <1>1, <1>2, <1>3, <1>4, <1>5 DEF At

\* A payload lies at the start of its own buffer.
LEMMA AtStart == ASSUME NEW buf \in Seq(Byte) PROVE At(buf, 0, buf)
    BY DEF At

\* read_slice
LEMMA ReadSliceOK ==
    ASSUME NEW buf, NEW pos, NEW s, NEW x, At(buf, pos, s)
    PROVE  ReadSlice(Cursor(buf, pos, x), Len(s)) = Cursor(buf, pos + Len(s), s)
<1>1. /\ buf \in Seq(Byte) /\ s \in Seq(Byte) /\ pos \in Nat /\ pos + Len(s) =< Len(buf)
      /\ \A i \in 1..Len(s) : buf[pos + i] = s[i]
      /\ Len(s) \in Nat /\ Len(buf) \in Nat
    BY DEF At
<1> DEFINE t == SubSeq(buf, pos + 1, pos + Len(s))
<1>2. t = s
    <2>1. /\ t \in Seq(Byte) /\ Len(t) = Len(s)
          /\ \A i \in 1..Len(s) : t[i] = buf[pos + 1 + i - 1]
        BY <1>1
    <2> HIDE DEF t
    <2>2. \A i \in 1..Len(s) : t[i] = s[i]
        <3>1. ASSUME NEW i \in 1..Len(s) PROVE t[i] = s[i]
            <4>1. pos + 1 + i - 1 = pos + i
                BY <1>1
            <4> QED
                BY <1>1, <2>1, <4>1
        <3> QED
            BY <3>1
    <2> QED
        BY <1>1, <2>1, <2>2
<1> HIDE DEF t
<1>3. ReadSlice(Cursor(buf, pos, x), Len(s)) = [Cursor(buf, pos, x) EXCEPT !.out = t, !.pos = pos + Len(s)]
    BY <1>1 DEF ReadSlice, Cursor, t
<1> QED
    BY <1>2, <1>3 DEF Cursor

\* read_u8, read_u16, ...
LEMMA ReadUOK ==
    ASSUME NEW buf, NEW pos, NEW v \in Nat, NEW w \in Nat, NEW x, FitsU(v, w), At(buf, pos, WriteU(v, w))
    PROVE  ReadU(Cursor(buf, pos, x), w) = Cursor(buf, pos + w, v)
<1>1. ReadSlice(Cursor(buf, pos, x), w) = Cursor(buf, pos + w, WriteU(v, w))
    BY ReadSliceOK, WriteUFacts
<1>2. FromLe(WriteU(v, w)) = v
    BY FromLeOfWriteU
<1>3. LET r == Cursor(buf, pos + w, WriteU(v, w))
      IN  r.ok /\ r.out = WriteU(v, w) /\ [r EXCEPT !.out = v] = Cursor(buf, pos + w, v)
    BY CursorOut
<1> QED
    BY <1>1, <1>2, <1>3, Zenon DEF ReadU

\* read_u8
LEMMA ReadByteOK ==
    ASSUME NEW buf, NEW pos, NEW v \in Nat, NEW x, FitsU(v, 1), At(buf, pos, WriteU(v, 1)),
           NEW q, q = pos + 1
    PROVE  ReadU(Cursor(buf, pos, x), 1) = Cursor(buf, q, v)
<1> DEFINE w == 1
<1>1. w \in Nat /\ FitsU(v, w) /\ At(buf, pos, WriteU(v, w)) /\ q = pos + w
    OBVIOUS
<1> HIDE DEF w
<1>2. ReadU(Cursor(buf, pos, x), w) = Cursor(buf, q, v)
    BY <1>1, ReadUOK
<1> QED
    BY <1>2 DEF w

\* A text behind its length.
LEMMA ReadTextOK ==
    ASSUME NEW buf, NEW pos, NEW m \in Text, NEW x, FitsU(Len(m), 2),
           At(buf, pos, WriteU(Len(m), 2)), At(buf, pos + 2, m)
    PROVE  ReadText(Cursor(buf, pos, x)) = Cursor(buf, pos + 2 + Len(m), m)
<1>1. m \in Seq(Byte) /\ Len(m) \in Nat /\ Utf8(m)
    BY DEF Text
<1>2. ReadU(Cursor(buf, pos, x), 2) = Cursor(buf, pos + 2, Len(m))
    BY <1>1, ReadUOK
<1>3. ReadSlice(Cursor(buf, pos + 2, Len(m)), Len(m)) = Cursor(buf, pos + 2 + Len(m), m)
    BY ReadSliceOK
<1>4. Cursor(buf, pos + 2, Len(m)).ok /\ Cursor(buf, pos + 2, Len(m)).out = Len(m)
    BY DEF Cursor
<1>5. LET r == ReadSlice(Cursor(buf, pos + 2, Len(m)), Len(m)) IN r.ok /\ Utf8(r.out)
    BY <1>1, <1>3 DEF Cursor
<1> QED
    BY <1>2, <1>3, <1>4, <1>5 DEF ReadText

-----------------------------------------------------------------------------
(* Reading in loops *)

\* The buffers of an encoder, and where its parts lie in the last one.
LEMMA BufferParts ==
    ASSUME NEW parts \in Seq(Seq(Byte))
    PROVE  /\ EncodeWith(parts) \in Seq(Byte)
           /\ \E f : /\ BufferRun(f, parts) /\ EncodeWith(parts) = f[Len(parts)]
                     /\ \A n \in 0..Len(parts) : f[n] \in Seq(Byte)
                     /\ \A buf, pos : At(buf, pos, EncodeWith(parts)) =>
                            \A n \in 1..Len(parts) : At(buf, pos + Len(f[n - 1]), parts[n])
<1> DEFINE N == Len(parts)
<1>1. N \in Nat /\ \A n \in 1..N : parts[n] \in Seq(Byte)
    OBVIOUS
<1> HIDE DEF N
<1>2. PICK f : BufferRun(f, parts) /\ EncodeWith(parts) = f[N]
    BY <1>1, BufferHasRun DEF N
<1>3. f[0] = <<>> /\ \A n \in 1..N : f[n] = f[n - 1] \o parts[n]
    BY <1>2 DEF BufferRun, N
<1> DEFINE T == {n \in Nat : n =< N => f[n] \in Seq(Byte)}
<1>4. Nat \subseteq T
    <2>1. 0 \in T
        <3>1. <<>> \in Seq(Byte)
            OBVIOUS
        <3> QED
            BY <1>3, <3>1
    <2>2. ASSUME NEW n \in Nat, n \in T PROVE n + 1 \in T
        <3>1. SUFFICES ASSUME n + 1 =< N PROVE f[n + 1] \in Seq(Byte)
            OBVIOUS
        <3>2. n + 1 \in 1..N /\ (n + 1) - 1 = n /\ f[n] \in Seq(Byte)
            BY <1>1, <2>2, <3>1
        <3>3. f[n + 1] = f[n] \o parts[n + 1] /\ parts[n + 1] \in Seq(Byte)
            BY <1>1, <1>3, <3>2
        <3> QED
            BY <3>2, <3>3
    <2> HIDE DEF T
    <2> QED
        BY <2>1, <2>2, Induction
<1>5. \A n \in 0..N : f[n] \in Seq(Byte)
    BY <1>1, <1>4
<1>6. ASSUME NEW buf, NEW pos, At(buf, pos, f[N])
      PROVE  \A n \in 1..N : At(buf, pos + Len(f[n - 1]), parts[n])
    <2> DEFINE U == {k \in Nat : k =< N => At(buf, pos, f[N - k])}
    <2>1. 0 \in U
        BY <1>1, <1>6
    <2>2. ASSUME NEW k \in Nat, k \in U PROVE k + 1 \in U
        <3>1. SUFFICES ASSUME k + 1 =< N PROVE At(buf, pos, f[N - (k + 1)])
            OBVIOUS
        <3>2. N - k \in 1..N /\ (N - k) - 1 = N - (k + 1) /\ N - (k + 1) \in 0..N
            BY <1>1, <3>1
        <3>3. At(buf, pos, f[N - k])
            BY <1>1, <2>2, <3>1
        <3>4. f[N - k] = f[N - (k + 1)] \o parts[N - k]
            BY <1>3, <3>2
        <3>5. f[N - (k + 1)] \in Seq(Byte) /\ parts[N - k] \in Seq(Byte)
            BY <1>1, <1>5, <3>2
        <3> QED
            BY <3>3, <3>4, <3>5, AtConcat
    <2>3. Nat \subseteq U
        <3> HIDE DEF U
        <3> QED
            BY <2>1, <2>2, Induction
    <2>4. ASSUME NEW n \in 1..N PROVE At(buf, pos + Len(f[n - 1]), parts[n])
        <3>1. N - n \in Nat /\ N - n =< N /\ N - (N - n) = n /\ n - 1 \in 0..N
            BY <1>1
        <3>2. At(buf, pos, f[n])
            BY <2>3, <3>1
        <3>3. f[n] = f[n - 1] \o parts[n] /\ f[n - 1] \in Seq(Byte) /\ parts[n] \in Seq(Byte)
            BY <1>1, <1>3, <1>5, <3>1
        <3> QED
            BY <3>2, <3>3, AtConcat
    <2> QED
        BY <2>4
<1>7. f[N] \in Seq(Byte)
    BY <1>1, <1>5
<1> QED
    BY <1>2, <1>5, <1>6, <1>7 DEF N

\* The lengths of these buffers.
LEMMA BufferLens ==
    ASSUME NEW parts \in Seq(Seq(Byte)), NEW f, BufferRun(f, parts), \A n \in 0..Len(parts) : f[n] \in Seq(Byte)
    PROVE  /\ Len(f[0]) = 0
           /\ \A n \in 1..Len(parts) : Len(f[n]) = Len(f[n - 1]) + Len(parts[n])
<1>1. Len(f[0]) = 0
    BY DEF BufferRun
<1>2. ASSUME NEW n \in 1..Len(parts) PROVE Len(f[n]) = Len(f[n - 1]) + Len(parts[n])
    <2>1. n - 1 \in 0..Len(parts) /\ parts[n] \in Seq(Byte)
        OBVIOUS
    <2>2. f[n] = f[n - 1] \o parts[n] /\ f[n - 1] \in Seq(Byte)
        BY <2>1 DEF BufferRun
    <2> QED
        BY <2>1, <2>2
<1> QED
    BY <1>1, <1>2

\* A hash is its bytes.
LEMMA HashBytes == ASSUME NEW h \in Hash PROVE h \in Seq(Byte) /\ Len(h) = HashLen
    BY CodecAssumption DEF Hash

\* The prefixes of a sequence.
LEMMA HashPrefixes ==
    ASSUME NEW s \in Seq(Hash)
    PROVE  /\ SubSeq(s, 1, 0) = <<>> /\ SubSeq(s, 1, Len(s)) = s
           /\ \A n \in Nat : n + 1 =< Len(s) => SubSeq(s, 1, n + 1) = Append(SubSeq(s, 1, n), s[n + 1])
    OBVIOUS

\* The hashes of parents and of children.
LEMMA ReadHashesOK ==
    ASSUME NEW hs \in Seq(Hash), NEW buf, NEW pos, NEW x, At(buf, pos, EncodeWith(hs))
    PROVE  ReadHashes(Cursor(buf, pos, x), Len(hs)) = Cursor(buf, pos + Len(EncodeWith(hs)), hs)
<1> DEFINE N == Len(hs)
<1>1. N \in Nat /\ \A n \in 1..N : hs[n] \in Hash
    OBVIOUS
<1>2. hs \in Seq(Seq(Byte))
    BY HashBytes
<1>3. PICK f : /\ BufferRun(f, hs) /\ EncodeWith(hs) = f[N]
               /\ \A n \in 0..N : f[n] \in Seq(Byte)
               /\ \A n \in 1..N : At(buf, pos + Len(f[n - 1]), hs[n])
    BY <1>2, BufferParts
<1>4. Len(f[0]) = 0 /\ \A n \in 1..N : Len(f[n]) = Len(f[n - 1]) + HashLen
    <2>1. Len(f[0]) = 0 /\ \A n \in 1..N : Len(f[n]) = Len(f[n - 1]) + Len(hs[n])
        BY <1>2, <1>3, BufferLens
    <2> QED
        BY <1>1, <2>1, HashBytes
<1>5. PICK g : HashesRun(g, Cursor(buf, pos, x), N) /\ ReadHashes(Cursor(buf, pos, x), N) = g[N]
    BY <1>1, HashesHaveRun
<1>6. pos \in Nat
    BY DEF At
<1>7. SubSeq(hs, 1, 0) = <<>> /\ SubSeq(hs, 1, N) = hs
    BY HashPrefixes
<1>8. \A n \in Nat : n + 1 =< N => SubSeq(hs, 1, n + 1) = Append(SubSeq(hs, 1, n), hs[n + 1])
    BY HashPrefixes
<1> HIDE DEF N
<1> DEFINE T == {n \in Nat : n =< N => g[n] = Cursor(buf, pos + Len(f[n]), SubSeq(hs, 1, n))}
<1>9. 0 \in T
    <2>1. g[0] = Cursor(buf, pos, <<>>)
        BY <1>5 DEF HashesRun, Cursor
    <2>2. pos + Len(f[0]) = pos
        BY <1>4, <1>6
    <2> QED
        BY <1>7, <2>1, <2>2
<1>10. ASSUME NEW n \in Nat, n \in T PROVE n + 1 \in T
    <2>1. SUFFICES ASSUME n + 1 =< N PROVE g[n + 1] = Cursor(buf, pos + Len(f[n + 1]), SubSeq(hs, 1, n + 1))
        OBVIOUS
    <2> DEFINE d == Cursor(buf, pos + Len(f[n]), SubSeq(hs, 1, n))
               h == hs[n + 1]
    <2>2. n + 1 \in 1..N /\ (n + 1) - 1 = n /\ n \in 0..N /\ g[n] = d
        BY <1>1, <1>10, <2>1
    <2>3. g[n + 1] = NextHash(d)
        BY <1>5, <2>2 DEF HashesRun
    <2>4. At(buf, pos + Len(f[n]), h) /\ Len(h) = HashLen
        BY <1>1, <1>3, <2>2, HashBytes
    <2>5. ReadSlice(d, HashLen) = Cursor(buf, pos + Len(f[n]) + HashLen, h)
        BY <2>4, ReadSliceOK
    <2>6. NextHash(d) = Cursor(buf, pos + Len(f[n]) + HashLen, Append(SubSeq(hs, 1, n), h))
        <3> DEFINE p == pos + Len(f[n]) + HashLen
                   q == pos + Len(f[n])
                   pre == SubSeq(hs, 1, n)
                   y == Append(pre, h)
        <3>1. ReadSlice(Cursor(buf, q, pre), HashLen) = Cursor(buf, p, h)
            BY <2>5
        <3> HIDE DEF h, p, q, pre, y
        <3>2. Cursor(buf, p, h).ok /\ Cursor(buf, p, h).out = h /\ Cursor(buf, q, pre).out = pre
            BY CursorOut
        <3>3. [Cursor(buf, p, h) EXCEPT !.out = y] = Cursor(buf, p, y)
            BY CursorOut
        <3>4. NextHash(Cursor(buf, q, pre)) = Cursor(buf, p, y)
            BY <3>1, <3>2, <3>3, Zenon DEF NextHash, y
        <3> QED
            BY <3>4 DEF p, q, pre, y
    <2>7. pos + Len(f[n]) + HashLen = pos + Len(f[n + 1])
        <3>1. Len(f[n]) \in Nat /\ HashLen \in Nat
            BY <1>3, <2>2, CodecAssumption
        <3>2. Len(f[n + 1]) = Len(f[n]) + HashLen
            BY <1>4, <2>2
        <3> QED
            BY <1>6, <3>1, <3>2
    <2> QED
        BY <1>8, <2>1, <2>3, <2>6, <2>7
<1>11. N \in T
    <2> HIDE DEF T
    <2> QED
        BY <1>1, <1>9, <1>10, Induction
<1>12. g[N] = Cursor(buf, pos + Len(f[N]), SubSeq(hs, 1, N))
    BY <1>1, <1>11
<1> QED
    BY <1>3, <1>5, <1>7, <1>12 DEF N

-----------------------------------------------------------------------------
(* The order of keys *)

\* a and b agree before i, where a ends or has the smaller byte.
Differ(a, b, i) ==
    /\ i \in Nat /\ 1 =< i /\ i =< Len(b) /\ i =< Len(a) + 1
    /\ \A j \in 1 .. i - 1 : a[j] = b[j]
    /\ i =< Len(a) => a[i] < b[i]

\* The order of byte strings, place by place.
LEMMA LessIff ==
    ASSUME NEW a \in Seq(Byte), NEW b \in Seq(Byte)
    PROVE  BytesLess(a, b) <=> \E i : Differ(a, b, i)
<1>1. Len(a) \in Nat /\ Len(b) \in Nat
    OBVIOUS
<1>2. CASE IsStrictPrefix(a, b)
    <2>1. Len(a) =< Len(b) /\ SubSeq(a, 1, Len(a)) = SubSeq(b, 1, Len(a)) /\ a # b
        BY <1>2 DEF IsStrictPrefix, IsPrefix
    <2>2. \A j \in 1..Len(a) : a[j] = b[j]
        <3>1. ASSUME NEW j \in 1..Len(a) PROVE a[j] = b[j]
            <4>1. SubSeq(a, 1, Len(a))[j] = a[j] /\ SubSeq(b, 1, Len(a))[j] = b[j]
                BY <1>1, <2>1
            <4> QED
                BY <2>1, <4>1
        <3> QED
            BY <3>1
    <2>3. Len(a) # Len(b)
        BY <2>1, <2>2
    <2>4. Differ(a, b, Len(a) + 1)
        BY <1>1, <2>1, <2>2, <2>3 DEF Differ
    <2> QED
        BY <1>2, <2>4 DEF BytesLess
<1>3. ASSUME NEW i, Differ(a, b, i), i = Len(a) + 1 PROVE IsStrictPrefix(a, b)
    <2>1. Len(a) < Len(b) /\ \A j \in 1..Len(a) : a[j] = b[j]
        BY <1>1, <1>3 DEF Differ
    <2>2. SubSeq(a, 1, Len(a)) = SubSeq(b, 1, Len(a))
        BY <1>1, <2>1
    <2> QED
        BY <1>1, <2>1, <2>2 DEF IsStrictPrefix, IsPrefix
<1>4. ASSUME NEW i, Differ(a, b, i), i # Len(a) + 1
      PROVE  \E k \in DOMAIN a \cap DOMAIN b : a[k] < b[k] /\ \A j \in 1 .. k - 1 : a[j] = b[j]
    <2>1. i \in DOMAIN a \cap DOMAIN b /\ a[i] < b[i]
        BY <1>1, <1>4 DEF Differ
    <2> QED
        BY <1>4, <2>1 DEF Differ
<1>5. ASSUME NEW k \in DOMAIN a \cap DOMAIN b, a[k] < b[k], \A j \in 1 .. k - 1 : a[j] = b[j]
      PROVE  Differ(a, b, k)
    BY <1>1, <1>5 DEF Differ
<1> QED
    BY <1>2, <1>3, <1>4, <1>5 DEF BytesLess

\* It is a strict total order.
LEMMA LessIrreflexive == ASSUME NEW a \in Seq(Byte) PROVE ~BytesLess(a, a)
<1>1. SUFFICES ASSUME NEW i, Differ(a, a, i) PROVE FALSE
    BY LessIff
<1>2. i \in 1..Len(a) /\ a[i] < a[i]
    BY <1>1 DEF Differ
<1>3. a[i] \in Int
    BY <1>2, CodecAssumption DEF Byte
<1> QED
    BY <1>2, <1>3

\* Two different strings are in order one way or the other.
LEMMA LessTotal ==
    ASSUME NEW a \in Seq(Byte), NEW b \in Seq(Byte), a # b
    PROVE  BytesLess(a, b) \/ BytesLess(b, a)
<1>1. Len(a) \in Nat /\ Len(b) \in Nat
    OBVIOUS
<1>2. /\ \A j \in 1..Len(a) : a[j] \in Int
      /\ \A j \in 1..Len(b) : b[j] \in Int
    BY CodecAssumption DEF Byte
<1> DEFINE D == {i \in Nat : 1 =< i /\ i =< Len(a) /\ i =< Len(b) /\ a[i] # b[i]}
<1>3. CASE D = {}
    <2>1. \A i \in Nat : 1 =< i /\ i =< Len(a) /\ i =< Len(b) => a[i] = b[i]
        BY <1>3
    <2>2. Len(a) # Len(b)
        BY <1>1, <2>1
    <2>3. CASE Len(a) < Len(b)
        <3>1. Differ(a, b, Len(a) + 1)
            BY <1>1, <2>1, <2>3 DEF Differ
        <3> QED
            BY <3>1, LessIff
    <2>4. CASE Len(b) < Len(a)
        <3>1. Differ(b, a, Len(b) + 1)
            BY <1>1, <2>1, <2>4 DEF Differ
        <3> QED
            BY <3>1, LessIff
    <2> QED
        BY <1>1, <2>2, <2>3, <2>4
<1>4. CASE D # {}
    <2>1. PICK i \in D : \A k \in D : i =< k
        <3>1. D \in SUBSET Nat
            OBVIOUS
        <3> HIDE DEF D
        <3> QED
            BY <1>4, <3>1, LeastNumber
    <2>2. \A j \in 1 .. i - 1 : a[j] = b[j]
        <3>1. ASSUME NEW j \in 1 .. i - 1, a[j] # b[j] PROVE FALSE
            <4>1. j \in D /\ j < i
                BY <1>1, <2>1, <3>1
            <4> QED
                BY <2>1, <4>1
        <3> QED
            BY <3>1
    <2>3. i \in 1..Len(a) /\ i \in 1..Len(b) /\ a[i] # b[i]
        BY <1>1, <2>1
    <2>4. a[i] < b[i] \/ b[i] < a[i]
        BY <1>2, <2>3
    <2>5. Differ(a, b, i) \/ Differ(b, a, i)
        BY <1>1, <2>2, <2>3, <2>4 DEF Differ
    <2> QED
        BY <2>5, LessIff
<1> QED
    BY <1>3, <1>4

\* The order is transitive.
LEMMA LessTransitive ==
    ASSUME NEW a \in Seq(Byte), NEW b \in Seq(Byte), NEW c \in Seq(Byte), BytesLess(a, b), BytesLess(b, c)
    PROVE  BytesLess(a, c)
<1>1. Len(a) \in Nat /\ Len(b) \in Nat /\ Len(c) \in Nat
    OBVIOUS
<1>2. PICK i : Differ(a, b, i)
    BY LessIff
<1>3. PICK j : Differ(b, c, j)
    BY LessIff
<1>4. /\ \A k \in 1..Len(a) : a[k] \in Int
      /\ \A k \in 1..Len(b) : b[k] \in Int
      /\ \A k \in 1..Len(c) : c[k] \in Int
    BY CodecAssumption DEF Byte
<1>5. i \in Nat /\ j \in Nat
    BY <1>2, <1>3 DEF Differ
<1>6. CASE i < j
    <2>1. \A k \in 1..i : b[k] = c[k]
        BY <1>3, <1>5, <1>6 DEF Differ
    <2>2. Differ(a, c, i)
        BY <1>1, <1>2, <1>3, <1>5, <1>6, <2>1 DEF Differ
    <2> QED
        BY <2>2, LessIff
<1>7. CASE j < i
    <2>1. \A k \in 1..j : a[k] = b[k]
        BY <1>2, <1>5, <1>7 DEF Differ
    <2>2. Differ(a, c, j)
        BY <1>1, <1>2, <1>3, <1>5, <1>7, <2>1 DEF Differ
    <2> QED
        BY <2>2, LessIff
<1>8. CASE i = j
    <2>1. i =< Len(a) => a[i] < c[i]
        <3>1. ASSUME i =< Len(a) PROVE a[i] < c[i]
            <4>1. a[i] < b[i] /\ b[i] < c[i] /\ i \in 1..Len(a) /\ i \in 1..Len(b) /\ i \in 1..Len(c)
                BY <1>1, <1>2, <1>3, <1>5, <1>8, <3>1 DEF Differ
            <4> QED
                BY <1>4, <4>1
        <3> QED
            BY <3>1
    <2>2. \A k \in 1 .. i - 1 : a[k] = c[k]
        BY <1>2, <1>3, <1>8 DEF Differ
    <2>3. Differ(a, c, i)
        BY <1>1, <1>2, <1>3, <1>5, <1>8, <2>1, <2>2 DEF Differ
    <2> QED
        BY <2>3, LessIff
<1> QED
    BY <1>5, <1>6, <1>7, <1>8

\* A finite set of strings has a greatest one.
LEMMA GreatestKey ==
    ASSUME NEW S \in SUBSET Seq(Byte), IsFiniteSet(S), S # {}
    PROVE  \E m \in S : \A x \in S : x = m \/ BytesLess(x, m)
<1> DEFINE Top(R) == \E m \in R : \A x \in R : x = m \/ BytesLess(x, m)
           T == {n \in Nat : \A R \in SUBSET Seq(Byte) : IsFiniteSet(R) /\ Cardinality(R) = n + 1 => Top(R)}
<1>1. 0 \in T
    <2>1. ASSUME NEW R \in SUBSET Seq(Byte), IsFiniteSet(R), Cardinality(R) = 0 + 1 PROVE Top(R)
        <3>0. Cardinality(R) = 1
            BY <2>1
        <3>1. PICK x : R = {x}
            BY <2>1, <3>0, FS_Singleton, Zenon
        <3> QED
            BY <3>1
    <2> QED
        BY <2>1
<1>2. ASSUME NEW n \in Nat, n \in T PROVE n + 1 \in T
    <2>1. ASSUME NEW R \in SUBSET Seq(Byte), IsFiniteSet(R), Cardinality(R) = (n + 1) + 1 PROVE Top(R)
        <3>1. PICK e : e \in R
            BY <2>1, FS_EmptySet
        <3>2. IsFiniteSet(R \ {e}) /\ Cardinality(R \ {e}) = n + 1 /\ R \ {e} \in SUBSET Seq(Byte)
            <4>1. IsFiniteSet(R \ {e}) /\ Cardinality(R \ {e}) = Cardinality(R) - 1
                BY <2>1, <3>1, FS_RemoveElement, Zenon
            <4>2. R \ {e} \in SUBSET Seq(Byte)
                OBVIOUS
            <4> QED
                BY <2>1, <4>1, <4>2
        <3>3. Top(R \ {e})
            BY <1>2, <3>2
        <3>4. PICK m \in R \ {e} : \A x \in R \ {e} : x = m \/ BytesLess(x, m)
            BY <3>3
        <3>5. m \in Seq(Byte) /\ e \in Seq(Byte) /\ e # m
            BY <3>1, <3>4
        <3>6. CASE BytesLess(e, m)
            BY <3>1, <3>4, <3>6
        <3>7. CASE BytesLess(m, e)
            <4>1. ASSUME NEW x \in R, x # e PROVE BytesLess(x, e)
                <5>1. x \in R \ {e} /\ x \in Seq(Byte)
                    BY <4>1
                <5> QED
                    BY <3>4, <3>5, <3>7, <5>1, LessTransitive
            <4> QED
                BY <3>1, <4>1
        <3> QED
            BY <3>5, <3>6, <3>7, LessTotal
    <2> QED
        BY <2>1
<1>3. Nat \subseteq T
    <2> HIDE DEF T
    <2> QED
        BY <1>1, <1>2, Induction
<1>4. Cardinality(S) \in Nat /\ Cardinality(S) # 0
    BY FS_CardinalityType, FS_EmptySet
<1>5. Cardinality(S) - 1 \in Nat /\ Cardinality(S) = (Cardinality(S) - 1) + 1
    BY <1>4
<1>6. Top(S)
    <2> HIDE DEF Top
    <2> QED
        BY <1>3, <1>5
<1> QED
    BY <1>6

\* s lists S in order.
Sorts(s, S) ==
    /\ s \in [1 .. Cardinality(S) -> S]
    /\ \A i, j \in 1 .. Cardinality(S) : i < j => BytesLess(s[i], s[j])

\* A finite set of strings can be listed in order.
LEMMA CanSort ==
    ASSUME NEW S \in SUBSET Seq(Byte), IsFiniteSet(S)
    PROVE  \E s : Sorts(s, S)
<1> DEFINE T == {n \in Nat : \A R \in SUBSET Seq(Byte) :
                    IsFiniteSet(R) /\ Cardinality(R) = n => \E s : Sorts(s, R)}
<1>1. 0 \in T
    <2>1. ASSUME NEW R \in SUBSET Seq(Byte), IsFiniteSet(R), Cardinality(R) = 0 PROVE \E s : Sorts(s, R)
        <3>1. Sorts([i \in 1..0 |-> 0], R)
            BY <2>1 DEF Sorts
        <3> QED
            BY <3>1
    <2> QED
        BY <2>1
<1>2. ASSUME NEW n \in Nat, n \in T PROVE n + 1 \in T
    <2>1. ASSUME NEW R \in SUBSET Seq(Byte), IsFiniteSet(R), Cardinality(R) = n + 1 PROVE \E s : Sorts(s, R)
        <3>1. R # {}
            BY <2>1, FS_EmptySet
        <3>2. PICK m \in R : \A x \in R : x = m \/ BytesLess(x, m)
            BY <2>1, <3>1, GreatestKey
        <3>3. IsFiniteSet(R \ {m}) /\ Cardinality(R \ {m}) = n /\ R \ {m} \in SUBSET Seq(Byte)
            <4>1. IsFiniteSet(R \ {m}) /\ Cardinality(R \ {m}) = Cardinality(R) - 1
                BY <2>1, <3>2, FS_RemoveElement, Zenon
            <4>2. R \ {m} \in SUBSET Seq(Byte)
                OBVIOUS
            <4> QED
                BY <2>1, <4>1, <4>2
        <3>4. PICK s : Sorts(s, R \ {m})
            BY <1>2, <3>3
        <3>5. /\ s \in [1..n -> R \ {m}]
              /\ \A i, j \in 1..n : i < j => BytesLess(s[i], s[j])
            BY <3>3, <3>4 DEF Sorts
        <3> DEFINE t == [i \in 1..(n + 1) |-> IF i = n + 1 THEN m ELSE s[i]]
        <3>6. t \in [1..(n + 1) -> R]
            BY <3>2, <3>5
        <3>7. ASSUME NEW i \in 1..(n + 1), NEW j \in 1..(n + 1), i < j PROVE BytesLess(t[i], t[j])
            <4>1. i \in 1..n /\ t[i] = s[i] /\ s[i] \in R /\ s[i] # m
                BY <3>5, <3>7
            <4>2. CASE j = n + 1
                BY <3>2, <4>1, <4>2
            <4>3. CASE j # n + 1
                <5>1. j \in 1..n /\ t[j] = s[j]
                    BY <4>3
                <5> QED
                    BY <3>5, <3>7, <4>1, <5>1
            <4> QED
                BY <4>2, <4>3
        <3> HIDE DEF t
        <3>8. Sorts(t, R)
            BY <2>1, <3>6, <3>7 DEF Sorts
        <3> QED
            BY <3>8
    <2> QED
        BY <2>1
<1>3. Nat \subseteq T
    <2> HIDE DEF T
    <2> QED
        BY <1>1, <1>2, Induction
<1>4. Cardinality(S) \in Nat
    BY FS_CardinalityType
<1> QED
    BY <1>3, <1>4

\* The keys of a BTreeMap, each once.
LEMMA SortedKeysFacts ==
    ASSUME NEW S \in SUBSET Seq(Byte), IsFiniteSet(S)
    PROVE  /\ SortedKeys(S) \in Seq(S) /\ Len(SortedKeys(S)) = Cardinality(S) /\ Cardinality(S) \in Nat
           /\ \A x \in S : \E i \in 1..Cardinality(S) : SortedKeys(S)[i] = x
<1> DEFINE n == Cardinality(S)
           s == SortedKeys(S)
<1>1. n \in Nat
    BY FS_CardinalityType
<1>2. Sorts(s, S)
    <2>1. PICK z : Sorts(z, S)
        BY CanSort
    <2> QED
        BY <2>1 DEF Sorts, SortedKeys
<1> HIDE DEF s
<1>3. s \in [1..n -> S] /\ \A i, j \in 1..n : i < j => BytesLess(s[i], s[j])
    BY <1>2 DEF Sorts
<1> HIDE DEF n
<1>4. \A i, j \in 1..n : s[i] = s[j] => i = j
    <2>1. ASSUME NEW i \in 1..n, NEW j \in 1..n, s[i] = s[j], i # j PROVE FALSE
        <3>1. s[i] \in Seq(Byte) /\ ~BytesLess(s[i], s[i])
            BY <1>3, LessIrreflexive
        <3>2. i < j \/ j < i
            BY <1>1, <2>1
        <3> QED
            BY <1>3, <2>1, <3>1, <3>2
    <2> QED
        BY <2>1
<1>5. s \in Injection(1..n, S)
    BY <1>3, <1>4 DEF Injection, IsInjective
<1>6. Cardinality(1..n) = n
    BY <1>1, FS_Interval
<1>7. s \in Surjection(1..n, S)
    BY <1>5, <1>6, FS_Injection DEF n
<1>8. \A x \in S : \E i \in 1..n : s[i] = x
    BY <1>7 DEF Surjection
<1>9. s \in Seq(S) /\ Len(s) = n
    BY <1>1, <1>3
<1> QED
    BY <1>1, <1>8, <1>9 DEF s, n

-----------------------------------------------------------------------------
(* Index roots *)

\* Bytes behind bytes.
LEMMA ConcatBytes ==
    ASSUME NEW a \in Seq(Byte), NEW b \in Seq(Byte)
    PROVE  a \o b \in Seq(Byte) /\ Len(a \o b) = Len(a) + Len(b) /\ Len(a) \in Nat /\ Len(b) \in Nat
    OBVIOUS

\* The roots read so far, and one more.
WithRoot(out, name, hash) == [x \in DOMAIN out \cup {name} |-> IF x = name THEN hash ELSE out[x]]

\* One name with its hash.
LEMMA ReadRootOK ==
    ASSUME NEW buf, NEW pos, NEW out, NEW name \in Text, NEW hash \in Hash, FitsU(Len(name), 2),
           At(buf, pos, EncodeRoot(name, hash))
    PROVE  /\ EncodeRoot(name, hash) \in Seq(Byte)
           /\ Len(EncodeRoot(name, hash)) = 2 + Len(name) + HashLen
           /\ NextRoot(Cursor(buf, pos, out)) =
                Cursor(buf, pos + Len(EncodeRoot(name, hash)), WithRoot(out, name, hash))
<1> DEFINE w == WriteU(Len(name), 2)
           L == Len(name)
<1>1. name \in Seq(Byte) /\ L \in Nat /\ hash \in Seq(Byte) /\ Len(hash) = HashLen /\ HashLen \in Nat
    BY HashBytes, CodecAssumption DEF Text
<1>2. w \in Seq(Byte) /\ Len(w) = 2
    BY <1>1, WriteUFacts
<1> HIDE DEF w, L
<1>3. w \o name \in Seq(Byte) /\ Len(w \o name) = 2 + L
    BY <1>1, <1>2, ConcatBytes DEF L
<1>4. EncodeRoot(name, hash) = (w \o name) \o hash
    BY DEF EncodeRoot, w
<1>5. /\ (w \o name) \o hash \in Seq(Byte)
      /\ Len((w \o name) \o hash) = 2 + L + HashLen
    BY <1>1, <1>3, ConcatBytes
<1>6. pos \in Nat
    BY DEF At
<1>7. At(buf, pos, w \o name) /\ At(buf, pos + (2 + L), hash)
    BY <1>1, <1>3, <1>4, AtConcat
<1>8. At(buf, pos, w) /\ At(buf, pos + 2, name)
    BY <1>1, <1>2, <1>7, AtConcat
<1> DEFINE q == pos + 2 + L
           r == pos + (2 + L + HashLen)
           v == WithRoot(out, name, hash)
<1>9. ReadText(Cursor(buf, pos, out)) = Cursor(buf, q, name)
    BY <1>8, ReadTextOK DEF w, L
<1>10. ReadSlice(Cursor(buf, q, name), HashLen) = Cursor(buf, r, hash)
    <2>1. q = pos + (2 + L) /\ q + HashLen = r
        BY <1>1, <1>6
    <2> HIDE DEF q, r
    <2>2. At(buf, q, hash)
        BY <1>7, <2>1
    <2> QED
        BY <1>1, <2>1, <2>2, ReadSliceOK
<1> HIDE DEF q, r, v
<1>11. /\ Cursor(buf, r, hash).ok /\ Cursor(buf, r, hash).out = hash
       /\ Cursor(buf, q, name).out = name /\ Cursor(buf, pos, out).out = out
    BY CursorOut
<1>12. [Cursor(buf, r, hash) EXCEPT !.out = v] = Cursor(buf, r, v)
    BY CursorOut
<1>13. NextRoot(Cursor(buf, pos, out)) = Cursor(buf, r, v)
    <2> DEFINE c == Cursor(buf, pos, out)
               nm == Cursor(buf, q, name)
               hs == Cursor(buf, r, hash)
    <2>1. [x \in DOMAIN c.out \cup {nm.out} |-> IF x = nm.out THEN hs.out ELSE c.out[x]] = v
        BY <1>11, Zenon DEF v, WithRoot
    <2>2. ReadText(c) = nm /\ ReadSlice(nm, HashLen) = hs /\ hs.ok /\ [hs EXCEPT !.out = v] = Cursor(buf, r, v)
        BY <1>9, <1>10, <1>11, <1>12
    <2> HIDE DEF c, nm, hs
    <2>3. NextRoot(c) = Cursor(buf, r, v)
        BY <2>1, <2>2, Zenon DEF NextRoot
    <2> QED
        BY <2>3 DEF c
<1> QED
    BY <1>4, <1>5, <1>13 DEF r, v, L

\* What encode_payload writes for the index roots.
RootParts(idx) ==
    LET names == SortedKeys(DOMAIN idx)
    IN  [i \in DOMAIN names |-> EncodeRoot(names[i], idx[names[i]])]

\* The bytes of a name with its hash.
LEMMA EncodeRootBytes ==
    ASSUME NEW name \in Text, NEW hash \in Hash
    PROVE  EncodeRoot(name, hash) \in Seq(Byte)
<1>1. name \in Seq(Byte) /\ Len(name) \in Nat /\ hash \in Seq(Byte)
    BY HashBytes DEF Text
<1>2. WriteU(Len(name), 2) \in Seq(Byte)
    BY <1>1, WriteUFacts
<1> QED
    BY <1>1, <1>2 DEF EncodeRoot

\* The names of the index roots, in order, and the parts of the buffer.
LEMMA RootPartsFacts ==
    ASSUME NEW idx, IsIndexRoots(idx)
    PROVE  LET names == SortedKeys(DOMAIN idx)
               N     == Cardinality(DOMAIN idx)
           IN  /\ N \in Nat /\ Len(names) = N /\ \A i \in 1..N : names[i] \in DOMAIN idx
               /\ \A x \in DOMAIN idx : \E i \in 1..N : names[i] = x
               /\ RootParts(idx) \in Seq(Seq(Byte)) /\ Len(RootParts(idx)) = N
               /\ \A i \in 1..N : RootParts(idx)[i] = EncodeRoot(names[i], idx[names[i]])
<1> DEFINE D == DOMAIN idx
           names == SortedKeys(D)
           N == Cardinality(D)
<1>1. IsFiniteSet(D) /\ \A n \in D : n \in Text /\ idx[n] \in Hash
    BY DEF IsIndexRoots
<1>2. D \in SUBSET Seq(Byte)
    BY <1>1 DEF Text
<1>3. /\ names \in Seq(D) /\ Len(names) = N /\ N \in Nat
      /\ \A x \in D : \E i \in 1..N : names[i] = x
    <2> HIDE DEF D
    <2> QED
        BY <1>1, <1>2, SortedKeysFacts
<1> HIDE DEF names, N, D
<1>4. DOMAIN names = 1..N /\ \A i \in 1..N : names[i] \in D
    BY <1>3
<1>5. \A i \in 1..N : EncodeRoot(names[i], idx[names[i]]) \in Seq(Byte)
    BY <1>1, <1>4, EncodeRootBytes
<1>6. RootParts(idx) = [i \in 1..N |-> EncodeRoot(names[i], idx[names[i]])]
    BY <1>4 DEF RootParts, names, D
<1>7. RootParts(idx) \in Seq(Seq(Byte)) /\ Len(RootParts(idx)) = N
    BY <1>3, <1>5, <1>6
<1> QED
    BY <1>3, <1>4, <1>6, <1>7 DEF names, N, D

\* All index roots.
LEMMA ReadIndexRootsOK ==
    ASSUME NEW idx, IsIndexRoots(idx), \A n \in DOMAIN idx : FitsU(Len(n), 2),
           NEW buf, NEW pos, NEW x, At(buf, pos, EncodeWith(RootParts(idx)))
    PROVE  ReadIndexRoots(Cursor(buf, pos, x), Cardinality(DOMAIN idx)) =
               Cursor(buf, pos + Len(EncodeWith(RootParts(idx))), idx)
<1> DEFINE N == Cardinality(DOMAIN idx)
           names == SortedKeys(DOMAIN idx)
           parts == RootParts(idx)
<1>1. /\ N \in Nat /\ \A i \in 1..N : names[i] \in DOMAIN idx
      /\ \A y \in DOMAIN idx : \E i \in 1..N : names[i] = y
      /\ parts \in Seq(Seq(Byte)) /\ Len(parts) = N
      /\ \A i \in 1..N : parts[i] = EncodeRoot(names[i], idx[names[i]])
    BY RootPartsFacts
<1>2. idx = [n \in DOMAIN idx |-> idx[n]] /\ \A n \in DOMAIN idx : n \in Text /\ idx[n] \in Hash
    BY DEF IsIndexRoots
<1> HIDE DEF N, names, parts
<1>3. PICK f : /\ BufferRun(f, parts) /\ EncodeWith(parts) = f[N]
               /\ \A n \in 0..N : f[n] \in Seq(Byte)
               /\ \A n \in 1..N : At(buf, pos + Len(f[n - 1]), parts[n])
    <2>1. At(buf, pos, EncodeWith(parts))
        BY DEF parts
    <2> QED
        BY <1>1, <2>1, BufferParts
<1>4. Len(f[0]) = 0 /\ \A n \in 1..N : Len(f[n]) = Len(f[n - 1]) + Len(parts[n])
    <2>1. \A n \in 0..Len(parts) : f[n] \in Seq(Byte)
        BY <1>1, <1>3
    <2>2. Len(f[0]) = 0 /\ \A n \in 1..Len(parts) : Len(f[n]) = Len(f[n - 1]) + Len(parts[n])
        BY <1>1, <1>3, <2>1, BufferLens, ZenonT(30)
    <2> QED
        BY <1>1, <2>2
<1>5. PICK g : RootsRun(g, Cursor(buf, pos, x), N) /\ ReadIndexRoots(Cursor(buf, pos, x), N) = g[N]
    BY <1>1, RootsHaveRun
<1>6. pos \in Nat
    BY DEF At
<1> DEFINE Part(n) == [y \in {names[i] : i \in 1..n} |-> idx[y]]
           T == {n \in Nat : n =< N => g[n] = Cursor(buf, pos + Len(f[n]), Part(n))}
<1>7. 0 \in T
    <2>1. g[0] = Cursor(buf, pos, <<>>)
        <3>1. g[0] = [Cursor(buf, pos, x) EXCEPT !.out = <<>>]
            BY <1>5 DEF RootsRun
        <3> QED
            BY <3>1, CursorOut
    <2>2. Part(0) = <<>>
        OBVIOUS
    <2>3. pos + Len(f[0]) = pos
        BY <1>4, <1>6
    <2> QED
        BY <2>1, <2>2, <2>3
<1>8. ASSUME NEW n \in Nat, n \in T PROVE n + 1 \in T
    <2>1. SUFFICES ASSUME n + 1 =< N PROVE g[n + 1] = Cursor(buf, pos + Len(f[n + 1]), Part(n + 1))
        OBVIOUS
    <2> DEFINE d == Cursor(buf, pos + Len(f[n]), Part(n))
               name == names[n + 1]
               hash == idx[name]
               old == Part(n)
               new == WithRoot(old, name, hash)
               q == pos + Len(f[n])
               k == Len(EncodeRoot(name, hash))
    <2>2. n + 1 \in 1..N /\ (n + 1) - 1 = n /\ n \in 0..N /\ g[n] = d
        <3>0. N \in Nat
            BY <1>1
        <3>1. n + 1 \in 1..N /\ (n + 1) - 1 = n /\ n \in 0..N /\ n =< N
            BY <2>1, <3>0
        <3> HIDE DEF Part
        <3> QED
            BY <1>8, <3>1
    <2>3. g[n + 1] = NextRoot(Cursor(buf, q, old))
        BY <1>5, <2>2 DEF RootsRun
    <2>4. /\ name \in DOMAIN idx /\ name \in Text /\ hash \in Hash /\ FitsU(Len(name), 2)
          /\ At(buf, q, EncodeRoot(name, hash)) /\ parts[n + 1] = EncodeRoot(name, hash)
        BY <1>1, <1>2, <1>3, <2>2
    <2>5. new = Part(n + 1)
        <3>1. {names[i] : i \in 1..(n + 1)} = {names[i] : i \in 1..n} \cup {name}
            OBVIOUS
        <3>2. DOMAIN old = {names[i] : i \in 1..n}
            OBVIOUS
        <3> QED
            BY <3>1, <3>2 DEF WithRoot
    <2> HIDE DEF name, hash, old, q
    <2>6. k \in Nat /\ NextRoot(Cursor(buf, q, old)) = Cursor(buf, q + k, new)
        <3>1. EncodeRoot(name, hash) \in Seq(Byte)
            BY <2>4, ReadRootOK
        <3> QED
            BY <2>4, <3>1, ReadRootOK
    <2> HIDE DEF k, new
    <2>7. q + k = pos + Len(f[n + 1])
        <3>1. Len(f[n + 1]) = Len(f[n]) + k
            BY <1>4, <2>2, <2>4 DEF k
        <3>2. Len(f[n]) \in Nat
            BY <1>3, <2>2
        <3> QED
            BY <1>6, <2>6, <3>1, <3>2 DEF q
    <2> HIDE DEF Part
    <2> QED
        BY <2>3, <2>5, <2>6, <2>7
<1>9. N \in T
    <2> HIDE DEF T
    <2> QED
        BY <1>1, <1>7, <1>8, Induction
<1>10. g[N] = Cursor(buf, pos + Len(f[N]), Part(N))
    BY <1>1, <1>9
<1>11. Part(N) = idx
    <2>1. {names[i] : i \in 1..N} = DOMAIN idx
        <3>1. ASSUME NEW y \in {names[i] : i \in 1..N} PROVE y \in DOMAIN idx
            BY <1>1, <3>1, Zenon
        <3>2. ASSUME NEW y \in DOMAIN idx PROVE y \in {names[i] : i \in 1..N}
            BY <1>1, <3>2, Zenon
        <3> QED
            BY <3>1, <3>2, Zenon
    <2> QED
        BY <1>2, <2>1
<1> HIDE DEF Part, T
<1> QED
    BY <1>3, <1>5, <1>10, <1>11 DEF N, parts

-----------------------------------------------------------------------------
(* Commits *)

\* A value of the type Commit, whose timestamp is a u64.
IsCommit(c) ==
    /\ c = [parents |-> c.parents, root_hamt |-> c.root_hamt, timestamp |-> c.timestamp,
            message |-> c.message, index_roots |-> c.index_roots]
    /\ c.parents \in Seq(Hash) /\ c.root_hamt \in Hash
    /\ c.timestamp \in Nat /\ FitsU(c.timestamp, 8)
    /\ c.message \in Text /\ IsIndexRoots(c.index_roots)

\* The parts of a payload that both versions have.
LEMMA FieldBytes ==
    ASSUME NEW c, IsCommit(c), NEW v \in Nat
    PROVE  /\ WriteU(v, 1) \in Seq(Byte) /\ WriteU(Len(c.parents), 1) \in Seq(Byte)
           /\ EncodeWith(c.parents) \in Seq(Byte) /\ c.root_hamt \in Seq(Byte)
           /\ WriteU(c.timestamp, 8) \in Seq(Byte) /\ WriteU(Len(c.message), 2) \in Seq(Byte)
           /\ c.message \in Seq(Byte) /\ Len(c.parents) \in Nat /\ Len(c.message) \in Nat
           /\ EncodeFields(v, c) \in Seq(Byte)
<1>1. c.message \in Seq(Byte) /\ Len(c.parents) \in Nat /\ Len(c.message) \in Nat /\ c.timestamp \in Nat
    BY DEF IsCommit, Text
<1>2. /\ WriteU(v, 1) \in Seq(Byte) /\ WriteU(Len(c.parents), 1) \in Seq(Byte)
      /\ WriteU(c.timestamp, 8) \in Seq(Byte) /\ WriteU(Len(c.message), 2) \in Seq(Byte)
    BY <1>1, WriteUFacts
<1>3. c.root_hamt \in Seq(Byte)
    BY HashBytes DEF IsCommit
<1>4. EncodeWith(c.parents) \in Seq(Byte)
    <2>1. c.parents \in Seq(Seq(Byte))
        BY HashBytes DEF IsCommit
    <2> QED
        BY <2>1, BufferParts
<1>5. EncodeFields(v, c) \in Seq(Byte)
    <2> DEFINE e2 == WriteU(v, 1) \o WriteU(Len(c.parents), 1)
               e3 == e2 \o EncodeWith(c.parents)
               e4 == e3 \o c.root_hamt
               e5 == e4 \o WriteU(c.timestamp, 8)
               e6 == e5 \o WriteU(Len(c.message), 2)
    <2>1. EncodeFields(v, c) = e6 \o c.message
        BY DEF EncodeFields
    <2>2. e2 \in Seq(Byte)
        BY <1>2, ConcatBytes
    <2> HIDE DEF e2
    <2>3. e3 \in Seq(Byte)
        BY <1>4, <2>2, ConcatBytes
    <2> HIDE DEF e3
    <2>4. e4 \in Seq(Byte)
        BY <1>3, <2>3, ConcatBytes
    <2> HIDE DEF e4
    <2>5. e5 \in Seq(Byte)
        BY <1>2, <2>4, ConcatBytes
    <2> HIDE DEF e5
    <2>6. e6 \in Seq(Byte)
        BY <1>2, <2>5, ConcatBytes
    <2> HIDE DEF e6
    <2> QED
        BY <1>1, <2>1, <2>6, ConcatBytes
<1> QED
    BY <1>1, <1>2, <1>3, <1>4, <1>5

\* Where decode_payload is after each of these fields, and what it has read.
FieldsRead(buf, v, c) ==
    LET p3 == 2 + Len(EncodeWith(c.parents))
        p4 == p3 + HashLen
        p5 == p4 + 8
        p7 == p5 + 2 + Len(c.message)
    IN  /\ ReadU(Decoder(buf), 1) = Cursor(buf, 1, v)
        /\ ReadU(Cursor(buf, 1, v), 1) = Cursor(buf, 2, Len(c.parents))
        /\ ReadHashes(Cursor(buf, 2, Len(c.parents)), Len(c.parents)) = Cursor(buf, p3, c.parents)
        /\ ReadSlice(Cursor(buf, p3, c.parents), HashLen) = Cursor(buf, p4, c.root_hamt)
        /\ ReadU(Cursor(buf, p4, c.root_hamt), 8) = Cursor(buf, p5, c.timestamp)
        /\ ReadText(Cursor(buf, p5, c.timestamp)) = Cursor(buf, p7, c.message)
        /\ p7 = Len(EncodeFields(v, c))

\* The version fits a byte.
LEMMA VersionFits == FitsU(1, 1) /\ FitsU(2, 1)
<1>1. \A v \in Nat : ShiftRight(v, 0 + 1) = v \div Base
    BY ShiftStep
<1>2. 0 + 1 = 1 /\ 1 \div Base = 0 /\ 2 \div Base = 0
    BY CodecAssumption
<1> QED
    BY <1>1, <1>2 DEF FitsU

\* What fits is read as it was written.
LEMMA ReadFields ==
    ASSUME NEW c, IsCommit(c), FitsU(Len(c.parents), 1), FitsU(Len(c.message), 2),
           NEW v \in {1, 2}, NEW buf, At(buf, 0, EncodeFields(v, c))
    PROVE  FieldsRead(buf, v, c)
<1> DEFINE w1 == WriteU(v, 1)
           w2 == WriteU(Len(c.parents), 1)
           P  == EncodeWith(c.parents)
           R  == c.root_hamt
           w5 == WriteU(c.timestamp, 8)
           w6 == WriteU(Len(c.message), 2)
           M  == c.message
           e2 == w1 \o w2
           e3 == e2 \o P
           e4 == e3 \o R
           e5 == e4 \o w5
           e6 == e5 \o w6
<1>1. /\ w1 \in Seq(Byte) /\ w2 \in Seq(Byte) /\ P \in Seq(Byte) /\ R \in Seq(Byte)
      /\ w5 \in Seq(Byte) /\ w6 \in Seq(Byte) /\ M \in Seq(Byte)
      /\ Len(c.parents) \in Nat /\ Len(M) \in Nat
    BY FieldBytes
<1>2. Len(w1) = 1 /\ Len(w2) = 1 /\ Len(R) = HashLen /\ Len(w5) = 8 /\ Len(w6) = 2 /\ HashLen \in Nat
    <2>1. Len(R) = HashLen /\ HashLen \in Nat
        BY HashBytes, CodecAssumption DEF IsCommit
    <2>2. v \in Nat /\ c.timestamp \in Nat
        BY DEF IsCommit
    <2>3. Len(w1) = 1 /\ Len(w2) = 1
        BY <1>1, <2>2, WriteUFacts
    <2>4. Len(w5) = 8 /\ Len(w6) = 2
        BY <1>1, <2>2, WriteUFacts
    <2> QED
        BY <2>1, <2>3, <2>4
<1>3. EncodeFields(v, c) = e6 \o M
    BY DEF EncodeFields
<1>4. c.timestamp \in Nat /\ FitsU(c.timestamp, 8) /\ M \in Text /\ c.parents \in Seq(Hash) /\ FitsU(v, 1)
      /\ v \in Nat
    BY VersionFits DEF IsCommit
<1> HIDE DEF w1, w2, P, R, w5, w6, M
<1>5. e2 \in Seq(Byte) /\ Len(e2) = 2
    <2>1. e2 \in Seq(Byte) /\ Len(e2) = Len(w1) + Len(w2)
        BY <1>1, ConcatBytes
    <2> QED
        BY <1>2, <2>1
<1> HIDE DEF e2
<1>6. e3 \in Seq(Byte) /\ Len(e3) = 2 + Len(P) /\ Len(P) \in Nat
    BY <1>1, <1>5, ConcatBytes
<1> HIDE DEF e3
<1>7. e4 \in Seq(Byte) /\ Len(e4) = 2 + Len(P) + HashLen
    <2>1. e4 \in Seq(Byte) /\ Len(e4) = Len(e3) + Len(R)
        BY <1>1, <1>6, ConcatBytes
    <2> QED
        BY <1>2, <1>6, <2>1
<1> HIDE DEF e4
<1>8. e5 \in Seq(Byte) /\ Len(e5) = 2 + Len(P) + HashLen + 8
    <2>1. e5 \in Seq(Byte) /\ Len(e5) = Len(e4) + Len(w5)
        BY <1>1, <1>7, ConcatBytes, Zenon
    <2> QED
        BY <1>2, <1>7, <2>1
<1> HIDE DEF e5
<1>9. e6 \in Seq(Byte) /\ Len(e6) = 2 + Len(P) + HashLen + 8 + 2
    <2>1. e6 \in Seq(Byte) /\ Len(e6) = Len(e5) + Len(w6)
        BY <1>1, <1>8, ConcatBytes, Zenon
    <2> QED
        BY <1>2, <1>8, <2>1
<1> HIDE DEF e6
<1>10. Len(EncodeFields(v, c)) = 2 + Len(P) + HashLen + 8 + 2 + Len(M)
    BY <1>1, <1>3, <1>9, ConcatBytes
<1> DEFINE p3 == 2 + Len(P)
           p4 == p3 + HashLen
           p5 == p4 + 8
           p6 == p5 + 2
<1>11. p3 \in Nat /\ p4 \in Nat /\ p5 \in Nat /\ p6 \in Nat
    BY <1>2, <1>6
<1>12. Len(e3) = p3 /\ Len(e4) = p4 /\ Len(e5) = p5 /\ Len(e6) = p6
    BY <1>6, <1>7, <1>8, <1>9
<1> HIDE DEF p3, p4, p5, p6
<1>13. At(buf, 0, e6) /\ At(buf, 0 + p6, M)
    BY <1>1, <1>3, <1>9, <1>12, AtConcat, ZenonT(30)
<1>14. At(buf, 0, e5) /\ At(buf, 0 + p5, w6)
    BY <1>1, <1>8, <1>12, <1>13, AtConcat DEF e6
<1>15. At(buf, 0, e4) /\ At(buf, 0 + p4, w5)
    BY <1>1, <1>7, <1>12, <1>14, AtConcat DEF e5
<1>16. At(buf, 0, e3) /\ At(buf, 0 + p3, R)
    BY <1>1, <1>6, <1>12, <1>15, AtConcat DEF e4
<1>17. At(buf, 0, e2) /\ At(buf, 0 + 2, P)
    BY <1>1, <1>5, <1>16, AtConcat DEF e3
<1>18. At(buf, 0, w1) /\ At(buf, 0 + 1, w2)
    BY <1>1, <1>2, <1>17, AtConcat DEF e2
<1>19. 0 + 1 = 1 /\ 0 + 2 = 2 /\ 1 + 1 = 2 /\ 0 + p3 = p3 /\ 0 + p4 = p4 /\ 0 + p5 = p5 /\ 0 + p6 = p6
    BY <1>11
<1>20. ReadU(Decoder(buf), 1) = Cursor(buf, 1, v)
    <2>1. Decoder(buf) = Cursor(buf, 0, <<>>)
        BY DEF Decoder, Cursor
    <2>2. At(buf, 0, WriteU(v, 1)) /\ 1 = 0 + 1
        BY <1>18 DEF w1
    <2>3. ReadU(Cursor(buf, 0, <<>>), 1) = Cursor(buf, 1, v)
        BY <1>4, <2>2, ReadByteOK
    <2> QED
        BY <2>1, <2>3
<1>21. ReadU(Cursor(buf, 1, v), 1) = Cursor(buf, 2, Len(c.parents))
    <2>1. At(buf, 1, WriteU(Len(c.parents), 1)) /\ 2 = 1 + 1
        BY <1>18, <1>19 DEF w2
    <2> QED
        BY <1>1, <2>1, ReadByteOK
<1>22. ReadHashes(Cursor(buf, 2, Len(c.parents)), Len(c.parents)) = Cursor(buf, p3, c.parents)
    <2>1. ReadHashes(Cursor(buf, 2, Len(c.parents)), Len(c.parents)) = Cursor(buf, 2 + Len(P), c.parents)
        BY <1>4, <1>17, <1>19, ReadHashesOK DEF P
    <2> QED
        BY <2>1 DEF p3
<1>23. ReadSlice(Cursor(buf, p3, c.parents), HashLen) = Cursor(buf, p4, R)
    <2>1. At(buf, p3, R)
        BY <1>16, <1>19
    <2>2. ReadSlice(Cursor(buf, p3, c.parents), Len(R)) = Cursor(buf, p3 + Len(R), R)
        BY <2>1, ReadSliceOK
    <2> QED
        BY <1>2, <2>2 DEF p4
<1>24. ReadU(Cursor(buf, p4, R), 8) = Cursor(buf, p5, c.timestamp)
    <2>1. At(buf, p4, w5)
        BY <1>15, <1>19
    <2>2. ReadU(Cursor(buf, p4, R), 8) = Cursor(buf, p4 + 8, c.timestamp)
        BY <1>4, <2>1, ReadUOK DEF w5
    <2> QED
        BY <2>2 DEF p5
<1>25. ReadText(Cursor(buf, p5, c.timestamp)) = Cursor(buf, p5 + 2 + Len(M), M)
    <2>1. At(buf, p5, w6) /\ At(buf, p5 + 2, M)
        BY <1>13, <1>14, <1>19 DEF p6
    <2> QED
        BY <1>4, <2>1, ReadTextOK DEF w6, M
<1>26. p5 + 2 + Len(M) = Len(EncodeFields(v, c))
    BY <1>10 DEF p5, p4, p3
<1> QED
    BY <1>20, <1>21, <1>22, <1>23, <1>24, <1>25, <1>26 DEF FieldsRead, p3, p4, p5, P, R, M

\* A payload of version 2, field by field.
LEMMA PayloadParts ==
    ASSUME NEW c, IsCommit(c)
    PROVE  LET E == EncodeFields(2, c)
               w == WriteU(Cardinality(DOMAIN c.index_roots), 2)
               B == EncodeWith(RootParts(c.index_roots))
           IN  /\ E \in Seq(Byte) /\ w \in Seq(Byte) /\ Len(w) = 2 /\ B \in Seq(Byte)
               /\ EncodePayload(c) = (E \o w) \o B
               /\ Cardinality(DOMAIN c.index_roots) \in Nat
<1> DEFINE idx == c.index_roots
           N == Cardinality(DOMAIN idx)
<1>1. IsIndexRoots(idx)
    BY DEF IsCommit
<1>2. N \in Nat /\ Len(SortedKeys(DOMAIN idx)) = N /\ RootParts(idx) \in Seq(Seq(Byte))
    BY <1>1, RootPartsFacts
<1>3. EncodePayload(c) = (EncodeFields(2, c) \o WriteU(N, 2)) \o EncodeWith(RootParts(idx))
    <2>1. EncodePayload(c) = (EncodeFields(2, c) \o WriteU(Len(SortedKeys(DOMAIN idx)), 2))
                             \o EncodeWith(RootParts(idx))
        BY DEF EncodePayload, RootParts, COMMIT_VERSION
    <2> QED
        BY <1>2, <2>1
<1>4. WriteU(N, 2) \in Seq(Byte) /\ Len(WriteU(N, 2)) = 2
    BY <1>2, WriteUFacts
<1>5. EncodeWith(RootParts(idx)) \in Seq(Byte)
    BY <1>2, BufferParts
<1>6. EncodeFields(2, c) \in Seq(Byte)
    BY FieldBytes
<1> QED
    BY <1>2, <1>3, <1>4, <1>5, <1>6

\* decode_payload after the fields that both versions have.
LEMMA DecodeAfterFields ==
    ASSUME NEW c, IsCommit(c), NEW v \in {1, 2}, NEW buf, FieldsRead(buf, v, c), NEW p,
           p = Len(EncodeFields(v, c)), NEW idx,
           idx = IF v = 2
                 THEN LET n == ReadU(Cursor(buf, p, c.message), 2)
                      IN  ReadIndexRoots(n, IF n.ok THEN n.out ELSE 0)
                 ELSE [Cursor(buf, p, c.message) EXCEPT !.out = <<>>],
           idx.ok, idx.out = c.index_roots
    PROVE  DecodePayload(buf) = [ok |-> TRUE, commit |-> c]
<1> DEFINE version == ReadU(Decoder(buf), 1)
           count   == ReadU(version, 1)
           parents == ReadHashes(count, IF count.ok THEN count.out ELSE 0)
           root    == ReadSlice(parents, HashLen)
           time    == ReadU(root, 8)
           msg     == ReadText(time)
           tail    == IF version.ok /\ HasIndexRoots(version.out)
                      THEN LET n == ReadU(msg, 2) IN ReadIndexRoots(n, IF n.ok THEN n.out ELSE 0)
                      ELSE [msg EXCEPT !.out = <<>>]
<1>1. DecodePayload(buf) =
        IF tail.ok /\ version.out \in {COMMIT_VERSION, COMMIT_VERSION_V1}
        THEN [ok |-> TRUE,
              commit |-> [parents |-> parents.out, root_hamt |-> root.out, timestamp |-> time.out,
                          message |-> msg.out, index_roots |-> tail.out]]
        ELSE NotACommit
    BY DEF DecodePayload
<1> DEFINE p3 == 2 + Len(EncodeWith(c.parents))
           p4 == p3 + HashLen
           p5 == p4 + 8
<1>2. version = Cursor(buf, 1, v)
    BY DEF FieldsRead
<1>3. version.ok /\ version.out = v
    BY <1>2, CursorOut
<1> HIDE DEF version
<1>4. count = Cursor(buf, 2, Len(c.parents))
    BY <1>2 DEF FieldsRead
<1>5. count.ok /\ count.out = Len(c.parents)
    BY <1>4, CursorOut
<1> HIDE DEF count
<1>6. parents = Cursor(buf, p3, c.parents)
    BY <1>4, <1>5 DEF FieldsRead
<1>7. parents.out = c.parents
    BY <1>6, CursorOut
<1> HIDE DEF parents
<1>8. root = Cursor(buf, p4, c.root_hamt)
    BY <1>6 DEF FieldsRead
<1>9. root.out = c.root_hamt
    BY <1>8, CursorOut
<1> HIDE DEF root
<1>10. time = Cursor(buf, p5, c.timestamp)
    BY <1>8 DEF FieldsRead
<1>11. time.out = c.timestamp
    BY <1>10, CursorOut
<1> HIDE DEF time
<1>12. msg = Cursor(buf, p, c.message)
    BY <1>10 DEF FieldsRead
<1>13. msg.out = c.message
    BY <1>12, CursorOut
<1> HIDE DEF msg
<1>14. tail = idx
    <2>1. HasIndexRoots(v) <=> v = 2
        BY DEF HasIndexRoots, COMMIT_VERSION
    <2> QED
        BY <1>3, <1>12, <2>1
<1>15. v \in {COMMIT_VERSION, COMMIT_VERSION_V1}
    BY DEF COMMIT_VERSION, COMMIT_VERSION_V1
<1> HIDE DEF tail
<1>16. DecodePayload(buf) =
         [ok |-> TRUE,
          commit |-> [parents |-> c.parents, root_hamt |-> c.root_hamt, timestamp |-> c.timestamp,
                      message |-> c.message, index_roots |-> c.index_roots]]
    BY <1>1, <1>3, <1>7, <1>9, <1>11, <1>13, <1>14, <1>15
<1>17. c = [parents |-> c.parents, root_hamt |-> c.root_hamt, timestamp |-> c.timestamp,
            message |-> c.message, index_roots |-> c.index_roots]
    BY DEF IsCommit
<1> QED
    BY <1>16, <1>17

\* Whatever fits its fields, a commit is decoded as it was encoded.
THEOREM CommitRoundTrip ==
    ASSUME NEW c, IsCommit(c), FitsCommit(c)
    PROVE  DecodePayload(EncodePayload(c)) = [ok |-> TRUE, commit |-> c]
<1> DEFINE idx == c.index_roots
           N == Cardinality(DOMAIN idx)
           E == EncodeFields(2, c)
           w == WriteU(N, 2)
           B == EncodeWith(RootParts(idx))
           buf == EncodePayload(c)
           p == Len(E)
<1>1. /\ E \in Seq(Byte) /\ w \in Seq(Byte) /\ Len(w) = 2 /\ B \in Seq(Byte)
      /\ buf = (E \o w) \o B /\ N \in Nat
    BY PayloadParts
<1>2. /\ FitsU(Len(c.parents), 1) /\ FitsU(Len(c.message), 2) /\ FitsU(N, 2)
      /\ \A n \in DOMAIN idx : FitsU(Len(n), 2)
    BY DEF FitsCommit
<1>3. IsIndexRoots(idx)
    BY DEF IsCommit
<1> HIDE DEF E, w, B, buf, N
<1>4. E \o w \in Seq(Byte) /\ Len(E \o w) = p + 2 /\ p \in Nat
    <2>1. E \in Seq(Byte) /\ w \in Seq(Byte)
        BY <1>1
    <2>2. E \o w \in Seq(Byte) /\ Len(E \o w) = Len(E) + Len(w) /\ Len(E) \in Nat
        BY <2>1, ConcatBytes, Zenon
    <2>3. Len(w) = 2
        BY <1>1
    <2> QED
        BY <2>2, <2>3, Zenon
<1> HIDE DEF p
<1>5. buf \in Seq(Byte)
    BY <1>1, <1>4, ConcatBytes
<1>6. At(buf, 0, buf)
    BY <1>5, AtStart
<1>7. At(buf, 0, E \o w) /\ At(buf, 0 + (p + 2), B)
    BY <1>1, <1>4, <1>6, AtConcat
<1>8. At(buf, 0, E) /\ At(buf, 0 + p, w)
    BY <1>1, <1>7, AtConcat DEF p
<1>9. 0 + p = p /\ 0 + (p + 2) = p + 2
    BY <1>4
<1>10. FieldsRead(buf, 2, c)
    <2>1. At(buf, 0, EncodeFields(2, c))
        BY <1>8 DEF E
    <2> QED
        BY <1>2, <2>1, ReadFields
<1> DEFINE m == Cursor(buf, p, c.message)
           q == p + 2 + Len(B)
<1>11. ReadU(m, 2) = Cursor(buf, p + 2, N)
    <2>1. At(buf, p, WriteU(N, 2))
        BY <1>8, <1>9 DEF w
    <2> QED
        BY <1>1, <1>2, <2>1, ReadUOK
<1>12. ReadIndexRoots(Cursor(buf, p + 2, N), N) = Cursor(buf, q, idx)
    <2>1. At(buf, p + 2, EncodeWith(RootParts(idx)))
        BY <1>7, <1>9 DEF B
    <2> QED
        BY <1>2, <1>3, <2>1, ReadIndexRootsOK DEF B, N
<1>13. Cursor(buf, p + 2, N).ok /\ Cursor(buf, p + 2, N).out = N
    BY CursorOut
<1>14. Cursor(buf, q, idx).ok /\ Cursor(buf, q, idx).out = idx
    BY CursorOut
<1> DEFINE tail == IF 2 = 2
                   THEN LET n == ReadU(m, 2) IN ReadIndexRoots(n, IF n.ok THEN n.out ELSE 0)
                   ELSE [m EXCEPT !.out = <<>>]
<1>15. tail = Cursor(buf, q, idx)
    BY <1>11, <1>12, <1>13
<1>16. tail.ok /\ tail.out = c.index_roots
    BY <1>14, <1>15
<1> HIDE DEF q
<1>17. p = Len(EncodeFields(2, c))
    BY DEF p, E
<1>18. DecodePayload(buf) = [ok |-> TRUE, commit |-> c]
    BY <1>10, <1>16, <1>17, DecodeAfterFields
<1> QED
    BY <1>18 DEF buf

\* So is a commit of version 1.
LEMMA LegacyRoundTrip ==
    ASSUME NEW c, IsCommit(c), c.index_roots = <<>>, FitsCommit(c)
    PROVE  DecodePayload(EncodePayloadV1(c)) = [ok |-> TRUE, commit |-> c]
<1> DEFINE buf == EncodeFields(1, c)
           p == Len(buf)
           m == Cursor(buf, p, c.message)
<1>1. buf \in Seq(Byte) /\ EncodePayloadV1(c) = buf
    BY FieldBytes DEF EncodePayloadV1, COMMIT_VERSION_V1
<1>2. At(buf, 0, buf)
    BY <1>1, AtStart
<1>3. FieldsRead(buf, 1, c)
    BY <1>2, ReadFields DEF FitsCommit
<1>4. [m EXCEPT !.out = <<>>] = Cursor(buf, p, <<>>)
    BY CursorOut
<1>5. Cursor(buf, p, <<>>).ok /\ Cursor(buf, p, <<>>).out = <<>>
    BY CursorOut
<1> DEFINE tail == IF 1 = 2
                   THEN LET n == ReadU(m, 2) IN ReadIndexRoots(n, IF n.ok THEN n.out ELSE 0)
                   ELSE [m EXCEPT !.out = <<>>]
<1>6. tail = Cursor(buf, p, <<>>)
    BY <1>4
<1>7. tail.ok /\ tail.out = c.index_roots
    BY <1>5, <1>6
<1>8. DecodePayload(buf) = [ok |-> TRUE, commit |-> c]
    BY <1>3, <1>7, DecodeAfterFields, ZenonT(30)
<1> QED
    BY <1>1, <1>8

-----------------------------------------------------------------------------
(* Nodes *)

\* A bitmap node that fits is decoded as it was encoded.
LEMMA BitmapRoundTrip ==
    ASSUME NEW n \in Node, n.type = "bitmap", FitsNode(n)
    PROVE  DecodeNode("bitmap", EncodeNode(n)) = [ok |-> TRUE, node |-> n]
<1>1. /\ n = [type |-> "bitmap", bitmap |-> n.bitmap, children |-> n.children]
      /\ n.bitmap \in Nat /\ FitsU(n.bitmap, 4) /\ n.children \in Seq(Hash)
    BY DEF Node
<1>2. FitsU(Len(n.children), 1) /\ Len(n.children) \in Nat
    BY <1>1 DEF FitsNode
<1> DEFINE w1 == WriteU(n.bitmap, 4)
           w2 == WriteU(Len(n.children), 1)
           P  == EncodeWith(n.children)
           buf == EncodeNode(n)
<1>3. buf = (w1 \o w2) \o P
    BY DEF EncodeNode
<1>4. w1 \in Seq(Byte) /\ Len(w1) = 4 /\ w2 \in Seq(Byte) /\ Len(w2) = 1
    BY <1>1, <1>2, WriteUFacts
<1>5. P \in Seq(Byte)
    <2>1. n.children \in Seq(Seq(Byte))
        BY <1>1, HashBytes
    <2> QED
        BY <2>1, BufferParts
<1> HIDE DEF w1, w2, P, buf
<1>6. w1 \o w2 \in Seq(Byte) /\ Len(w1 \o w2) = 5
    <2>1. w1 \o w2 \in Seq(Byte) /\ Len(w1 \o w2) = Len(w1) + Len(w2)
        BY <1>4, ConcatBytes
    <2> QED
        BY <1>4, <2>1
<1>7. buf \in Seq(Byte)
    BY <1>3, <1>5, <1>6, ConcatBytes
<1>8. At(buf, 0, buf)
    BY <1>7, AtStart
<1>9. At(buf, 0, w1 \o w2) /\ At(buf, 0 + 5, P)
    BY <1>3, <1>5, <1>6, <1>8, AtConcat
<1>10. At(buf, 0, w1) /\ At(buf, 0 + 4, w2)
    BY <1>4, <1>9, AtConcat
<1>11. At(buf, 4, w2) /\ At(buf, 5, P) /\ 5 = 4 + 1 /\ 0 + 4 = 4
    BY <1>9, <1>10
<1>12. Decoder(buf) = Cursor(buf, 0, <<>>)
    BY DEF Decoder, Cursor
<1> DEFINE bitmap   == ReadU(Decoder(buf), 4)
           count    == ReadU(bitmap, 1)
           children == ReadHashes(count, IF count.ok THEN count.out ELSE 0)
<1>13. bitmap = Cursor(buf, 4, n.bitmap)
    <2> DEFINE z == 0
    <2>1. z + 4 = 4 /\ At(buf, z, WriteU(n.bitmap, 4)) /\ Decoder(buf) = Cursor(buf, z, <<>>)
        BY <1>10, <1>12 DEF w1
    <2> HIDE DEF z
    <2>2. ReadU(Cursor(buf, z, <<>>), 4) = Cursor(buf, z + 4, n.bitmap)
        BY <1>1, <2>1, ReadUOK
    <2> QED
        BY <2>1, <2>2
<1>14. bitmap.out = n.bitmap
    BY <1>13, CursorOut
<1> HIDE DEF bitmap
<1>15. count = Cursor(buf, 5, Len(n.children))
    BY <1>2, <1>11, <1>13, ReadByteOK DEF w2
<1>16. count.ok /\ count.out = Len(n.children)
    BY <1>15, CursorOut
<1> HIDE DEF count
<1>17. children = Cursor(buf, 5 + Len(P), n.children)
    <2>1. children = ReadHashes(Cursor(buf, 5, Len(n.children)), Len(n.children))
        BY <1>15, <1>16
    <2>2. At(buf, 5, EncodeWith(n.children))
        BY <1>11 DEF P
    <2> QED
        BY <1>1, <2>1, <2>2, ReadHashesOK DEF P
<1>18. children.ok /\ children.out = n.children
    BY <1>17, CursorOut
<1>19. DecodeNode("bitmap", buf) =
         [ok |-> TRUE, node |-> [type |-> "bitmap", bitmap |-> bitmap.out, children |-> children.out]]
    BY <1>18 DEF DecodeNode, bitmap, count
<1> HIDE DEF children
<1>20. DecodeNode("bitmap", buf) =
         [ok |-> TRUE, node |-> [type |-> "bitmap", bitmap |-> n.bitmap, children |-> n.children]]
    BY <1>14, <1>18, <1>19
<1> QED
    BY <1>1, <1>20 DEF buf

\* And so is a leaf.
LEMMA LeafRoundTrip ==
    ASSUME NEW n \in Node, n.type = "leaf", FitsNode(n)
    PROVE  DecodeNode("leaf", EncodeNode(n)) = [ok |-> TRUE, node |-> n]
<1>1. /\ n = [type |-> "leaf", key |-> n.key, value |-> n.value]
      /\ n.key \in Seq(Byte) /\ n.value \in Seq(Byte) /\ Len(n.key) \in Nat /\ Len(n.value) \in Nat
    BY DEF Node
<1>2. FitsU(Len(n.key), 2) /\ FitsU(Len(n.value), 4)
    BY DEF FitsNode
<1> DEFINE w1 == WriteU(Len(n.key), 2)
           K  == n.key
           w3 == WriteU(Len(n.value), 4)
           V  == n.value
           buf == EncodeNode(n)
           e2 == w1 \o K
           e3 == e2 \o w3
<1>3. buf = e3 \o V
    BY DEF EncodeNode
<1>4. w1 \in Seq(Byte) /\ Len(w1) = 2 /\ w3 \in Seq(Byte) /\ Len(w3) = 4
    BY <1>1, WriteUFacts
<1> DEFINE p2 == 2 + Len(K)
           p3 == p2 + 4
<1>5. K \in Seq(Byte) /\ V \in Seq(Byte) /\ p2 \in Nat /\ p3 \in Nat
    BY <1>1
<1> HIDE DEF w1, w3, buf, K, V
<1>6. e2 \in Seq(Byte) /\ Len(e2) = p2
    BY <1>4, <1>5, ConcatBytes
<1> HIDE DEF e2, p2
<1>7. e3 \in Seq(Byte) /\ Len(e3) = p3
    BY <1>4, <1>6, ConcatBytes
<1> HIDE DEF e3, p3
<1>8. buf \in Seq(Byte)
    BY <1>3, <1>5, <1>7, ConcatBytes
<1>9. At(buf, 0, buf)
    BY <1>8, AtStart
<1>10. At(buf, 0, e3) /\ At(buf, 0 + p3, V)
    BY <1>3, <1>5, <1>7, <1>9, AtConcat
<1>11. At(buf, 0, e2) /\ At(buf, 0 + p2, w3)
    BY <1>4, <1>6, <1>10, AtConcat DEF e3
<1>12. At(buf, 0, w1) /\ At(buf, 0 + 2, K)
    BY <1>4, <1>5, <1>11, AtConcat DEF e2
<1>13. At(buf, 2, K) /\ At(buf, p2, w3) /\ At(buf, p3, V)
    BY <1>5, <1>10, <1>11, <1>12
<1> DEFINE klen  == ReadU(Decoder(buf), 2)
           key   == ReadSlice(klen, IF klen.ok THEN klen.out ELSE 0)
           vlen  == ReadU(key, 4)
           value == ReadSlice(vlen, IF vlen.ok THEN vlen.out ELSE 0)
<1>14. klen = Cursor(buf, 2, Len(n.key))
    <2> DEFINE z == 0
    <2>1. z + 2 = 2 /\ At(buf, z, WriteU(Len(n.key), 2)) /\ Decoder(buf) = Cursor(buf, z, <<>>)
        BY <1>12 DEF w1, Decoder, Cursor
    <2> HIDE DEF z
    <2>2. ReadU(Cursor(buf, z, <<>>), 2) = Cursor(buf, z + 2, Len(n.key))
        BY <1>1, <1>2, <2>1, ReadUOK
    <2> QED
        BY <2>1, <2>2
<1>15. klen.ok /\ klen.out = Len(n.key)
    BY <1>14, CursorOut
<1> HIDE DEF klen
<1>16. key = Cursor(buf, p2, n.key)
    <2>1. key = ReadSlice(Cursor(buf, 2, Len(K)), Len(K))
        BY <1>14, <1>15 DEF K
    <2>2. ReadSlice(Cursor(buf, 2, Len(K)), Len(K)) = Cursor(buf, 2 + Len(K), K)
        BY <1>13, ReadSliceOK
    <2> QED
        BY <2>1, <2>2 DEF p2, K
<1>17. key.out = n.key
    BY <1>16, CursorOut
<1> HIDE DEF key
<1>18. vlen = Cursor(buf, p3, Len(n.value))
    <2>1. At(buf, p2, WriteU(Len(n.value), 4))
        BY <1>13 DEF w3
    <2>2. ReadU(Cursor(buf, p2, n.key), 4) = Cursor(buf, p2 + 4, Len(n.value))
        BY <1>1, <1>2, <2>1, ReadUOK
    <2> QED
        BY <1>16, <2>2 DEF p3
<1>19. vlen.ok /\ vlen.out = Len(n.value)
    BY <1>18, CursorOut
<1> HIDE DEF vlen
<1>20. value = Cursor(buf, p3 + Len(V), n.value)
    <2>1. value = ReadSlice(Cursor(buf, p3, Len(V)), Len(V))
        BY <1>18, <1>19 DEF V
    <2>2. ReadSlice(Cursor(buf, p3, Len(V)), Len(V)) = Cursor(buf, p3 + Len(V), V)
        BY <1>13, ReadSliceOK
    <2> QED
        BY <2>1, <2>2 DEF V
<1>21. value.ok /\ value.out = n.value
    BY <1>20, CursorOut
<1>22. DecodeNode("leaf", buf) =
         [ok |-> TRUE, node |-> [type |-> "leaf", key |-> key.out, value |-> value.out]]
    BY <1>21 DEF DecodeNode, klen, key, vlen
<1> HIDE DEF value
<1>23. DecodeNode("leaf", buf) =
         [ok |-> TRUE, node |-> [type |-> "leaf", key |-> n.key, value |-> n.value]]
    BY <1>17, <1>21, <1>22
<1> QED
    BY <1>1, <1>23 DEF buf

-----------------------------------------------------------------------------
(* The commit cache *)

\* The end of a sequence.
LEMMA SuffixOK ==
    ASSUME NEW T, NEW c \in Seq(T), NEW m \in Int, 1 =< m, m =< Len(c) + 1
    PROVE  /\ SubSeq(c, m, Len(c)) \in Seq(T)
           /\ Len(SubSeq(c, m, Len(c))) = Len(c) - m + 1
           /\ \A i \in 1 .. Len(c) - m + 1 : SubSeq(c, m, Len(c))[i] = c[m + i - 1]
    OBVIOUS

\* A sequence is one of its own members.
IsCache(c) == c \in Seq(Range(c))

\* Whatever its members are taken from.
LEMMA CacheOfSeq == ASSUME NEW T, NEW c \in Seq(T) PROVE IsCache(c)
<1>1. c \in [1..Len(c) -> T] /\ Len(c) \in Nat
    BY LenProperties
<1>2. c \in [1..Len(c) -> Range(c)]
    BY <1>1 DEF Range
<1>3. Seq(Range(c)) = UNION {[1..n -> Range(c)] : n \in Nat}
    BY SeqDef
<1> QED
    BY <1>1, <1>2, <1>3 DEF IsCache

\* What LruMap::insert leaves behind: the new binding, and old ones of other keys.
LruFacts(c, k, v, d) ==
    /\ IsCache(d)
    /\ \A i \in DOMAIN d : \/ d[i] = [key |-> k, val |-> v]
                           \/ d[i].key # k /\ \E j \in DOMAIN c : d[i] = c[j]

\* LruInsert does so.
LEMMA LruInsertOK ==
    ASSUME NEW c, IsCache(c), NEW cap \in Nat \ {0}, NEW k, NEW v
    PROVE  LruFacts(c, k, v, LruInsert(c, cap, k, v))
<1> DEFINE T == Range(c)
           new == [key |-> k, val |-> v]
           d == LruInsert(c, cap, k, v)
<1>1. c \in Seq(T) /\ DOMAIN c = 1..Len(c) /\ Len(c) \in Nat /\ \A i \in 1..Len(c) : c[i] \in T
    <2>1. c \in Seq(T)
        BY DEF IsCache
    <2> QED
        BY <2>1, LenProperties, ElementOfSeq
<1>2. CASE LruHas(c, k)
    <2>1. d = [i \in 1..Len(c) |-> IF c[i].key = k THEN new ELSE c[i]]
        BY <1>1, <1>2 DEF LruInsert
    <2>2. d \in [1..Len(c) -> T \cup {new}]
        BY <1>1, <2>1
    <2>3. Seq(T \cup {new}) = UNION {[1..n -> T \cup {new}] : n \in Nat}
        BY SeqDef
    <2>4. DOMAIN d = 1..Len(c) /\ IsCache(d)
        <3> HIDE DEF d, T, new
        <3>1. d \in Seq(T \cup {new})
            BY <1>1, <2>2, <2>3
        <3> QED
            BY <2>2, <3>1, CacheOfSeq
    <2>5. \A i \in DOMAIN d : d[i] = new \/ (d[i].key # k /\ \E j \in DOMAIN c : d[i] = c[j])
        <3> SUFFICES ASSUME NEW i \in 1..Len(c)
                     PROVE  d[i] = new \/ (d[i].key # k /\ \E j \in DOMAIN c : d[i] = c[j])
            BY <2>4
        <3>1. d[i] = IF c[i].key = k THEN new ELSE c[i]
            BY <2>1
        <3>2. i \in DOMAIN c
            BY <1>1
        <3> HIDE DEF d, new
        <3> QED
            BY <3>1, <3>2
    <2> QED
        BY <2>4, <2>5 DEF LruFacts
<1>3. CASE ~LruHas(c, k)
    <2> DEFINE keep == IF Len(c) < cap THEN Len(c) ELSE cap - 1
               m == Len(c) - keep + 1
               e == SubSeq(c, m, Len(c))
    <2>1. d = Append(e, new)
        BY <1>3 DEF LruInsert
    <2>2. keep \in Nat /\ keep =< Len(c)
        BY <1>1
    <2> HIDE DEF keep
    <2>3. m \in Int /\ m >= 1 /\ Len(c) - m + 1 = keep /\ m =< Len(c) + 1
        BY <1>1, <2>2
    <2> HIDE DEF m, T
    <2>4. e \in Seq(T) /\ Len(e) = keep /\ \A i \in 1..keep : e[i] = c[m + i - 1]
        BY <1>1, <2>2, <2>3, SuffixOK
    <2> HIDE DEF e, new
    <2>5. e \in Seq(T \cup {new}) /\ new \in T \cup {new}
        <3>1. e \in Seq(T)
            BY <2>4
        <3>2. Seq(T) \subseteq Seq(T \cup {new})
            OBVIOUS
        <3> QED
            BY <3>1, <3>2
    <2>6. /\ d \in Seq(T \cup {new}) /\ Len(d) = keep + 1 /\ d[keep + 1] = new
          /\ \A i \in 1..keep : d[i] = e[i]
        BY <2>1, <2>4, <2>5, AppendProperties
    <2> HIDE DEF d
    <2>7. DOMAIN d = 1..(keep + 1) /\ IsCache(d)
        BY <2>6, LenProperties, CacheOfSeq
    <2>8. \A i \in 1..keep : d[i] = c[m + i - 1] /\ m + i - 1 \in DOMAIN c
        <3>1. \A i \in 1..keep : m + i - 1 \in 1..Len(c)
            BY <1>1, <2>2, <2>3
        <3>2. \A i \in 1..keep : d[i] = c[m + i - 1]
            BY <2>4, <2>6
        <3> QED
            BY <1>1, <3>1, <3>2
    <2>9. \A j \in DOMAIN c : c[j].key # k
        BY <1>3 DEF LruHas
    <2>10. \A i \in DOMAIN d : i \in 1..keep \/ i = keep + 1
        BY <2>2, <2>7
    <2> QED
        BY <2>6, <2>7, <2>8, <2>9, <2>10 DEF LruFacts, d, new
<1> QED
    BY <1>2, <1>3

\* A hit returns the value of a binding of the key.
LEMMA LruGetOK ==
    ASSUME NEW c, NEW k, LruHas(c, k)
    PROVE  \E i \in DOMAIN c : c[i].key = k /\ LruGet(c, k) = c[i].val
    BY DEF LruHas, LruGet

\* A capacity is at least 1, as in LruMap::new.
LEMMA LruCapOK == \A n \in Nat : LruCap(n) \in Nat \ {0}
    BY DEF LruCap

-----------------------------------------------------------------------------
(* The timestamps of commits *)

\* The counter stays within the number of calls of some time of the clock, so
\* that every timestamp is one that fits a u64.
TimesInv ==
    /\ \E c \in Clock : TS =< c + Len(issued)
    /\ Len(issued) =< MaxCalls
    /\ \A t \in Thread : call[t].pc = "got" => call[t].n \in Times

\* What lies below a time plus the number of calls is one of the Times.
LEMMA TimesOK ==
    ASSUME NEW c \in Clock, NEW n \in Nat, n =< c + MaxCalls
    PROVE  n \in Times
<1>1. c \in Nat /\ MaxCalls \in Nat
    BY ClockAssumption
<1>2. n \in 0 .. c + MaxCalls
    BY <1>1
<1> QED
    BY <1>2 DEF Times

\* The clock itself shows one of the Times.
LEMMA ClockTimes == Clock \subseteq Times /\ Times \subseteq Nat
<1>1. MaxCalls \in Nat /\ Clock \subseteq Nat
    BY ClockAssumption
<1>2. ASSUME NEW c \in Clock PROVE c \in Times
    BY <1>1, TimesOK
<1>3. ASSUME NEW n \in Times PROVE n \in Nat
    BY <1>1 DEF Times
<1> QED
    BY <1>2, <1>3

\* Every step of next_timestamp keeps the counter there.
LEMMA TimesStep == TsInv /\ TimesInv /\ [TsNext]_tsVars => TimesInv'
<1> SUFFICES ASSUME TsInv, TimesInv, TsNext \/ UNCHANGED tsVars PROVE TimesInv'
    BY DEF tsVars
<1>0. /\ MaxCalls \in Nat /\ TS \in Nat /\ issued \in Seq(Issue) /\ Len(issued) \in Nat
      /\ Clock \subseteq Nat /\ clock \in Clock /\ call \in [Thread -> Call] /\ RaceInv
      /\ \A c \in Clock : c \in Nat /\ c > MaxCalls
    BY ClockAssumption DEF TsInv, TsTypeOK
<1>a. PICK c \in Clock : TS =< c + Len(issued)
    BY DEF TimesInv
<1>b. c \in Nat /\ c > 0
    BY <1>0
<1>c. Len(issued) =< MaxCalls /\ \A t \in Thread : call[t].pc = "got" => call[t].n \in Times
    BY DEF TimesInv
<1>1. ASSUME NEW t \in Thread, FetchAdd(t) PROVE TimesInv'
    <2>1. TS' = TS + 1 /\ Taken < MaxCalls
        BY <1>1 DEF FetchAdd
    <2>2. CASE TS = 0
        <3>1. issued' = issued /\ call' = [call EXCEPT ![t] = [pc |-> "first", n |-> 0, after |-> Len(issued)]]
            BY <1>1, <2>2 DEF FetchAdd
        <3>2. \A u \in Thread : call'[u].pc = "got" => call'[u] = call[u]
            BY <1>0, <3>1
        <3>3. TS' =< c + Len(issued)
            BY <1>0, <1>b, <2>1, <2>2
        <3> QED
            BY <1>c, <3>1, <3>2, <3>3 DEF TimesInv
    <2>3. CASE TS # 0
        <3>1. /\ issued' = Append(issued, [n |-> TS, after |-> Len(issued)])
              /\ call' = [call EXCEPT ![t] = [pc |-> "got", n |-> TS, after |-> Len(issued)]]
            BY <1>1, <2>3 DEF FetchAdd, Return
        <3>2. Len(issued') = Len(issued) + 1
            BY <1>0, <3>1
        <3>3. Len(issued) < MaxCalls
            BY <1>0, <2>1 DEF Taken
        <3>4. TS \in Times
            <4>1. TS =< c + MaxCalls
                BY <1>0, <1>a, <1>b, <1>c
            <4> QED
                BY <1>0, <4>1, TimesOK
        <3>5. \A u \in Thread : call'[u].pc = "got" => call'[u].n \in Times
            BY <1>0, <1>c, <3>1, <3>4
        <3>6. TS' =< c + Len(issued') /\ Len(issued') =< MaxCalls
            BY <1>0, <1>a, <1>b, <2>1, <3>2, <3>3
        <3> QED
            BY <3>5, <3>6 DEF TimesInv
    <2> QED
        BY <2>2, <2>3
<1>2. ASSUME NEW t \in Thread, ReadClock(t) PROVE TimesInv'
    <2>1. UNCHANGED <<TS, issued>> /\ call' = [call EXCEPT ![t].pc = "store", ![t].n = clock]
        BY <1>2 DEF ReadClock
    <2>2. \A u \in Thread : call'[u].pc = "got" => call'[u] = call[u]
        BY <1>0, <2>1 DEF Call
    <2> QED
        BY <1>a, <1>c, <2>1, <2>2 DEF TimesInv
<1>3. ASSUME NEW t \in Thread, StoreNext(t) PROVE TimesInv'
    <2>1. /\ call[t].pc = "store" /\ TS' = call[t].n + 1
          /\ issued' = Append(issued, [n |-> call[t].n, after |-> call[t].after])
          /\ call' = [call EXCEPT ![t] = [pc |-> "got", n |-> call[t].n, after |-> call[t].after]]
        BY <1>3 DEF StoreNext, Return
    <2>2. call[t].n \in Clock /\ TS = Len(issued) + 1 /\ TS =< MaxCalls
        BY <1>0, <2>1 DEF RaceInv, Pending
    <2>3. Len(issued') = Len(issued) + 1
        BY <1>0, <2>1
    <2>4. call[t].n \in Nat /\ call[t].n \in Times
        BY <1>0, <2>2, ClockTimes
    <2>5. \A u \in Thread : call'[u].pc = "got" => call'[u].n \in Times
        BY <1>0, <1>c, <2>1, <2>4
    <2>6. TS' =< call[t].n + Len(issued') /\ Len(issued') =< MaxCalls
        BY <1>0, <2>1, <2>2, <2>3, <2>4
    <2> QED
        BY <2>2, <2>5, <2>6 DEF TimesInv
<1>4. ASSUME NEW t \in Thread, Done(t) PROVE TimesInv'
    <2>1. UNCHANGED <<TS, issued>> /\ call' = [call EXCEPT ![t] = NoCall]
        BY <1>4 DEF Done
    <2>2. \A u \in Thread : call'[u].pc = "got" => call'[u] = call[u]
        BY <1>0, <2>1 DEF NoCall
    <2> QED
        BY <1>a, <1>c, <2>1, <2>2 DEF TimesInv
<1>5. CASE Tick
    BY <1>a, <1>c, <1>5 DEF Tick, TimesInv
<1>6. CASE UNCHANGED tsVars
    BY <1>a, <1>c, <1>6 DEF tsVars, TimesInv
<1> QED
    BY <1>1, <1>2, <1>3, <1>4, <1>5, <1>6 DEF TsNext

-----------------------------------------------------------------------------
(* What is stored, cached and asked for *)

\* The payload of a commit: of version 2, or of version 1 for the old one.
MadeAs(c, payload) ==
    \/ c \in CommitsAskedFor /\ payload = EncodePayload(c)
    \/ c = Legacy /\ payload = EncodePayloadV1(Legacy)

\* A record of a type, what it stands for and its bytes.
IsRecord(type, val, payload) ==
    \/ type = "commit" /\ MadeAs(val, payload)
    \/ val \in Nodes /\ type = val.type /\ payload = EncodeNode(val)

\* What was stored under a hash is what the store has under it.
RecordOK(t, h) ==
    /\ h \in HashSpace
    /\ cas[t][h].payload \in DOMAIN hashOf /\ hashOf[cas[t][h].payload] = h
    /\ cas[t][h].type = made[t][h].type
    /\ IsRecord(made[t][h].type, made[t][h].val, cas[t][h].payload)

\* Different payloads have different hashes, and every record is as it was made.
RecordsInv ==
    /\ \A p, q \in DOMAIN hashOf : hashOf[p] = hashOf[q] => p = q
    /\ DOMAIN cas = Thread /\ DOMAIN made = Thread
    /\ \A t \in Thread : DOMAIN made[t] = DOMAIN cas[t]
    /\ \A t \in Thread : \A h \in DOMAIN cas[t] : RecordOK(t, h)

\* An entry of the cache is of a commit of the store, and is that commit if it
\* fits its fields.
EntryOK(t, e) ==
    /\ e.key \in DOMAIN made[t] /\ made[t][e.key].type = "commit"
    /\ FitsCommit(made[t][e.key].val) => e.val = made[t][e.key].val

CacheInv ==
    /\ DOMAIN ccache = Thread /\ DOMAIN ccap = Thread
    /\ \A t \in Thread : IsCache(ccache[t]) /\ ccap[t] \in Nat \ {0}
    /\ \A t \in Thread : \A i \in DOMAIN ccache[t] : EntryOK(t, ccache[t][i])

\* A call of commit_with_root under way has arguments that were given to it.
ArgsInv ==
    /\ DOMAIN args = Thread
    /\ \A t \in Thread : call[t].pc # "idle" =>
          \E i \in RootInputs : \E h \in HashSpace :
              args[t] = [parents |-> Repeated(i.count, h), message |-> i.message]

LoadInv == RecordsInv /\ CacheInv /\ ArgsInv

-----------------------------------------------------------------------------

\* The arguments of a commit make a commit.
LEMMA ArgsMakeCommit ==
    ASSUME NEW k \in Nat, NEW h \in HashSpace, NEW n \in Times, NEW m \in Text,
           NEW idx, IsIndexRoots(idx)
    PROVE  IsCommit(Commit(Repeated(k, h), n, m, idx))
<1> DEFINE par == Repeated(k, h)
           c   == Commit(par, n, m, idx)
<1>1. par \in Seq(Hash)
    <2>1. h \in Hash
        BY CommitsAssumption
    <2>2. par \in [1..k -> Hash]
        BY <2>1 DEF Repeated
    <2>3. Seq(Hash) = UNION {[1..l -> Hash] : l \in Nat}
        BY SeqDef
    <2> QED
        BY <2>2, <2>3
<1>2. ZERO \in Hash
    BY CodecAssumption DEF ZERO, Hash, Byte
<1>3. n \in Nat /\ FitsU(n, 8)
    BY CommitsAssumption, ClockTimes
<1> HIDE DEF par
<1>4. c = [parents |-> par, root_hamt |-> ZERO, timestamp |-> n, message |-> m, index_roots |-> idx]
    BY DEF Commit
<1> HIDE DEF c
<1>5. c.parents = par /\ c.root_hamt = ZERO /\ c.timestamp = n /\ c.message = m /\ c.index_roots = idx
    BY <1>4
<1> QED
    BY <1>1, <1>2, <1>3, <1>4, <1>5 DEF IsCommit, par, c

\* A BTreeMap without keys.
LEMMA NoIndexRoots == IsIndexRoots(<<>>)
<1>1. DOMAIN <<>> = {}
    OBVIOUS
<1>2. IsFiniteSet({})
    BY FS_EmptySet
<1>3. <<>> = [n \in DOMAIN <<>> |-> <<>>[n]]
    OBVIOUS
<1> QED
    BY <1>1, <1>2, <1>3 DEF IsIndexRoots

\* What was asked for is a commit.
LEMMA AskedForIsCommit == ASSUME NEW c \in CommitsAskedFor PROVE IsCommit(c)
<1>0. \A i \in RootInputs \cup IndexInputs : i.count \in Nat /\ i.message \in Text
    BY CommitsAssumption
<1>1. CASE c \in RootCommits
    <2>1. PICK i \in RootInputs, h \in HashSpace, n \in Times :
              c = Commit(Repeated(i.count, h), n, i.message, <<>>)
        BY <1>1 DEF RootCommits
    <2> QED
        BY <1>0, <2>1, ArgsMakeCommit, NoIndexRoots
<1>2. CASE c \in IndexCommits
    <2>1. PICK i \in IndexInputs, h \in HashSpace, n \in Times :
              c = Commit(Repeated(i.count, h), n, i.message, i.index_roots)
        BY <1>2 DEF IndexCommits
    <2>2. IsIndexRoots(i.index_roots)
        BY CommitsAssumption
    <2> QED
        BY <1>0, <2>1, <2>2, ArgsMakeCommit
<1> QED
    BY <1>1, <1>2 DEF CommitsAskedFor

\* So is the one that an old version wrote.
LEMMA LegacyIsCommit == IsCommit(Legacy) /\ Legacy.index_roots = <<>>
<1>1. /\ Legacy = Commit(Legacy.parents, Legacy.timestamp, Legacy.message, <<>>)
      /\ Legacy.parents \in Seq(Hash) /\ Legacy.message \in Text /\ Legacy.timestamp \in Nat
      /\ FitsU(Legacy.timestamp, 8)
    BY CommitsAssumption
<1>2. ZERO \in Hash
    BY CodecAssumption DEF ZERO, Hash, Byte
<1>3. /\ Legacy = [parents |-> Legacy.parents, root_hamt |-> ZERO, timestamp |-> Legacy.timestamp,
                   message |-> Legacy.message, index_roots |-> <<>>]
      /\ Legacy.root_hamt = ZERO /\ Legacy.index_roots = <<>>
    BY <1>1 DEF Commit
<1> QED
    BY <1>1, <1>2, <1>3, NoIndexRoots DEF IsCommit

\* A commit that fits its fields is decoded as what it was made from.
LEMMA MadeIsDecoded ==
    ASSUME NEW c, NEW p, MadeAs(c, p), FitsCommit(c)
    PROVE  DecodePayload(p) = [ok |-> TRUE, commit |-> c]
<1>1. CASE c \in CommitsAskedFor /\ p = EncodePayload(c)
    BY <1>1, AskedForIsCommit, CommitRoundTrip
<1>2. CASE c = Legacy /\ p = EncodePayloadV1(Legacy)
    BY <1>2, LegacyIsCommit, LegacyRoundTrip
<1> QED
    BY <1>1, <1>2 DEF MadeAs

\* No node is of the type of commits.
LEMMA NodeTypes == ASSUME NEW n \in Nodes PROVE n.type \in {"bitmap", "leaf"}
    BY CommitsAssumption DEF Node

\* The bytes of a record determine its type.
LEMMA SameType ==
    ASSUME TypesApart, NEW p, NEW s, NEW v, IsRecord(s, v, p), NEW r, NEW w, IsRecord(r, w, p)
    PROVE  s = r
<1>1. ASSUME NEW n \in Nodes, NEW c, MadeAs(c, EncodeNode(n)) PROVE FALSE
    BY <1>1 DEF MadeAs, TypesApart
<1>2. \A n, m \in Nodes : EncodeNode(n) = EncodeNode(m) => n.type = m.type
    BY DEF TypesApart
<1> QED
    BY <1>1, <1>2 DEF IsRecord

-----------------------------------------------------------------------------

\* put and what it is remembered as: the hash was of a record of the same type,
\* or new, and every record is as it was made afterwards.
LEMMA PutKeeps ==
    ASSUME TypesApart, RecordsInv, NEW t \in Thread, NEW type, NEW val, NEW payload,
           IsRecord(type, val, payload), NEW h \in HashSpace,
           Put(t, type, payload, h), Remember(t, h, type, val)
    PROVE  /\ RecordsInv'
           /\ made'[t][h] = [type |-> type, val |-> val] /\ h \in DOMAIN made'[t]
           /\ \A u \in Thread : \A x \in DOMAIN made[u] :
                 /\ x \in DOMAIN made'[u]
                 /\ u # t \/ x # h => made'[u][x] = made[u][x]
                 /\ u = t /\ x = h => made[u][x].type = type
<1>1. /\ IF payload \in DOMAIN hashOf THEN h = hashOf[payload] ELSE h \notin Range(hashOf)
      /\ hashOf' = [p \in DOMAIN hashOf \cup {payload} |-> IF p = payload THEN h ELSE hashOf[p]]
      /\ cas' = [cas EXCEPT ![t] = [x \in DOMAIN cas[t] \cup {h} |->
                    IF x \in DOMAIN cas[t] THEN cas[t][x] ELSE [type |-> type, payload |-> payload]]]
    BY DEF Put
<1>2. made' = [made EXCEPT ![t] = [x \in DOMAIN made[t] \cup {h} |->
                 IF x = h THEN [type |-> type, val |-> val] ELSE made[t][x]]]
    BY DEF Remember
<1>3. /\ \A p, q \in DOMAIN hashOf : hashOf[p] = hashOf[q] => p = q
      /\ DOMAIN cas = Thread /\ DOMAIN made = Thread
      /\ \A u \in Thread : DOMAIN made[u] = DOMAIN cas[u]
      /\ \A u \in Thread : \A x \in DOMAIN cas[u] : RecordOK(u, x)
    BY DEF RecordsInv
<1>4. /\ DOMAIN hashOf' = DOMAIN hashOf \cup {payload} /\ hashOf'[payload] = h
      /\ \A p \in DOMAIN hashOf : hashOf'[p] = hashOf[p]
      /\ payload \notin DOMAIN hashOf => \A p \in DOMAIN hashOf : hashOf[p] # h
    BY <1>1 DEF Range
<1>5. \A p, q \in DOMAIN hashOf' : hashOf'[p] = hashOf'[q] => p = q
    BY <1>1, <1>3, <1>4
<1>6. /\ DOMAIN cas' = Thread /\ DOMAIN made' = Thread
      /\ \A u \in Thread : u # t => cas'[u] = cas[u] /\ made'[u] = made[u]
      /\ DOMAIN cas'[t] = DOMAIN cas[t] \cup {h} /\ DOMAIN made'[t] = DOMAIN made[t] \cup {h}
    BY <1>1, <1>2, <1>3
<1>7. /\ \A x \in DOMAIN cas[t] : cas'[t][x] = cas[t][x]
      /\ h \notin DOMAIN cas[t] => cas'[t][h] = [type |-> type, payload |-> payload]
      /\ made'[t][h] = [type |-> type, val |-> val]
      /\ \A x \in DOMAIN made[t] : x # h => made'[t][x] = made[t][x]
    BY <1>1, <1>2, <1>3
<1>8. ASSUME h \in DOMAIN cas[t]
      PROVE  cas[t][h].payload = payload /\ cas[t][h].type = type /\ made[t][h].type = type
    <2>1. RecordOK(t, h)
        BY <1>3, <1>8
    <2>2. cas[t][h].payload = payload
        BY <1>3, <1>1, <1>4, <2>1 DEF RecordOK
    <2>3. IsRecord(made[t][h].type, made[t][h].val, payload)
        BY <2>1, <2>2 DEF RecordOK
    <2>4. made[t][h].type = type
        BY <2>3, SameType
    <2> QED
        BY <2>1, <2>2, <2>4 DEF RecordOK
<1>9. /\ cas'[t][h].type = type /\ cas'[t][h].payload = payload
      /\ made'[t][h].type = type /\ made'[t][h].val = val
    BY <1>7, <1>8
<1>10. RecordOK(t, h)'
    BY <1>4, <1>9 DEF RecordOK
<1>11. ASSUME NEW u \in Thread, NEW x \in DOMAIN cas[u], u # t \/ x # h PROVE RecordOK(u, x)'
    <2>1. RecordOK(u, x)
        BY <1>3
    <2>2. cas'[u][x] = cas[u][x] /\ made'[u][x] = made[u][x]
        BY <1>3, <1>6, <1>7, <1>11
    <2> QED
        BY <1>4, <2>1, <2>2 DEF RecordOK
<1>12. \A u \in Thread : \A x \in DOMAIN cas'[u] : RecordOK(u, x)'
    BY <1>6, <1>10, <1>11
<1>13. \A u \in Thread : DOMAIN made'[u] = DOMAIN cas'[u]
    BY <1>3, <1>6
<1>14. RecordsInv'
    BY <1>5, <1>6, <1>12, <1>13 DEF RecordsInv
<1>15. \A u \in Thread : \A x \in DOMAIN made[u] :
          /\ x \in DOMAIN made'[u]
          /\ u # t \/ x # h => made'[u][x] = made[u][x]
          /\ u = t /\ x = h => made[u][x].type = type
    BY <1>3, <1>6, <1>7, <1>8
<1> QED
    BY <1>6, <1>7, <1>14, <1>15

\* put_commit: the record is stored and cached.
LEMMA PersistKeeps ==
    ASSUME TypesApart, RecordsInv, CacheInv, NEW t \in Thread, NEW c \in CommitsAskedFor,
           PersistCommit(t, c), ccap' = ccap
    PROVE  RecordsInv' /\ CacheInv'
<1>1. PICK h \in HashSpace :
          /\ Put(t, "commit", EncodePayload(c), h)
          /\ ccache' = [ccache EXCEPT ![t] = LruInsert(ccache[t], ccap[t], h, c)]
          /\ Remember(t, h, "commit", c)
    BY DEF PersistCommit
<1>2. IsRecord("commit", c, EncodePayload(c))
    BY DEF IsRecord, MadeAs
<1>3. /\ RecordsInv'
      /\ made'[t][h] = [type |-> "commit", val |-> c] /\ h \in DOMAIN made'[t]
      /\ \A u \in Thread : \A x \in DOMAIN made[u] :
            x \in DOMAIN made'[u] /\ (u # t \/ x # h => made'[u][x] = made[u][x])
    BY <1>1, <1>2, PutKeeps
<1>4. /\ DOMAIN ccache = Thread /\ DOMAIN ccap = Thread
      /\ \A u \in Thread : IsCache(ccache[u]) /\ ccap[u] \in Nat \ {0}
      /\ \A u \in Thread : \A i \in DOMAIN ccache[u] : EntryOK(u, ccache[u][i])
    BY DEF CacheInv
<1>5. LruFacts(ccache[t], h, c, ccache'[t])
    BY <1>1, <1>4, LruInsertOK
<1>6. DOMAIN ccache' = Thread /\ \A u \in Thread : u # t => ccache'[u] = ccache[u]
    BY <1>1, <1>4
<1>7. \A u \in Thread : IsCache(ccache'[u])
    BY <1>4, <1>5, <1>6 DEF LruFacts
<1>8. ASSUME NEW e, NEW i \in DOMAIN ccache'[t], e = ccache'[t][i] PROVE EntryOK(t, e)'
    <2>1. CASE e = [key |-> h, val |-> c]
        <3>1. e.key = h /\ e.val = c
            BY <2>1
        <3>2. made'[t][h].type = "commit" /\ made'[t][h].val = c
            BY <1>3
        <3> QED
            BY <1>3, <3>1, <3>2 DEF EntryOK
    <2>2. CASE e.key # h /\ \E j \in DOMAIN ccache[t] : e = ccache[t][j]
        <3>1. EntryOK(t, e)
            BY <1>4, <2>2
        <3>2. e.key \in DOMAIN made'[t] /\ made'[t][e.key] = made[t][e.key]
            BY <1>3, <2>2, <3>1 DEF EntryOK
        <3> QED
            BY <3>1, <3>2 DEF EntryOK
    <2> QED
        BY <1>5, <1>8, <2>1, <2>2 DEF LruFacts
<1>9. ASSUME NEW u \in Thread, u # t, NEW e, NEW i \in DOMAIN ccache'[u], e = ccache'[u][i]
      PROVE  EntryOK(u, e)'
    <2>1. EntryOK(u, e)
        BY <1>4, <1>6, <1>9
    <2>2. e.key \in DOMAIN made'[u] /\ made'[u][e.key] = made[u][e.key]
        BY <1>3, <1>9, <2>1 DEF EntryOK
    <2> QED
        BY <2>1, <2>2 DEF EntryOK
<1>10. \A u \in Thread : \A i \in DOMAIN ccache'[u] : EntryOK(u, ccache[u][i])'
    BY <1>8, <1>9
<1> QED
    BY <1>3, <1>4, <1>6, <1>7, <1>10 DEF CacheInv

\* A node is stored: its hash was not that of a cached commit.
LEMMA NodeKeeps ==
    ASSUME TypesApart, RecordsInv, CacheInv, NEW t \in Thread, NEW n \in Nodes, StoreNode(t, n)
    PROVE  RecordsInv' /\ CacheInv'
<1>1. PICK h \in HashSpace : Put(t, n.type, EncodeNode(n), h) /\ Remember(t, h, n.type, n)
    BY DEF StoreNode
<1>2. IsRecord(n.type, n, EncodeNode(n))
    BY DEF IsRecord
<1>3. /\ RecordsInv'
      /\ \A u \in Thread : \A x \in DOMAIN made[u] :
            /\ x \in DOMAIN made'[u]
            /\ u # t \/ x # h => made'[u][x] = made[u][x]
            /\ u = t /\ x = h => made[u][x].type = n.type
    <2> DEFINE ty == n.type
               py == EncodeNode(n)
    <2>1. Put(t, ty, py, h) /\ Remember(t, h, ty, n) /\ IsRecord(ty, n, py)
        BY <1>1, <1>2
    <2> HIDE DEF ty, py
    <2>2. /\ RecordsInv'
          /\ made'[t][h] = [type |-> ty, val |-> n] /\ h \in DOMAIN made'[t]
          /\ \A u \in Thread : \A x \in DOMAIN made[u] :
                /\ x \in DOMAIN made'[u]
                /\ u # t \/ x # h => made'[u][x] = made[u][x]
                /\ u = t /\ x = h => made[u][x].type = ty
        BY <2>1, PutKeeps
    <2> QED
        BY <2>2 DEF ty
<1>4. UNCHANGED <<ccache, ccap>>
    BY DEF StoreNode
<1>5. n.type # "commit"
    BY NodeTypes
<1>6. ASSUME NEW u \in Thread, NEW e, EntryOK(u, e) PROVE EntryOK(u, e)'
    <2>1. e.key \in DOMAIN made[u] /\ (u # t \/ e.key # h)
        BY <1>3, <1>5, <1>6 DEF EntryOK
    <2>2. e.key \in DOMAIN made'[u] /\ made'[u][e.key] = made[u][e.key]
        BY <1>3, <2>1
    <2> QED
        BY <1>6, <2>2 DEF EntryOK
<1> QED
    BY <1>3, <1>4, <1>6 DEF CacheInv

\* load_commit: a record is loaded as the commit it was made from, if that fits
\* its fields, and only if it was made from one.
LEMMA LoadOK ==
    ASSUME RecordsInv, CacheInv, NEW t \in Thread, NEW h \in DOMAIN made[t]
    PROVE  /\ made[t][h].type = "commit" /\ FitsCommit(made[t][h].val)
                 => LoadCommit(t, h) = [ok |-> TRUE, commit |-> made[t][h].val]
           /\ LoadCommit(t, h).ok => made[t][h].type = "commit"
<1>1. RecordOK(t, h)
    BY DEF RecordsInv
<1>2. CASE LruHas(ccache[t], h)
    <2>1. PICK i \in DOMAIN ccache[t] :
              ccache[t][i].key = h /\ LruGet(ccache[t], h) = ccache[t][i].val
        BY <1>2, LruGetOK
    <2>2. EntryOK(t, ccache[t][i])
        BY DEF CacheInv
    <2>3. LoadCommit(t, h) = [ok |-> TRUE, commit |-> LruGet(ccache[t], h)]
        BY <1>2 DEF LoadCommit
    <2> QED
        BY <2>1, <2>2, <2>3 DEF EntryOK
<1>3. CASE ~LruHas(ccache[t], h)
    <2>1. LoadCommit(t, h) = IF cas[t][h].type = "commit" THEN DecodePayload(cas[t][h].payload) ELSE NotACommit
        BY <1>3 DEF LoadCommit, Decode
    <2>2. cas[t][h].type = made[t][h].type
        BY <1>1 DEF RecordOK
    <2>3. ~NotACommit.ok
        BY DEF NotACommit
    <2>4. ASSUME made[t][h].type = "commit", FitsCommit(made[t][h].val)
          PROVE  LoadCommit(t, h) = [ok |-> TRUE, commit |-> made[t][h].val]
        <3>1. MadeAs(made[t][h].val, cas[t][h].payload)
            <4>1. IsRecord(made[t][h].type, made[t][h].val, cas[t][h].payload)
                BY <1>1 DEF RecordOK
            <4>2. \A n \in Nodes : n.type # "commit"
                BY NodeTypes
            <4> QED
                BY <2>4, <4>1, <4>2 DEF IsRecord
        <3> QED
            BY <2>1, <2>2, <2>4, <3>1, MadeIsDecoded
    <2>5. LoadCommit(t, h).ok => made[t][h].type = "commit"
        BY <2>1, <2>2, <2>3
    <2> QED
        BY <2>4, <2>5
<1> QED
    BY <1>2, <1>3

\* get_commit caches what it loads.
LEMMA GetKeeps ==
    ASSUME RecordsInv, CacheInv, NEW t \in Thread, NEW h, GetCommit(t, h)
    PROVE  CacheInv'
<1>1. h \in DOMAIN cas[t] /\ UNCHANGED <<ccap, made>>
    BY DEF GetCommit, Stored
<1>2. h \in DOMAIN made[t]
    BY <1>1 DEF RecordsInv
<1>3. ccache' = IF LoadCommit(t, h).ok
                THEN [ccache EXCEPT ![t] = LruInsert(ccache[t], ccap[t], h, LoadCommit(t, h).commit)]
                ELSE ccache
    BY DEF GetCommit
<1>4. /\ DOMAIN ccache = Thread /\ DOMAIN ccap = Thread
      /\ \A u \in Thread : IsCache(ccache[u]) /\ ccap[u] \in Nat \ {0}
      /\ \A u \in Thread : \A i \in DOMAIN ccache[u] : EntryOK(u, ccache[u][i])
    BY DEF CacheInv
<1>5. \A u \in Thread : \A e : EntryOK(u, e)' <=> EntryOK(u, e)
    BY <1>1 DEF EntryOK
<1>6. CASE ~LoadCommit(t, h).ok
    BY <1>1, <1>3, <1>4, <1>5, <1>6 DEF CacheInv
<1>7. CASE LoadCommit(t, h).ok
    <2> DEFINE c == LoadCommit(t, h).commit
    <2>1. made[t][h].type = "commit" /\ (FitsCommit(made[t][h].val) => c = made[t][h].val)
        BY <1>2, <1>7, LoadOK
    <2>2. EntryOK(t, [key |-> h, val |-> c])
        BY <1>2, <2>1 DEF EntryOK
    <2>3. ccache' = [ccache EXCEPT ![t] = LruInsert(ccache[t], ccap[t], h, c)]
        BY <1>3, <1>7
    <2> HIDE DEF c
    <2>4. LruFacts(ccache[t], h, c, ccache'[t])
        BY <1>4, <2>3, LruInsertOK
    <2>5. DOMAIN ccache' = Thread /\ \A u \in Thread : u # t => ccache'[u] = ccache[u]
        BY <1>4, <2>3
    <2>6. \A u \in Thread : IsCache(ccache'[u])
        BY <1>4, <2>4, <2>5 DEF LruFacts
    <2>7. \A u \in Thread : \A i \in DOMAIN ccache'[u] : EntryOK(u, ccache'[u][i])
        BY <1>4, <2>2, <2>4, <2>5 DEF LruFacts
    <2> QED
        BY <1>1, <1>4, <1>5, <2>5, <2>6, <2>7 DEF CacheInv
<1> QED
    BY <1>6, <1>7

\* Before the first call there is the commit that an old version wrote.
LEMMA LoadInit == Init => LoadInv /\ TimesInv
<1> SUFFICES ASSUME Init PROVE LoadInv /\ TimesInv
    OBVIOUS
<1> DEFINE p == EncodePayloadV1(Legacy)
<1>0. LegacyHash \in HashSpace
    BY CommitsAssumption DEF LegacyHash
<1>1. /\ hashOf = [q \in {p} |-> LegacyHash]
      /\ cas = [t \in Thread |-> [h \in {LegacyHash} |-> [type |-> "commit", payload |-> p]]]
      /\ made = [t \in Thread |-> [h \in {LegacyHash} |-> [type |-> "commit", val |-> Legacy]]]
    BY DEF Init
<1>2. IsRecord("commit", Legacy, p)
    BY DEF IsRecord, MadeAs
<1> HIDE DEF p
<1>3. /\ DOMAIN cas = Thread /\ DOMAIN made = Thread
      /\ \A t \in Thread : DOMAIN made[t] = {LegacyHash} /\ DOMAIN cas[t] = {LegacyHash}
    BY <1>1
<1>4. ASSUME NEW t \in Thread, NEW h \in DOMAIN cas[t] PROVE RecordOK(t, h)
    <2>1. h = LegacyHash
        BY <1>3
    <2>2. cas[t][h].type = "commit" /\ cas[t][h].payload = p
        BY <1>1, <2>1
    <2>3. made[t][h].type = "commit" /\ made[t][h].val = Legacy
        BY <1>1, <2>1
    <2>4. hashOf[p] = LegacyHash /\ p \in DOMAIN hashOf
        BY <1>1
    <2> QED
        BY <1>0, <1>2, <2>1, <2>2, <2>3, <2>4 DEF RecordOK
<1>5. RecordsInv
    <2>1. \A a, b \in DOMAIN hashOf : hashOf[a] = hashOf[b] => a = b
        BY <1>1
    <2> QED
        BY <1>3, <1>4, <2>1 DEF RecordsInv
<1>6. CacheInv
    <2>1. COMMIT_CACHE_CAP \in Nat
        BY CommitsAssumption
    <2>2. ccache = [t \in Thread |-> <<>>] /\ ccap = [t \in Thread |-> LruCap(COMMIT_CACHE_CAP)]
        BY DEF Init
    <2>3. \A t \in Thread : ccap[t] \in Nat \ {0} /\ ccache[t] = <<>>
        <3>1. LruCap(COMMIT_CACHE_CAP) \in Nat \ {0}
            BY <2>1, LruCapOK
        <3> QED
            BY <2>2, <3>1
    <2>4. IsCache(<<>>)
        <3>1. <<>> \in Seq(Nat)
            OBVIOUS
        <3> QED
            BY <3>1, CacheOfSeq
    <2>5. DOMAIN <<>> = {}
        OBVIOUS
    <2> QED
        BY <2>2, <2>3, <2>4, <2>5 DEF CacheInv
<1>7. TS = 0 /\ issued = <<>> /\ \A t \in Thread : call[t].pc = "idle"
    BY DEF Init, TsInit, NoCall
<1>8. ArgsInv
    <2>1. args = [t \in Thread |-> NoArgs]
        BY DEF Init
    <2> QED
        BY <1>7, <2>1 DEF ArgsInv
<1>9. TimesInv
    <2>1. PICK c \in Clock : c \in Nat /\ MaxCalls \in Nat
        BY ClockAssumption
    <2>2. Len(issued) = 0
        BY <1>7
    <2> QED
        BY <1>7, <2>1, <2>2 DEF TimesInv
<1> QED
    BY <1>5, <1>6, <1>8, <1>9 DEF LoadInv

-----------------------------------------------------------------------------

\* Every step leaves what is stored, cached and asked for in step.
LEMMA LoadStep ==
    ASSUME TypesApart, LoadInv, TimesInv, TsInv, [Next]_vars
    PROVE  LoadInv'
<1>0. RecordsInv /\ CacheInv /\ ArgsInv
    BY DEF LoadInv
<1>a. hashOf' = hashOf /\ cas' = cas /\ made' = made => RecordsInv'
    BY <1>0 DEF RecordsInv, RecordOK
<1>b. ccache' = ccache /\ ccap' = ccap /\ made' = made => CacheInv'
    BY <1>0 DEF CacheInv, EntryOK
<1>c. args' = args /\ call' = call => ArgsInv'
    BY <1>0 DEF ArgsInv
<1>d. DOMAIN call = Thread
    BY DEF TsInv, TsTypeOK
<1>e. ASSUME NEW t \in Thread, NEW k \in Nat, NEW p \in ParentLists(t, k)
      PROVE  \E h \in HashSpace : p = Repeated(k, h)
    <2>1. PICK h \in DOMAIN cas[t] : p = Repeated(k, h)
        BY DEF ParentLists
    <2>2. h \in HashSpace
        BY <1>0 DEF RecordsInv, RecordOK
    <2> QED
        BY <2>1, <2>2
<1>f. \A i \in RootInputs \cup IndexInputs : i.count \in Nat
    BY CommitsAssumption
<1>1. CASE UNCHANGED vars
    BY <1>a, <1>b, <1>c, <1>1 DEF vars, storeVars, tsVars, LoadInv
<1>2. ASSUME NEW t \in Thread, NEW i \in RootInputs, NEW p \in ParentLists(t, i.count),
             CommitWithRoot(t, p, i.message)
      PROVE  LoadInv'
    <2>1. PICK h \in HashSpace : p = Repeated(i.count, h)
        BY <1>e, <1>f
    <2>2. /\ args' = [args EXCEPT ![t] = [parents |-> p, message |-> i.message]]
          /\ UNCHANGED storeVars
        BY <1>2 DEF CommitWithRoot
    <2>3. \A u \in Thread : u # t => call'[u] = call[u]
        BY <1>2, <1>d DEF CommitWithRoot, FetchAdd, Return
    <2>4. DOMAIN args' = Thread /\ (\A u \in Thread : u # t => args'[u] = args[u])
          /\ args'[t] = [parents |-> p, message |-> i.message]
        BY <1>0, <2>2 DEF ArgsInv
    <2>5. ArgsInv'
        BY <1>0, <2>1, <2>3, <2>4 DEF ArgsInv
    <2> QED
        BY <1>a, <1>b, <2>2, <2>5 DEF storeVars, LoadInv
<1>3. ASSUME NEW t \in Thread, NEW i \in IndexInputs, NEW p \in ParentLists(t, i.count),
             CommitWithIndexes(t, p, i.message, i.index_roots)
      PROVE  LoadInv'
    <2>1. PICK h \in HashSpace : p = Repeated(i.count, h)
        BY <1>e, <1>f
    <2>2. clock \in Times
        BY ClockTimes DEF TsInv, TsTypeOK
    <2> DEFINE c == Commit(p, clock, i.message, i.index_roots)
    <2>3. c \in CommitsAskedFor
        <3>1. c \in IndexCommits
            BY <2>1, <2>2 DEF IndexCommits
        <3> QED
            BY <3>1 DEF CommitsAskedFor
    <2>4. PersistCommit(t, c) /\ UNCHANGED <<tsVars, args, ccap>>
        BY <1>3 DEF CommitWithIndexes
    <2> HIDE DEF c
    <2>5. PICK d : d = c
        OBVIOUS
    <2>6. RecordsInv' /\ CacheInv'
        BY <1>0, <2>3, <2>4, <2>5, PersistKeeps
    <2> QED
        BY <1>c, <2>4, <2>6 DEF tsVars, LoadInv
<1>4. ASSUME NEW t \in Thread, NextTimestamp(t) PROVE LoadInv'
    <2>1. UNCHANGED <<storeVars, args>>
        BY <1>4 DEF NextTimestamp
    <2>2. \A u \in Thread : u # t => call'[u] = call[u]
        BY <1>4, <1>d DEF NextTimestamp, ReadClock, StoreNext, Return
    <2>3. call[t].pc # "idle"
        BY <1>4 DEF NextTimestamp, ReadClock, StoreNext
    <2>4. ArgsInv'
        BY <1>0, <2>1, <2>2, <2>3 DEF ArgsInv
    <2> QED
        BY <1>a, <1>b, <2>1, <2>4 DEF storeVars, LoadInv
<1>5. ASSUME NEW t \in Thread, CommitStamped(t) PROVE LoadInv'
    <2>1. /\ call[t].pc = "got" /\ call' = [call EXCEPT ![t] = NoCall]
          /\ PersistCommit(t, Commit(args[t].parents, call[t].n, args[t].message, <<>>))
          /\ args' = [args EXCEPT ![t] = NoArgs] /\ ccap' = ccap
        BY <1>5 DEF CommitStamped, Done
    <2>2. PICK i \in RootInputs, h \in HashSpace :
              args[t] = [parents |-> Repeated(i.count, h), message |-> i.message]
        BY <1>0, <2>1 DEF ArgsInv
    <2>3. args[t].parents = Repeated(i.count, h) /\ args[t].message = i.message
        BY <2>2
    <2>4. PICK n \in Times : n = call[t].n
        BY <2>1 DEF TimesInv
    <2>5. PICK c : c = Commit(Repeated(i.count, h), n, i.message, <<>>)
        OBVIOUS
    <2>6. c \in CommitsAskedFor
        <3>1. c \in RootCommits
            BY <2>5 DEF RootCommits
        <3> QED
            BY <3>1 DEF CommitsAskedFor
    <2>7. PersistCommit(t, c)
        BY <2>1, <2>3, <2>4, <2>5
    <2>8. RecordsInv' /\ CacheInv'
        BY <1>0, <2>1, <2>6, <2>7, PersistKeeps
    <2>9. call'[t].pc = "idle" /\ \A u \in Thread : u # t => call'[u] = call[u]
        BY <1>d, <2>1 DEF NoCall
    <2>10. DOMAIN args' = Thread /\ \A u \in Thread : u # t => args'[u] = args[u]
        BY <1>0, <2>1 DEF ArgsInv
    <2>11. ArgsInv'
        BY <1>0, <2>9, <2>10 DEF ArgsInv
    <2> QED
        BY <2>8, <2>11 DEF LoadInv
<1>6. ASSUME NEW t \in Thread, NEW n \in Nodes, StoreNode(t, n) PROVE LoadInv'
    <2>1. RecordsInv' /\ CacheInv'
        BY <1>0, <1>6, NodeKeeps
    <2> QED
        BY <1>c, <1>6, <2>1 DEF StoreNode, tsVars, LoadInv
<1>7. ASSUME NEW t \in Thread, NEW h \in HashSpace, GetCommit(t, h) PROVE LoadInv'
    <2>1. CacheInv'
        BY <1>0, <1>7, GetKeeps
    <2> QED
        BY <1>a, <1>c, <1>7, <2>1 DEF GetCommit, tsVars, LoadInv
<1>8. ASSUME NEW t \in Thread, NEW cap \in CommitCaps, ConfigureCaches(t, cap) PROVE LoadInv'
    <2>1. /\ ccache' = [ccache EXCEPT ![t] = <<>>] /\ ccap' = [ccap EXCEPT ![t] = LruCap(cap)]
          /\ UNCHANGED <<tsVars, hashOf, cas, made, args>>
        BY <1>8 DEF ConfigureCaches
    <2>2. LruCap(cap) \in Nat \ {0}
        BY CommitsAssumption, LruCapOK
    <2>3. IsCache(<<>>) /\ DOMAIN <<>> = {}
        <3>1. <<>> \in Seq(Nat) /\ DOMAIN <<>> = {}
            OBVIOUS
        <3> QED
            BY <3>1, CacheOfSeq
    <2>4. /\ DOMAIN ccache' = Thread /\ DOMAIN ccap' = Thread
          /\ ccache'[t] = <<>> /\ ccap'[t] = LruCap(cap)
          /\ \A u \in Thread : u # t => ccache'[u] = ccache[u] /\ ccap'[u] = ccap[u]
        BY <1>0, <2>1 DEF CacheInv
    <2>5. \A u \in Thread : IsCache(ccache'[u]) /\ ccap'[u] \in Nat \ {0}
        BY <1>0, <2>2, <2>3, <2>4 DEF CacheInv
    <2>6. \A u \in Thread : \A i \in DOMAIN ccache'[u] : EntryOK(u, ccache[u][i])'
        BY <1>0, <2>1, <2>3, <2>4 DEF CacheInv, EntryOK
    <2>7. CacheInv'
        BY <2>4, <2>5, <2>6 DEF CacheInv
    <2> QED
        BY <1>a, <1>c, <2>1, <2>7 DEF tsVars, LoadInv
<1>9. CASE Tick /\ UNCHANGED <<storeVars, args>>
    BY <1>a, <1>b, <1>c, <1>9 DEF Tick, storeVars, LoadInv
<1> QED
    BY <1>1, <1>2, <1>3, <1>4, <1>5, <1>6, <1>7, <1>8, <1>9 DEF Next

\* A record that is as it was made is loaded as it was made.
LEMMA LoadInvLoads == LoadInv => LoadsAsMade
<1> SUFFICES ASSUME LoadInv, NEW t \in Thread, NEW h \in DOMAIN made[t]
             PROVE  LET x == made[t][h]
                    IN  IF x.type = "commit"
                        THEN FitsCommit(x.val) => LoadCommit(t, h) = [ok |-> TRUE, commit |-> x.val]
                        ELSE /\ FitsNode(x.val) => DecodeNode(cas[t][h].type, cas[t][h].payload)
                                                     = [ok |-> TRUE, node |-> x.val]
                             /\ ~LoadCommit(t, h).ok
    BY DEF LoadsAsMade
<1>0. RecordsInv /\ CacheInv
    BY DEF LoadInv
<1>1. /\ made[t][h].type = "commit" /\ FitsCommit(made[t][h].val)
            => LoadCommit(t, h) = [ok |-> TRUE, commit |-> made[t][h].val]
      /\ LoadCommit(t, h).ok => made[t][h].type = "commit"
    BY <1>0, LoadOK
<1>2. ASSUME made[t][h].type # "commit", FitsNode(made[t][h].val)
      PROVE  DecodeNode(cas[t][h].type, cas[t][h].payload) = [ok |-> TRUE, node |-> made[t][h].val]
    <2>1. RecordOK(t, h)
        BY <1>0 DEF RecordsInv
    <2> DEFINE n == made[t][h].val
    <2>2. /\ n \in Nodes /\ made[t][h].type = n.type /\ cas[t][h].type = n.type
          /\ cas[t][h].payload = EncodeNode(n)
        BY <1>2, <2>1 DEF RecordOK, IsRecord
    <2>3. n.type \in {"bitmap", "leaf"} /\ n \in Node
        BY <2>2, NodeTypes, CommitsAssumption
    <2>4. FitsNode(n)
        BY <1>2
    <2> HIDE DEF n
    <2>5. DecodeNode(n.type, EncodeNode(n)) = [ok |-> TRUE, node |-> n]
        BY <2>3, <2>4, BitmapRoundTrip, LeafRoundTrip
    <2> QED
        BY <2>2, <2>5 DEF n
<1> QED
    BY <1>1, <1>2

-----------------------------------------------------------------------------
(* Theorems *)

\* The timestamps that commit_with_root puts into the commits of any number of
\* threads grow, and none is given twice: the store around next_timestamp adds
\* no way to disturb it.
THEOREM CommitTimestampsGrow == Spec => []TimestampsGrow
<1>1. Init => TsInit
    BY DEF Init
<1>2. Spec => TsSpec
    BY <1>1, TimestampStep, PTL DEF Spec, TsSpec
<1> QED
    BY <1>2, TimestampsMonotonic, PTL

\* resolve_hash_ref: a prefix that once named an object names it or is ambiguous
\* ever after, whatever is committed and stored in whichever thread.
THEOREM PrefixesStayStable == Spec => PrefixesAreStable
<1>1. StoresInv /\ [Next]_vars =>
          [\A t \in Thread, h \in HashSpace : \A k \in 0..HashLen :
              LET hex == SubSeq(h, 1, k)
              IN  ResolveHashRef(t, hex) # NoMatch =>
                      ResolveHashRef(t, hex)' \in {ResolveHashRef(t, hex), NoMatch}]_vars
    BY StepGrows, ResolveStable
<1> QED
    BY <1>1, StoresInvariant, PTL DEF Spec, PrefixesAreStable

\* load_commit and the HAMT's load: a commit or a node that fits the widths of
\* its fields is loaded as it was stored, from the cache, after an eviction, and
\* for a commit of version 1, and a node is never loaded as a commit, in any
\* number of threads and for any contents; provided that no two records of
\* different types have the same bytes, since the hash does not tell them apart.
THEOREM RecordsLoadAsMade ==
    ASSUME TypesApart
    PROVE  Spec => []LoadsAsMade
<1>1. Init => LoadInv /\ TimesInv /\ TsInv
    BY LoadInit, InitKeeps DEF Init
<1>2. LoadInv /\ TimesInv /\ TsInv /\ [Next]_vars => (LoadInv /\ TimesInv /\ TsInv)'
    BY TimestampStep, StepKeeps, TimesStep, LoadStep
<1> QED
    BY <1>1, <1>2, LoadInvLoads, PTL DEF Spec
=============================================================================
