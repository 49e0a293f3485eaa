--------------------------- MODULE CasStoreProofs ---------------------------
(***************************************************************************)
(* For every set of objects, record length, segment size, buffer size and   *)
(* number of crashes: without crashes, whatever was put reads back as       *)
(* itself; with kills and power losses, whatever was written and flushed    *)
(* does.  Without crashes, as long as every I/O call succeeds each          *)
(* acknowledged object reads back as itself and sealed segments never       *)
(* change; a call that fails damages no entry that can be read.  Last, the  *)
(* store with crashes implements DurableStore.                              *)
(***************************************************************************)
EXTENDS CasStore, FiniteSetTheorems, SequenceTheorems, WellFoundedInduction, TLAPS

USE CasAssumption

-----------------------------------------------------------------------------
(* Files *)

\* The BufWriter is emptied into its file.
LEMMA AppendedOK ==
    ASSUME NEW f \in File, NEW b \in SUBSET Rec, NEW n \in Nat, FileOK(f, b, n)
    PROVE  /\ Appended(f, b, n) \in File
           /\ FileOK(Appended(f, b, n), {}, 0)
           /\ Synced(Appended(f, b, n)) \in File
           /\ FileOK(Synced(Appended(f, b, n)), {}, 0)
  <1>1. Appended(f, b, n) \in File
    BY DEF Appended, File
  <1>2. \A r, q \in f.recs \cup b : r.off = q.off => r = q
    BY DEF FileOK, File, Rec
  <1>3. FileOK(Appended(f, b, n), {}, 0)
    BY <1>2 DEF Appended, FileOK, File, Rec
  <1>4. Synced(Appended(f, b, n)) \in File /\ FileOK(Synced(Appended(f, b, n)), {}, 0)
    BY <1>1, <1>3 DEF Synced, FileOK, File
  <1> QED  BY <1>1, <1>3, <1>4

\* A file is cut somewhere in its part that was not fsync'd.
LEMMA CutOK ==
    ASSUME NEW f \in File, NEW k \in f.synced .. f.len, FileOK(f, {}, 0)
    PROVE  Cut(f, k) \in File /\ FileOK(Cut(f, k), {}, 0)
  BY DEF Cut, FileOK, File, Rec

\* What BufWriter::write_all of o makes of the files S and the buffer b of the
\* current segment s: the file with its buffer gains the new record at its end.
WriteFacts(S, s, b, n, o, S2, b2, n2) ==
    /\ S2 \in [SegIds -> File] /\ b2 \in SUBSET Rec /\ n2 \in Nat
    /\ \A t \in SegIds : t # s => S2[t] = S[t]
    /\ S2[s].exists = S[s].exists /\ S2[s].synced = S[s].synced
    /\ S2[s].len + n2 = S[s].len + n + RecLen[o]
    /\ S2[s].recs \cup b2 = S[s].recs \cup b \cup {WrittenRec(S, s, n, o)}
    /\ S[s].recs \subseteq S2[s].recs /\ S[s].len =< S2[s].len
    /\ FileOK(S2[s], b2, n2)

\* It does so in all four cases of spilling and bypassing.
LEMMA WriteOK ==
    ASSUME NEW S \in [SegIds -> File], NEW s \in SegIds, NEW b \in SUBSET Rec, NEW n \in Nat,
           NEW o \in Obj, FileOK(S[s], b, n)
    PROVE  WriteFacts(S, s, b, n, o, SegsAfterWrite(S, s, b, n, o),
                      BufAfterWrite(S, s, b, n, o), BufLenAfterWrite(n, o))
  <1> DEFINE S2 == SegsAfterWrite(S, s, b, n, o)
             b2 == BufAfterWrite(S, s, b, n, o)
             n2 == BufLenAfterWrite(n, o)
  <1> SUFFICES WriteFacts(S, s, b, n, o, S2, b2, n2)
    OBVIOUS
  <1> DEFINE w == WrittenRec(S, s, n, o)
             f == S[s]
  <1>1. f \in File /\ w \in Rec /\ w.off = f.len + n /\ w.obj = o /\ RecLen[o] \in Nat \ {0}
    BY DEF WrittenRec, File, Rec
  <1>2. b = {} \/ n > 0
    BY <1>1 DEF FileOK, Rec, File
  <1>3. CASE ~Spills(n, o) /\ ~Bypasses(o)
    <2>1. S2 = S /\ b2 = b \cup {w} /\ n2 = n + RecLen[o]
      BY <1>1, <1>3 DEF SegsAfterWrite, BufAfterWrite, BufLenAfterWrite
    <2>2. FileOK(f, b \cup {w}, n + RecLen[o])
      BY <1>1 DEF FileOK, Rec, File
    <2> QED  BY <1>1, <2>1, <2>2 DEF File, WriteFacts
  <1>4. CASE ~Spills(n, o) /\ Bypasses(o)
    <2>1. n = 0 /\ b = {}
      BY <1>1, <1>2, <1>4 DEF Spills, Bypasses
    <2>2. S2 = [S EXCEPT ![s] = Appended(f, {w}, RecLen[o])] /\ b2 = {} /\ n2 = 0
      BY <1>1, <1>4, <2>1 DEF SegsAfterWrite, BufAfterWrite, BufLenAfterWrite
    <2>3. FileOK(f, {w}, RecLen[o])
      BY <1>1, <2>1 DEF FileOK, Rec, File
    <2>4. Appended(f, {w}, RecLen[o]) \in File /\ FileOK(Appended(f, {w}, RecLen[o]), {}, 0)
      BY <1>1, <2>3, AppendedOK
    <2>5. S2 \in [SegIds -> File] /\ S2[s] = Appended(f, {w}, RecLen[o])
          /\ \A t \in SegIds : t # s => S2[t] = S[t]
      BY <2>2, <2>4
    <2>6. S2[s].recs = f.recs \cup {w} /\ S2[s].len = f.len + RecLen[o]
          /\ S2[s].exists = f.exists /\ S2[s].synced = f.synced
      BY <2>5 DEF Appended
    <2>7. FileOK(S2[s], b2, n2)
      BY <2>2, <2>4, <2>5
    <2>8. S2[s].len + n2 = f.len + n + RecLen[o] /\ n2 \in Nat
      BY <1>1, <2>1, <2>2, <2>6 DEF File
    <2> HIDE DEF w
    <2>9. S2[s].recs \cup b2 = f.recs \cup b \cup {w} /\ b2 \in SUBSET Rec
      BY <2>1, <2>2, <2>6
    <2>10. f.recs \subseteq S2[s].recs /\ f.len =< S2[s].len
      BY <1>1, <2>6 DEF File
    <2> QED  BY <2>5, <2>6, <2>7, <2>8, <2>9, <2>10 DEF w, WriteFacts
  <1>5. CASE Spills(n, o) /\ ~Bypasses(o)
    <2>1. S2 = [S EXCEPT ![s] = Appended(f, b, n)] /\ b2 = {w} /\ n2 = RecLen[o]
      BY <1>1, <1>5 DEF SegsAfterWrite, BufAfterWrite, BufLenAfterWrite
    <2>2. Appended(f, b, n) \in File /\ FileOK(Appended(f, b, n), {}, 0)
      BY <1>1, AppendedOK
    <2>3. S2 \in [SegIds -> File] /\ S2[s] = Appended(f, b, n)
          /\ \A t \in SegIds : t # s => S2[t] = S[t]
      BY <2>1, <2>2
    <2>4. FileOK(S2[s], {w}, RecLen[o])
      BY <1>1, <2>2, <2>3 DEF FileOK, Rec, File, Appended
    <2> QED  BY <1>1, <2>1, <2>3, <2>4 DEF File, Appended, WriteFacts
  <1>6. CASE Spills(n, o) /\ Bypasses(o)
    <2> DEFINE g == Appended(f, b, n)
    <2>1. S2 = [S EXCEPT ![s] = Appended(g, {w}, RecLen[o])] /\ b2 = {} /\ n2 = 0
      BY <1>1, <1>6 DEF SegsAfterWrite, BufAfterWrite, BufLenAfterWrite
    <2>2. g \in File /\ FileOK(g, {}, 0)
      BY <1>1, AppendedOK
    <2>3. FileOK(g, {w}, RecLen[o])
      BY <1>1, <2>2 DEF FileOK, Rec, File, Appended
    <2>4. Appended(g, {w}, RecLen[o]) \in File /\ FileOK(Appended(g, {w}, RecLen[o]), {}, 0)
      BY <1>1, <2>2, <2>3, AppendedOK
    <2>5. S2 \in [SegIds -> File] /\ S2[s] = Appended(g, {w}, RecLen[o])
          /\ \A t \in SegIds : t # s => S2[t] = S[t]
      BY <2>1, <2>4
    <2> QED  BY <1>1, <2>1, <2>2, <2>4, <2>5 DEF File, Appended, WriteFacts
  <1> QED  BY <1>3, <1>4, <1>5, <1>6

-----------------------------------------------------------------------------
(* The cache *)

\* The part of a sequence that starts at m.
LEMMA SuffixOK ==
    ASSUME NEW T, NEW c \in Seq(T), NEW m \in 1..(Len(c) + 1)
    PROVE  /\ SubSeq(c, m, Len(c)) \in Seq(T)
           /\ Len(SubSeq(c, m, Len(c))) = Len(c) - m + 1
           /\ \A i \in 1..(Len(c) - m + 1) : SubSeq(c, m, Len(c))[i] = c[m + i - 1]
  OBVIOUS

\* The first k members of a sequence.
LEMMA PrefixOK ==
    ASSUME NEW T, NEW c \in Seq(T), NEW k \in 0..Len(c)
    PROVE  /\ SubSeq(c, 1, k) \in Seq(T)
           /\ Len(SubSeq(c, 1, k)) = k
           /\ DOMAIN SubSeq(c, 1, k) = 1..k
           /\ \A i \in 1..k : i \in DOMAIN c /\ SubSeq(c, 1, k)[i] = c[i]
  OBVIOUS

\* LruMap::insert keeps the map within its capacity, binds the key to the new
\* value and leaves only old bindings besides.
LruFacts(c, cap, k, v, d) ==
    /\ d \in Seq([key : Obj, val : Obj])
    /\ Len(c) =< cap => Len(d) =< cap
    /\ \A i \in DOMAIN d : \/ d[i] = [key |-> k, val |-> v]
                           \/ d[i].key # k /\ \E j \in DOMAIN c : d[i] = c[j]

\* LruInsert does what LruMap::insert is said to do.
LEMMA LruInsertOK ==
    ASSUME NEW c \in Seq([key : Obj, val : Obj]), NEW cap \in Nat \ {0},
           NEW k \in Obj, NEW v \in Obj
    PROVE  LruFacts(c, cap, k, v, LruInsert(c, cap, k, v))
  <1> DEFINE KV == [key : Obj, val : Obj]
             new == [key |-> k, val |-> v]
             d == LruInsert(c, cap, k, v)
  <1>1. new \in KV
    OBVIOUS
  <1>2. c \in Seq(KV)
    OBVIOUS
  <1> HIDE DEF KV
  <1>3. DOMAIN c = 1..Len(c) /\ Len(c) \in Nat /\ \A i \in 1..Len(c) : c[i] \in KV
    BY <1>2, LenProperties, ElementOfSeq
  <1>4. CASE LruHas(c, k)
    <2>1. d = [i \in 1..Len(c) |-> IF c[i].key = k THEN new ELSE c[i]]
      BY <1>3, <1>4 DEF LruInsert
    <2>2. d \in [1..Len(c) -> KV]
      BY <1>1, <1>3, <2>1
    <2>3. d \in Seq(KV) /\ DOMAIN d = 1..Len(c)
      <3> HIDE DEF d
      <3>1. Seq(KV) = UNION {[1..n -> KV] : n \in Nat}
        BY SeqDef
      <3> QED  BY <1>3, <2>2, <3>1
    <2>4. Len(d) = Len(c)
      BY <1>3, <2>3, LenProperties
    <2> QED  BY <1>3, <2>1, <2>3, <2>4 DEF KV, LruFacts
  <1>5. CASE ~LruHas(c, k)
    <2> DEFINE keep == IF Len(c) < cap THEN Len(c) ELSE cap - 1
               m == Len(c) - keep + 1
               e == SubSeq(c, m, Len(c))
    <2>1. d = Append(e, new)
      BY <1>5 DEF LruInsert
    <2>2. keep \in Nat /\ keep =< Len(c) /\ keep + 1 =< cap
      BY <1>3
    <2> HIDE DEF keep
    <2>3. m \in Int /\ m >= 1 /\ Len(c) - m + 1 = keep /\ m =< Len(c) + 1
      BY <1>3, <2>2
    <2> HIDE DEF m
    <2>4. e \in Seq(KV) /\ Len(e) = keep /\ \A i \in 1..keep : e[i] = c[m + i - 1]
      BY <1>2, <2>2, <2>3, SuffixOK
    <2> HIDE DEF e
    <2>5. d \in Seq(KV) /\ Len(d) = keep + 1 /\ d[keep + 1] = new
          /\ \A i \in 1..keep : d[i] = e[i]
      BY <1>1, <2>1, <2>4, AppendProperties
    <2>6. DOMAIN d = 1..(keep + 1)
      BY <2>5, LenProperties
    <2>7. \A i \in 1..keep : d[i] = c[m + i - 1] /\ m + i - 1 \in DOMAIN c
      <3> HIDE DEF d
      <3>1. \A i \in 1..keep : m + i - 1 \in 1..Len(c)
        BY <1>3, <2>2, <2>3
      <3>2. \A i \in 1..keep : d[i] = c[m + i - 1]
        BY <2>4, <2>5
      <3> QED  BY <1>3, <3>1, <3>2
    <2>8. \A j \in DOMAIN c : c[j].key # k
      BY <1>5 DEF LruHas
    <2>9. \A i \in DOMAIN d : i \in 1..keep \/ i = keep + 1
      BY <2>2, <2>6
    <2>10. Len(d) =< cap
      BY <2>2, <2>5
    <2> HIDE DEF d
    <2> QED  BY <2>5, <2>7, <2>8, <2>9, <2>10 DEF d, KV, LruFacts
  <1> QED  BY <1>4, <1>5

\* A hit returns the value of a binding of the key.
LEMMA LruGetOK ==
    ASSUME NEW c \in Seq([key : Obj, val : Obj]), NEW k, LruHas(c, k)
    PROVE  \E i \in DOMAIN c : c[i].key = k /\ LruGet(c, k) = c[i].val
  BY DEF LruHas, LruGet

\* A capacity is at least 1, as in LruMap::new.
LEMMA LruCapOK == \A n \in Nat : LruCap(n) \in Nat \ {0}
  BY DEF LruCap

-----------------------------------------------------------------------------
(* The segment files of a state that satisfies Shape *)

\* Emptying the BufWriter, with or without sync_data, changes the segment of
\* current_file only, keeps every file well formed and loses no record.
LEMMA WriterFlushOK ==
    ASSUME TypeOK, WriterShape
    PROVE  /\ SegsWritten \in [SegIds -> File] /\ SegsFlushed \in [SegIds -> File]
           /\ \A s \in SegIds :
                /\ FileOK(SegsWritten[s], {}, 0) /\ FileOK(SegsFlushed[s], {}, 0)
                /\ SegsWritten[s].exists = segs[s].exists
                /\ SegsFlushed[s].exists = segs[s].exists
                /\ SegsFlushed[s].recs = SegsWritten[s].recs
                /\ SegsFlushed[s].len = SegsWritten[s].len
                /\ segs[s].recs \subseteq SegsWritten[s].recs
                /\ SegsWritten[s].synced = segs[s].synced
                /\ segs[s].synced =< SegsFlushed[s].synced
                /\ s # fileSeg => SegsWritten[s] = segs[s] /\ SegsFlushed[s] = segs[s]
           /\ SegsWritten[fileSeg].len = segs[fileSeg].len + bufLen
           /\ SegsWritten[fileSeg].recs = segs[fileSeg].recs \cup buf
           /\ dirty => SegsFlushed[fileSeg].synced = SegsFlushed[fileSeg].len
  <1> DEFINE f == segs[fileSeg]
             g == Appended(f, buf, bufLen)
  <1>1. fileSeg \in SegIds /\ f \in File /\ buf \in SUBSET Rec /\ bufLen \in Nat
        /\ segs \in [SegIds -> File] /\ FileOK(f, buf, bufLen)
        /\ \A s \in SegIds : FileOK(segs[s], {}, 0)
    BY DEF TypeOK, WriterShape
  <1>2. g \in File /\ FileOK(g, {}, 0) /\ Synced(g) \in File /\ FileOK(Synced(g), {}, 0)
    BY <1>1, AppendedOK
  <1>3. SegsWritten = [segs EXCEPT ![fileSeg] = g]
    BY <1>1 DEF SegsWritten
  <1>4. SegsFlushed = IF dirty THEN [segs EXCEPT ![fileSeg] = Synced(g)] ELSE [segs EXCEPT ![fileSeg] = g]
    BY <1>1, <1>3 DEF SegsFlushed
  <1>5. /\ g.exists = f.exists /\ g.recs = f.recs \cup buf /\ g.len = f.len + bufLen
        /\ g.synced = f.synced
        /\ Synced(g).exists = f.exists /\ Synced(g).recs = g.recs /\ Synced(g).len = g.len
        /\ Synced(g).synced = g.len
    BY DEF Appended, Synced
  <1>6. f.synced \in Nat /\ f.len \in Nat /\ f.synced =< f.len
    BY <1>1 DEF FileOK, File
  <1> HIDE DEF f, g
  <1>7. SegsWritten \in [SegIds -> File] /\ SegsFlushed \in [SegIds -> File]
    BY <1>1, <1>2, <1>3, <1>4
  <1>8. /\ SegsWritten[fileSeg] = g
        /\ SegsFlushed[fileSeg] = IF dirty THEN Synced(g) ELSE g
        /\ \A s \in SegIds : s # fileSeg => SegsWritten[s] = segs[s] /\ SegsFlushed[s] = segs[s]
    BY <1>1, <1>3, <1>4
  <1>9. ASSUME NEW s \in SegIds
        PROVE  /\ FileOK(SegsWritten[s], {}, 0) /\ FileOK(SegsFlushed[s], {}, 0)
               /\ SegsWritten[s].exists = segs[s].exists
               /\ SegsFlushed[s].exists = segs[s].exists
               /\ SegsFlushed[s].recs = SegsWritten[s].recs
               /\ SegsFlushed[s].len = SegsWritten[s].len
               /\ segs[s].recs \subseteq SegsWritten[s].recs
               /\ SegsWritten[s].synced = segs[s].synced
               /\ segs[s].synced =< SegsFlushed[s].synced
    <2>1. segs[s] \in File /\ segs[s].synced \in Nat
      BY <1>1 DEF File
    <2>2. CASE s # fileSeg
      BY <1>1, <1>8, <2>1, <2>2
    <2>3. CASE s = fileSeg
      <3>1. segs[s] = f /\ SegsWritten[s] = g /\ SegsFlushed[s] = (IF dirty THEN Synced(g) ELSE g)
        BY <1>8, <2>3 DEF f
      <3>2. g.len \in Nat /\ f.synced =< g.len
        BY <1>1, <1>5, <1>6
      <3>3. CASE dirty
        BY <1>2, <1>5, <1>6, <3>1, <3>2, <3>3
      <3>4. CASE ~dirty
        BY <1>2, <1>5, <1>6, <3>1, <3>2, <3>4
      <3> QED  BY <3>3, <3>4
    <2> QED  BY <2>2, <2>3
  <1> QED  BY <1>1, <1>5, <1>7, <1>8, <1>9 DEF f

\* While rotations succeed that segment is the current one.
LEMMA FlushOK ==
    ASSUME TypeOK, Shape
    PROVE  /\ SegsWritten \in [SegIds -> File] /\ SegsFlushed \in [SegIds -> File]
           /\ \A s \in SegIds :
                /\ FileOK(SegsWritten[s], {}, 0) /\ FileOK(SegsFlushed[s], {}, 0)
                /\ SegsWritten[s].exists = segs[s].exists
                /\ SegsFlushed[s].exists = segs[s].exists
                /\ SegsFlushed[s].recs = SegsWritten[s].recs
                /\ SegsFlushed[s].len = SegsWritten[s].len
                /\ segs[s].recs \subseteq SegsWritten[s].recs
                /\ SegsWritten[s].synced = segs[s].synced
                /\ segs[s].synced =< SegsFlushed[s].synced
                /\ s # curSeg => SegsWritten[s] = segs[s] /\ SegsFlushed[s] = segs[s]
           /\ SegsWritten[curSeg].len = segs[curSeg].len + bufLen
           /\ SegsWritten[curSeg].recs = segs[curSeg].recs \cup buf
           /\ dirty => SegsFlushed[curSeg].synced = SegsFlushed[curSeg].len
  <1>1. WriterShape /\ fileSeg = curSeg
    BY DEF WriterShape, Shape, FilesWellFormed, WriterInStep
  <1> QED  BY <1>1, WriterFlushOK

\* The entry that leads to the record of o reads back o and nothing else.
LEMMA ReadOK ==
    ASSUME TypeOK, Shape, NEW o \in Obj, NEW loc \in Loc, Located(segs, curSeg, buf, o, loc)
    PROVE  ReadAt(loc) = {o}
  <1> DEFINE f == SegsWritten[loc.seg]
             r == [off |-> loc.off, obj |-> o]
  <1>1. loc.seg \in SegIds /\ loc.len = RecLen[o] /\ f.exists /\ r \in f.recs
    <2>1. loc.seg \in SegIds /\ loc.len = RecLen[o] /\ segs[loc.seg].exists
          /\ (r \in segs[loc.seg].recs \/ (loc.seg = curSeg /\ r \in buf))
      BY DEF Located
    <2> QED  BY <2>1, FlushOK
  <1>2. f \in File /\ FileOK(f, {}, 0)
    BY <1>1, FlushOK
  <1>3. SegView(loc.seg) = f
    BY <1>1, FlushOK DEF SegView
  <1>4. loc.off + loc.len =< f.len
    BY <1>1, <1>2 DEF FileOK
  <1>5. \A x \in Obj : [off |-> loc.off, obj |-> x] \in f.recs => x = o
    BY <1>1, <1>2 DEF FileOK
  <1>6. DecodeAt(f, loc) = {o}
    BY <1>1, <1>5 DEF DecodeAt
  <1> QED  BY <1>1, <1>3, <1>4, <1>6 DEF ReadAt

-----------------------------------------------------------------------------
(* Type correctness and Shape *)

\* The location of an object that has none is a location outside the segments.
LEMMA NoLocOK == NoLoc \in Loc /\ NoSeg \notin SegIds /\ BadSeg \notin SegIds
  BY DEF NoLoc, Loc, NoSeg, BadSeg, SegIds

\* The process ends, by drop or by a crash, and leaves a well-formed disk.
LEMMA DownOK ==
    ASSUME TypeOK, Forget, segs' \in [SegIds -> File],
           \A s \in SegIds : FileOK(segs'[s], {}, 0),
           epi' \in Seq(Entry), epiSynced' \in Nat, EpiWellFormed',
           pending' = {}, wrote' = {}, promised' \in SUBSET Obj, durable' \in SUBSET promised',
           crashes' \in 0..MaxCrashes, ioErrors' \in 0..MaxIoErrors
    PROVE  TypeOK' /\ Shape'
  <1>1. TypeOK'
    <2>1. cache' \in Seq([key : Obj, val : Obj])
      BY DEF Forget
    <2>2. cacheCap' \in Nat \ {0} /\ 0 \in SegIds
      BY LruCapOK DEF Forget, SegIds
    <2>3. index' \in [Obj -> Loc]
      BY NoLocOK DEF Forget
    <2>4. epiTail' \in Obj \cup {NoTail, Junk}
      BY DEF EpiWellFormed
    <2> QED  BY <2>1, <2>2, <2>3, <2>4 DEF TypeOK, Forget
  <1>2. FilesWellFormed' /\ WriterInStep' /\ IndexInStep'
    <2>1. 0 \in SegIds
      BY DEF SegIds
    <2> QED  BY <2>1 DEF FilesWellFormed, WriterInStep, IndexInStep, Forget
  <1> QED  BY <1>1, <1>2 DEF Shape

\* put, from the state S of the files and b of the buffer that
\* ensure_segment_capacity leaves.
LEMMA WriteAndIndexOK ==
    ASSUME TypeOK, Shape, up, NEW o \in Obj, ~Contains(o),
           NEW S \in [SegIds -> File], NEW s \in SegIds, NEW b \in SUBSET Rec, NEW n \in Nat,
           \A t \in SegIds : FileOK(S[t], {}, 0), FileOK(S[s], b, n),
           S[s].exists, \A t \in SegIds : t > s => ~S[t].exists,
           WriteAndIndex(o, S, s, b, n, s, S[s].len + n),
           epiSynced' \in Nat, epiSynced' =< 2 * Len(epi), maps' \in SUBSET SegIds
    PROVE  TypeOK' /\ Shape'
  <1> DEFINE loc == [seg |-> s, off |-> S[s].len + n, len |-> RecLen[o]]
             ent == [hash |-> o, loc |-> loc]
  <1>1. /\ segs' = SegsAfterWrite(S, s, b, n, o) /\ buf' = BufAfterWrite(S, s, b, n, o)
        /\ bufLen' = BufLenAfterWrite(n, o)
        /\ index' = [index EXCEPT ![o] = loc]
        /\ curSeg' = s /\ fileSeg' = s /\ curOff' = S[s].len + n + RecLen[o] /\ dirty' = TRUE
        /\ cache' = LruInsert(cache, cacheCap, o, o)
        /\ pending' = pending \cup {o} /\ wrote' = wrote \cup {o}
        /\ UNCHANGED <<up, cacheCap, mmapCap, promised, durable, crashes, ioErrors>>
    BY DEF WriteAndIndex, Ack
  <1>2. epi' = Append(epi, ent) /\ epiTail' = NoTail
    BY DEF WriteAndIndex, InsertEntry, Shape, EpiWellFormed
  <1>3. S[s] \in File /\ S[s].len \in Nat /\ RecLen[o] \in Nat \ {0}
    BY DEF File
  <1>4. loc \in Loc /\ ent \in Entry
    BY <1>3 DEF Loc, Entry
  <1>5. /\ segs' \in [SegIds -> File] /\ buf' \in SUBSET Rec /\ bufLen' \in Nat
        /\ \A t \in SegIds : t # s => segs'[t] = S[t]
        /\ segs'[s].exists = S[s].exists
        /\ segs'[s].len + bufLen' = S[s].len + n + RecLen[o]
        /\ FileOK(segs'[s], buf', bufLen')
    <2>1. segs' = SegsAfterWrite(S, s, b, n, o) /\ buf' = BufAfterWrite(S, s, b, n, o)
          /\ bufLen' = BufLenAfterWrite(n, o)
      BY <1>1
    <2>2. WriteFacts(S, s, b, n, o, segs', buf', bufLen')
      BY <2>1, WriteOK
    <2> QED  BY <2>2 DEF WriteFacts
  <1>6. cache' \in Seq([key : Obj, val : Obj])
    <2>1. LruFacts(cache, cacheCap, o, o, cache')
      BY <1>1, LruInsertOK DEF TypeOK
    <2> QED  BY <2>1 DEF LruFacts
  <1>7. epi \in Seq(Entry) /\ Len(epi) \in Nat /\ epi' \in Seq(Entry) /\ Len(epi') = Len(epi) + 1
        /\ DOMAIN epi = 1..Len(epi) /\ DOMAIN epi' = 1..(Len(epi) + 1)
        /\ (\A i \in DOMAIN epi : epi'[i] = epi[i]) /\ epi'[Len(epi) + 1] = ent
    <2> HIDE DEF ent
    <2> QED  BY <1>2, <1>4 DEF TypeOK
  <1> HIDE DEF loc
  <1>8. TypeOK'
    <2>1. index' \in [Obj -> Loc]
      BY <1>1, <1>4 DEF TypeOK
    <2>2. curOff' \in Nat
      BY <1>1, <1>3
    <2>3. pending' \in SUBSET Obj /\ wrote' \in SUBSET pending'
      BY <1>1 DEF TypeOK
    <2> QED  BY <1>1, <1>2, <1>5, <1>6, <1>7, <2>1, <2>2, <2>3 DEF TypeOK
  <1>9. FilesWellFormed'
    <2>1. FileOK(segs'[s], {}, 0)
      BY <1>5 DEF FileOK
    <2> QED  BY <1>1, <1>5, <2>1 DEF FilesWellFormed
  <1>10. WriterInStep'
    <2>1. up' = TRUE
      BY <1>1 DEF TypeOK
    <2>2. \A t \in SegIds : t > s => t # s
      BY DEF SegIds
    <2> QED  BY <1>1, <1>5, <2>1, <2>2 DEF WriterInStep
  <1>11. \A i \in DOMAIN epi : epi[i].hash # o
    <2>1. \A i \in DOMAIN epi : index[epi[i].hash] = epi[i].loc /\ epi[i].loc.seg \in SegIds
      BY DEF Shape, IndexInStep, EpiWellFormed
    <2> QED  BY <2>1, NoLocOK DEF Contains
  <1>12. ent.hash = o /\ ent.loc = loc /\ loc.seg = s
    BY DEF loc
  <1>13. EpiWellFormed'
    <2>1. \A i \in DOMAIN epi : epi[i].hash \in Obj /\ epi[i].loc.seg \in SegIds
      BY DEF Shape, EpiWellFormed
    <2>2. \A i, j \in DOMAIN epi : epi[i].hash = epi[j].hash => i = j
      BY DEF Shape, EpiWellFormed
    <2>3. \A i \in DOMAIN epi' : i \in DOMAIN epi \/ i = Len(epi) + 1
      BY <1>7
    <2>4. \A i \in DOMAIN epi' : epi'[i].hash \in Obj /\ epi'[i].loc.seg \in SegIds
      BY <1>7, <1>12, <2>1, <2>3
    <2>5. \A i, j \in DOMAIN epi' : epi'[i].hash = epi'[j].hash => i = j
      BY <1>7, <1>11, <1>12, <2>2, <2>3
    <2>6. epiSynced' =< 2 * Len(epi')
      BY <1>7
    <2> QED  BY <1>2, <2>4, <2>5, <2>6 DEF EpiWellFormed
  <1>14. IndexInStep'
    <2>1. \A i \in DOMAIN epi : index[epi[i].hash] = epi[i].loc
      BY DEF Shape, IndexInStep
    <2>2. \A x \in Obj : index[x].seg # NoSeg => \E i \in DOMAIN epi : epi[i].hash = x
      BY DEF Shape, IndexInStep, Contains
    <2>3. \A i \in DOMAIN epi' : i \in DOMAIN epi \/ i = Len(epi) + 1
      BY <1>7
    <2>4. index'[o] = loc /\ \A x \in Obj : x # o => index'[x] = index[x]
      BY <1>1 DEF TypeOK
    <2>5. \A i \in DOMAIN epi : epi[i].hash \in Obj
      BY DEF Shape, EpiWellFormed
    <2>6. \A i \in DOMAIN epi' : index'[epi'[i].hash] = epi'[i].loc
      BY <1>7, <1>11, <1>12, <2>1, <2>3, <2>4, <2>5
    <2>7. ASSUME NEW x \in Obj, index'[x].seg # NoSeg
          PROVE  \E i \in DOMAIN epi' : epi'[i].hash = x
      <3>1. CASE x = o
        <4>1. Len(epi) + 1 \in DOMAIN epi' /\ epi'[Len(epi) + 1].hash = o
          BY <1>7, <1>12
        <4> QED  BY <3>1, <4>1
      <3>2. CASE x # o
        <4>1. PICK i \in DOMAIN epi : epi[i].hash = x
          BY <2>2, <2>4, <2>7, <3>2
        <4>2. i \in DOMAIN epi' /\ epi'[i].hash = x
          BY <1>7, <4>1
        <4> QED  BY <4>2
      <3> QED  BY <3>1, <3>2
    <2> QED  BY <2>6, <2>7 DEF IndexInStep, Contains
  <1> QED  BY <1>8, <1>9, <1>10, <1>13, <1>14 DEF Shape

\* rotate_segment adds an empty segment behind the flushed ones.
LEMMA RotateOK ==
    ASSUME TypeOK, Shape, up, curSeg < MaxSegId
    PROVE  /\ curSeg + 1 \in SegIds
           /\ SegsRotated \in [SegIds -> File]
           /\ \A s \in SegIds : FileOK(SegsRotated[s], {}, 0)
           /\ SegsRotated[curSeg + 1] = NewSegment
           /\ \A s \in SegIds : s # curSeg + 1 => SegsRotated[s] = SegsFlushed[s]
           /\ \A s \in SegIds : s > curSeg + 1 => ~SegsRotated[s].exists
           /\ ~segs[curSeg + 1].exists
  <1>1. curSeg + 1 \in SegIds /\ curSeg \in SegIds
    BY DEF TypeOK, SegIds
  <1>2. NewSegment \in File /\ FileOK(NewSegment, {}, 0)
    BY DEF NewSegment, File, FileOK
  <1>3. SegsFlushed \in [SegIds -> File]
        /\ \A s \in SegIds : FileOK(SegsFlushed[s], {}, 0) /\ SegsFlushed[s].exists = segs[s].exists
    BY FlushOK
  <1>4. \A s \in SegIds : s > curSeg => ~segs[s].exists
    BY DEF Shape, WriterInStep
  <1>5. \A s \in SegIds : s > curSeg + 1 => s > curSeg /\ s # curSeg + 1
    BY <1>1 DEF SegIds
  <1>6. SegsRotated = [SegsFlushed EXCEPT ![curSeg + 1] = NewSegment]
    BY DEF SegsRotated
  <1>7. curSeg + 1 > curSeg
    BY <1>1 DEF SegIds
  <1>8. \A s \in SegIds : s # curSeg + 1 => SegsRotated[s] = SegsFlushed[s]
    BY <1>3, <1>6
  <1>9. SegsRotated[curSeg + 1] = NewSegment
    BY <1>1, <1>3, <1>6
  <1>10. SegsRotated \in [SegIds -> File]
    BY <1>1, <1>2, <1>3, <1>6
  <1>11. \A s \in SegIds : FileOK(SegsRotated[s], {}, 0)
    BY <1>1, <1>2, <1>3, <1>8, <1>9
  <1>12. \A s \in SegIds : s > curSeg + 1 => ~SegsRotated[s].exists
    BY <1>3, <1>4, <1>5, <1>8
  <1> QED  BY <1>1, <1>4, <1>7, <1>8, <1>9, <1>10, <1>11, <1>12

\* flush leaves index.epi fsync'd up to an entry boundary.
LEMMA EpiSyncOK ==
    ASSUME TypeOK, Shape
    PROVE  /\ EpiSyncedAfterFlush \in Nat
           /\ EpiSyncedAfterFlush =< 2 * Len(epi)
           /\ epiSynced =< EpiSyncedAfterFlush
           /\ dirty => EpiSyncedAfterFlush = 2 * Len(epi)
           /\ MapsAfterFlush \in SUBSET SegIds
  <1>1. epiTail = NoTail /\ epiSynced =< 2 * Len(epi) /\ epiSynced \in Nat /\ Len(epi) \in Nat
        /\ maps \in SUBSET SegIds
    BY DEF TypeOK, Shape, EpiWellFormed
  <1> QED  BY <1>1 DEF EpiSyncedAfterFlush, HalfEntries, MapsAfterFlush

\* An empty store is well formed.
LEMMA InitShape == Init => TypeOK /\ Shape
  <1> SUFFICES ASSUME Init PROVE TypeOK /\ Shape
    OBVIOUS
  <1>1. NoFile \in File /\ FileOK(NoFile, {}, 0)
    BY DEF NoFile, File, FileOK
  <1>2. 0 \in SegIds /\ 0 \in 0..MaxCrashes /\ 0 \in 0..MaxIoErrors
    BY DEF SegIds
  <1>3. segs \in [SegIds -> File] /\ \A s \in SegIds : FileOK(segs[s], {}, 0)
    BY <1>1 DEF Init
  <1>4. TypeOK
    <2>1. index \in [Obj -> Loc] /\ cacheCap \in Nat \ {0} /\ cache \in Seq([key : Obj, val : Obj])
      BY NoLocOK, LruCapOK DEF Init
    <2>2. epi \in Seq(Entry) /\ epiTail \in Obj \cup {NoTail, Junk}
      <3> HIDE DEF Entry
      <3> QED  BY DEF Init
    <2>3. up \in BOOLEAN /\ dirty \in BOOLEAN
      BY DEF Init
    <2>4. wrote \in SUBSET pending /\ durable \in SUBSET promised /\ pending \in SUBSET Obj
          /\ promised \in SUBSET Obj /\ buf \in SUBSET Rec /\ maps \in SUBSET SegIds
      BY DEF Init
    <2>5. epiSynced \in Nat /\ curSeg \in SegIds /\ fileSeg \in SegIds /\ curOff \in Nat
          /\ bufLen \in Nat /\ mmapCap \in Nat /\ crashes \in 0..MaxCrashes
          /\ ioErrors \in 0..MaxIoErrors
      BY <1>2 DEF Init
    <2> QED  BY <1>3, <2>1, <2>2, <2>3, <2>4, <2>5 DEF TypeOK
  <1>5. FilesWellFormed /\ WriterInStep /\ EpiWellFormed /\ IndexInStep
    BY <1>2, <1>3 DEF Init, FilesWellFormed, WriterInStep, EpiWellFormed, IndexInStep
  <1> QED  BY <1>4, <1>5 DEF Shape

\* Index::open yields, for distinct hashes, exactly the entries of the file.
LEMMA LoadIndexOK ==
    ASSUME TypeOK, EpiWellFormed
    PROVE  /\ LoadIndex \in [Obj -> Loc]
           /\ \A i \in DOMAIN epi : LoadIndex[epi[i].hash] = epi[i].loc
           /\ \A o \in Obj : LoadIndex[o].seg # NoSeg => \E i \in DOMAIN epi : epi[i].hash = o
  <1>1. epi \in Seq(Entry) /\ DOMAIN epi = 1..Len(epi) /\ Len(epi) \in Nat
    BY DEF TypeOK
  <1>2. \A i \in DOMAIN epi : epi[i] \in Entry
    BY <1>1
  <1>3. \A i \in DOMAIN epi : epi[i].loc \in Loc /\ epi[i].hash \in Obj
    BY <1>2 DEF Entry, EpiWellFormed
  <1>4. \A i, j \in DOMAIN epi : epi[i].hash = epi[j].hash => i = j
    BY DEF EpiWellFormed
  <1>5. ASSUME NEW i \in DOMAIN epi PROVE LoadIndex[epi[i].hash] = epi[i].loc
    <2> DEFINE Last(k) == /\ epi[k].hash = epi[i].hash
                          /\ \A j \in DOMAIN epi : epi[j].hash = epi[i].hash => j =< k
    <2>1. Last(i)
      BY <1>1, <1>4
    <2>2. \A k \in DOMAIN epi : Last(k) => k = i
      BY <1>4
    <2>3. (CHOOSE k \in DOMAIN epi : Last(k)) = i
      BY <2>1, <2>2
    <2>4. epi[i].hash \in Obj
      BY <1>3
    <2> QED  BY <2>3, <2>4 DEF LoadIndex
  <1>6. ASSUME NEW o \in Obj, \A i \in DOMAIN epi : epi[i].hash # o PROVE LoadIndex[o] = NoLoc
    BY <1>6 DEF LoadIndex
  <1>7. ASSUME NEW o \in Obj PROVE LoadIndex[o] \in Loc
    BY <1>3, <1>5, <1>6, NoLocOK
  <1>8. LoadIndex \in [Obj -> Loc]
    <2>1. LoadIndex = [o \in Obj |-> LoadIndex[o]]
      BY DEF LoadIndex
    <2> QED  BY <1>7, <2>1
  <1>9. \A o \in Obj : LoadIndex[o].seg # NoSeg => \E i \in DOMAIN epi : epi[i].hash = o
    BY <1>6 DEF NoLoc
  <1> QED  BY <1>5, <1>8, <1>9

\* The BufWriter is emptied while the store stays open.
LEMMA EmptiedOK ==
    ASSUME TypeOK, Shape, up, NEW F \in {SegsWritten, SegsFlushed}, segs' = F,
           buf' = {}, bufLen' = 0, epiSynced' \in Nat, epiSynced' =< 2 * Len(epi),
           UNCHANGED <<epi, epiTail, up, index, curSeg, fileSeg, curOff>>
    PROVE  Shape' /\ segs' \in [SegIds -> File]
  <1>1. /\ F \in [SegIds -> File]
        /\ \A s \in SegIds : FileOK(F[s], {}, 0) /\ F[s].exists = segs[s].exists
        /\ F[curSeg].len = segs[curSeg].len + bufLen
        /\ curSeg \in SegIds
    BY FlushOK DEF TypeOK
  <1>2. F[curSeg].len \in Nat
    BY <1>1 DEF File
  <1>3. FilesWellFormed'
    BY <1>1 DEF FilesWellFormed
  <1>4. WriterInStep'
    BY <1>1, <1>2 DEF Shape, WriterInStep
  <1>5. EpiWellFormed' /\ IndexInStep'
    BY DEF Shape, EpiWellFormed, IndexInStep, Contains
  <1> QED  BY <1>1, <1>3, <1>4, <1>5 DEF Shape

\* Every step of CrashNext preserves type correctness and Shape.
LEMMA StepShape ==
    ASSUME TypeOK, Shape, [CrashNext]_vars
    PROVE  TypeOK' /\ Shape'
  <1>1. CASE Open
    <2>1. PICK s \in SegIds :
            /\ FindLatestSegment(s)
            /\ segs[s].exists => segs[s].len >= HeaderLen
            /\ segs' = IF segs[s].exists THEN segs ELSE [segs EXCEPT ![s] = NewSegment]
            /\ curSeg' = s /\ fileSeg' = s
            /\ curOff' = IF segs[s].exists THEN segs[s].len ELSE HeaderLen
      BY <1>1 DEF Open
    <2>2. NewSegment \in File /\ FileOK(NewSegment, {}, 0) /\ NewSegment.exists = TRUE
          /\ NewSegment.len = HeaderLen
      BY DEF NewSegment, File, FileOK
    <2>3. segs \in [SegIds -> File] /\ \A t \in SegIds : FileOK(segs[t], {}, 0)
      BY DEF TypeOK, Shape, FilesWellFormed
    <2>4. /\ segs' \in [SegIds -> File] /\ \A t \in SegIds : FileOK(segs'[t], {}, 0)
          /\ segs'[s].exists /\ segs'[s].len = curOff'
          /\ \A t \in SegIds : t # s => segs'[t] = segs[t]
      BY <2>1, <2>2, <2>3
    <2>5. \A t \in SegIds : t > s => ~segs[t].exists
      <3>1. \A t \in SegIds : segs[t].exists => t \in ExistingIds
        BY DEF ExistingIds
      <3> QED  BY <2>1, <3>1 DEF FindLatestSegment, SegIds
    <2>6. segs'[s].len \in Nat
      BY <2>4 DEF File
    <2>7. index' = LoadIndex /\ up' = TRUE /\ buf' = {} /\ bufLen' = 0 /\ dirty' = FALSE
          /\ cache' = <<>> /\ cacheCap' = LruCap(CacheCap) /\ maps' = {} /\ mmapCap' = MmapCap
          /\ UNCHANGED <<epi, epiTail, epiSynced, told, crashes, ioErrors>>
      BY <1>1 DEF Open
    <2>8. TypeOK'
      <3>1. index' \in [Obj -> Loc]
        BY <2>7, LoadIndexOK DEF Shape
      <3>2. cache' \in Seq([key : Obj, val : Obj]) /\ cacheCap' \in Nat \ {0}
        BY <2>7, LruCapOK
      <3> QED  BY <2>1, <2>4, <2>6, <2>7, <3>1, <3>2 DEF TypeOK, told
    <2>9. FilesWellFormed'
      BY <2>1, <2>4, <2>7 DEF FilesWellFormed
    <2>10. WriterInStep'
      <3>1. \A t \in SegIds : t > s => ~segs'[t].exists
        BY <2>4, <2>5 DEF SegIds
      <3> QED  BY <2>1, <2>4, <2>6, <2>7, <3>1 DEF WriterInStep
    <2>11. EpiWellFormed'
      BY <2>7 DEF Shape, EpiWellFormed
    <2>12. IndexInStep'
      BY <2>7, LoadIndexOK DEF Shape, IndexInStep, Contains
    <2> QED  BY <2>8, <2>9, <2>10, <2>11, <2>12 DEF Shape
  <1>2. ASSUME NEW o \in Obj, PutDedup(o) PROVE TypeOK' /\ Shape'
    <2>1. UNCHANGED <<disk, up, index, file, views, wrote, promised, durable, crashes, ioErrors>>
          /\ pending' = pending \cup {o} /\ up
      BY <1>2 DEF PutDedup, Ack
    <2>2. TypeOK'
      BY <2>1 DEF TypeOK, disk, file, views
    <2>3. FilesWellFormed' /\ WriterInStep' /\ EpiWellFormed' /\ IndexInStep'
      BY <2>1 DEF Shape, FilesWellFormed, WriterInStep, EpiWellFormed, IndexInStep, Contains,
                  disk, file, views
    <2> QED  BY <2>2, <2>3 DEF Shape
  <1>3. ASSUME NEW o \in Obj, PutInPlace(o) PROVE TypeOK' /\ Shape'
    <2>1. up /\ ~Contains(o) /\ UNCHANGED <<epiSynced, maps>>
          /\ WriteAndIndex(o, segs, fileSeg, buf, bufLen, curSeg, curOff)
      BY <1>3 DEF PutInPlace
    <2>2. fileSeg = curSeg /\ curOff = segs[curSeg].len + bufLen /\ segs[curSeg].exists
          /\ \A t \in SegIds : t > curSeg => ~segs[t].exists
      BY <2>1 DEF Shape, WriterInStep
    <2>3. (\A t \in SegIds : FileOK(segs[t], {}, 0)) /\ FileOK(segs[curSeg], buf, bufLen)
      BY DEF Shape, FilesWellFormed
    <2>4. epiSynced' \in Nat /\ epiSynced' =< 2 * Len(epi) /\ maps' \in SUBSET SegIds
      BY <2>1 DEF TypeOK, Shape, EpiWellFormed
    <2>5. segs \in [SegIds -> File] /\ curSeg \in SegIds /\ buf \in SUBSET Rec /\ bufLen \in Nat
      BY DEF TypeOK
    <2>6. WriteAndIndex(o, segs, curSeg, buf, bufLen, curSeg, segs[curSeg].len + bufLen)
      BY <2>1, <2>2
    <2> QED  BY <2>1, <2>2, <2>3, <2>4, <2>5, <2>6, WriteAndIndexOK
  <1>4. ASSUME NEW o \in Obj, PutRotating(o) PROVE TypeOK' /\ Shape'
    <2> DEFINE id == curSeg + 1
    <2>1. up /\ ~Contains(o) /\ curSeg < MaxSegId /\ epiSynced' = EpiSyncedAfterFlush
          /\ maps' = MapsAfterFlush
          /\ WriteAndIndex(o, SegsRotated, id, {}, 0, id, HeaderLen)
      BY <1>4 DEF PutRotating
    <2>2. /\ id \in SegIds /\ SegsRotated \in [SegIds -> File]
          /\ \A t \in SegIds : FileOK(SegsRotated[t], {}, 0)
          /\ SegsRotated[id] = NewSegment
          /\ \A t \in SegIds : t > id => ~SegsRotated[t].exists
      BY <2>1, RotateOK
    <2>3. SegsRotated[id].exists /\ SegsRotated[id].len + 0 = HeaderLen
      BY <2>2 DEF NewSegment
    <2>4. epiSynced' \in Nat /\ epiSynced' =< 2 * Len(epi) /\ maps' \in SUBSET SegIds
      BY <2>1, EpiSyncOK
    <2>5. WriteAndIndex(o, SegsRotated, id, {}, 0, id, SegsRotated[id].len + 0)
      BY <2>1, <2>3
    <2> HIDE DEF id
    <2>6. {} \in SUBSET Rec /\ 0 \in Nat /\ FileOK(SegsRotated[id], {}, 0)
      BY <2>2
    <2> QED  BY <2>1, <2>2, <2>3, <2>4, <2>5, <2>6, WriteAndIndexOK
  <1>5. ASSUME NEW o \in Obj, PutOverflow(o) PROVE TypeOK' /\ Shape'
    <2>1. up /\ segs' = SegsFlushed /\ buf' = {} /\ bufLen' = 0 /\ dirty' = FALSE
          /\ epiSynced' = EpiSyncedAfterFlush /\ maps' = MapsAfterFlush
          /\ UNCHANGED <<epi, epiTail, up, index, curSeg, fileSeg, curOff, cache, cacheCap,
                         mmapCap, told, crashes, ioErrors>>
      BY <1>5 DEF PutOverflow
    <2>2. epiSynced' \in Nat /\ epiSynced' =< 2 * Len(epi) /\ maps' \in SUBSET SegIds
      BY <2>1, EpiSyncOK
    <2>3. Shape' /\ segs' \in [SegIds -> File]
      BY <2>1, <2>2, EmptiedOK
    <2>4. TypeOK'
      BY <2>1, <2>2, <2>3 DEF TypeOK, told
    <2> QED  BY <2>3, <2>4
  <1>6. CASE Flush
    <2>1. up /\ segs' = SegsFlushed /\ buf' = {} /\ bufLen' = 0 /\ dirty' = FALSE
          /\ epiSynced' = EpiSyncedAfterFlush /\ maps' = MapsAfterFlush
          /\ promised' = promised \cup pending /\ durable' = durable \cup wrote
          /\ pending' = {} /\ wrote' = {}
          /\ UNCHANGED <<epi, epiTail, up, index, curSeg, fileSeg, curOff, cache, cacheCap,
                         mmapCap, crashes, ioErrors>>
      BY <1>6 DEF Flush, FlushDisk, Promise
    <2>2. epiSynced' \in Nat /\ epiSynced' =< 2 * Len(epi) /\ maps' \in SUBSET SegIds
      BY <2>1, EpiSyncOK
    <2>3. Shape' /\ segs' \in [SegIds -> File]
      BY <2>1, <2>2, EmptiedOK
    <2>4. TypeOK'
      BY <2>1, <2>2, <2>3 DEF TypeOK
    <2> QED  BY <2>3, <2>4
  <1>7. ASSUME NEW o \in Obj, GetMiss(o) PROVE TypeOK' /\ Shape'
    <2>1. /\ up /\ index[o].seg \in SegIds
          /\ maps' = MapsAfterRead(index[o].seg)
          /\ UNCHANGED <<epi, epiTail, epiSynced, up, index, curSeg, fileSeg, curOff, dirty,
                         cacheCap, mmapCap, told, crashes, ioErrors>>
      BY <1>7 DEF GetMiss
    <2>2. cache' \in Seq([key : Obj, val : Obj])
      <3>1. ReadAt(index[o]) \subseteq Obj
        BY DEF ReadAt, DecodeAt
      <3>2. cache \in Seq([key : Obj, val : Obj]) /\ cacheCap \in Nat \ {0}
        BY DEF TypeOK
      <3>3. \/ cache' = cache
            \/ \E x \in ReadAt(index[o]) : cache' = LruInsert(cache, cacheCap, o, x)
        BY <1>7 DEF GetMiss
      <3>4. ASSUME NEW x \in ReadAt(index[o]), cache' = LruInsert(cache, cacheCap, o, x)
            PROVE  cache' \in Seq([key : Obj, val : Obj])
        <4>1. LruFacts(cache, cacheCap, o, x, cache')
          BY <3>1, <3>2, <3>4, LruInsertOK
        <4> QED  BY <4>1 DEF LruFacts
      <3> QED  BY <3>2, <3>3, <3>4
    <2>3. maps' \in SUBSET SegIds
      BY <2>1 DEF MapsAfterRead, KeepLargest, TypeOK
    <2>4. epiSynced' \in Nat /\ epiSynced' =< 2 * Len(epi)
      BY <2>1 DEF TypeOK, Shape, EpiWellFormed
    <2>5. CASE segs' = SegsWritten /\ buf' = {} /\ bufLen' = 0
      <3>1. Shape' /\ segs' \in [SegIds -> File]
        BY <2>1, <2>4, <2>5, EmptiedOK
      <3>2. TypeOK'
        BY <2>1, <2>2, <2>3, <2>4, <2>5, <3>1 DEF TypeOK, told
      <3> QED  BY <3>1, <3>2
    <2>6. CASE UNCHANGED <<segs, buf, bufLen>>
      <3>1. TypeOK'
        BY <2>1, <2>2, <2>3, <2>6 DEF TypeOK, told
      <3>2. FilesWellFormed' /\ WriterInStep' /\ EpiWellFormed' /\ IndexInStep'
        BY <2>1, <2>6 DEF Shape, FilesWellFormed, WriterInStep, EpiWellFormed, IndexInStep, Contains
      <3> QED  BY <3>1, <3>2 DEF Shape
    <2> QED  BY <1>7, <2>5, <2>6 DEF GetMiss
  <1>8. CASE Drop
    <2>1. Forget /\ segs' = SegsFlushed /\ epiSynced' = EpiSyncedAfterFlush
          /\ promised' = promised \cup pending /\ durable' = durable \cup wrote
          /\ pending' = {} /\ wrote' = {} /\ UNCHANGED <<epi, epiTail, crashes, ioErrors>>
      BY <1>8 DEF Drop, FlushDisk, Promise
    <2>2. segs' \in [SegIds -> File] /\ \A s \in SegIds : FileOK(segs'[s], {}, 0)
      BY <2>1, FlushOK
    <2>3. epiSynced' \in Nat /\ epiSynced' =< 2 * Len(epi)
      BY <2>1, EpiSyncOK
    <2>4. EpiWellFormed' /\ epi' \in Seq(Entry)
      BY <2>1, <2>3 DEF Shape, EpiWellFormed, TypeOK
    <2>5. promised' \in SUBSET Obj /\ durable' \in SUBSET promised'
          /\ crashes' \in 0..MaxCrashes /\ ioErrors' \in 0..MaxIoErrors
      BY <2>1 DEF TypeOK
    <2> QED  BY <2>1, <2>2, <2>3, <2>4, <2>5, DownOK
  <1>9. ASSUME NEW c \in CapChoices, ConfigureCaches(c[1], c[2]) PROVE TypeOK' /\ Shape'
    <2>1. /\ up /\ cache' = <<>> /\ cacheCap' = LruCap(c[1]) /\ mmapCap' = c[2]
          /\ maps' = KeepLargest(maps, c[2])
          /\ UNCHANGED <<disk, up, index, file, told, crashes, ioErrors>>
      BY <1>9 DEF ConfigureCaches
    <2>2. c[1] \in Nat /\ c[2] \in Nat
      OBVIOUS
    <2>3. cacheCap' \in Nat \ {0} /\ mmapCap' \in Nat /\ maps' \in SUBSET SegIds
      BY <2>1, <2>2, LruCapOK DEF KeepLargest, TypeOK
    <2>4. cache' \in Seq([key : Obj, val : Obj])
      BY <2>1
    <2>5. TypeOK'
      BY <2>1, <2>3, <2>4 DEF TypeOK, disk, file, told
    <2>6. FilesWellFormed' /\ WriterInStep' /\ EpiWellFormed' /\ IndexInStep'
      BY <2>1 DEF Shape, FilesWellFormed, WriterInStep, EpiWellFormed, IndexInStep, Contains,
                  disk, file, told
    <2> QED  BY <2>5, <2>6 DEF Shape
  <1>10. ASSUME CrashStep, segs' \in [SegIds -> File],
                \A s \in SegIds : FileOK(segs'[s], {}, 0),
                epi' \in Seq(Entry), epiSynced' \in Nat, EpiWellFormed'
         PROVE  TypeOK' /\ Shape'
    <2>1. Forget /\ pending' = {} /\ wrote' = {} /\ UNCHANGED <<promised, durable, ioErrors>>
          /\ crashes < MaxCrashes /\ crashes' = crashes + 1
      BY <1>10 DEF CrashStep
    <2>2. promised' \in SUBSET Obj /\ durable' \in SUBSET promised'
          /\ crashes' \in 0..MaxCrashes /\ ioErrors' \in 0..MaxIoErrors
      BY <2>1 DEF TypeOK
    <2> QED  BY <1>10, <2>1, <2>2, DownOK
  <1>11. CASE Kill
    <2>1. CrashStep /\ UNCHANGED <<segs, epi, epiTail, epiSynced>>
      BY <1>11 DEF Kill, disk
    <2> QED  BY <1>10, <2>1 DEF TypeOK, Shape, FilesWellFormed, EpiWellFormed
  <1>12. ASSUME NEW o \in Obj, KillBeforeInsert(o) PROVE TypeOK' /\ Shape'
    <2>1. CrashStep /\ UNCHANGED <<epi, epiTail, epiSynced>>
          /\ segs' = SegsAfterWrite(segs, fileSeg, buf, bufLen, o)
      BY <1>12 DEF KillBeforeInsert
    <2>2. segs \in [SegIds -> File] /\ curSeg \in SegIds /\ fileSeg = curSeg /\ buf \in SUBSET Rec
          /\ bufLen \in Nat /\ FileOK(segs[curSeg], buf, bufLen)
          /\ \A s \in SegIds : FileOK(segs[s], {}, 0)
      BY DEF TypeOK, Shape, FilesWellFormed, WriterInStep
    <2>3. WriteFacts(segs, curSeg, buf, bufLen, o, segs',
                     BufAfterWrite(segs, curSeg, buf, bufLen, o), BufLenAfterWrite(bufLen, o))
      BY <2>1, <2>2, WriteOK
    <2>4. FileOK(segs'[curSeg], {}, 0)
      BY <2>3 DEF WriteFacts, FileOK
    <2>5. segs' \in [SegIds -> File] /\ \A s \in SegIds : FileOK(segs'[s], {}, 0)
      BY <2>2, <2>3, <2>4 DEF WriteFacts
    <2> QED  BY <1>10, <2>1, <2>5 DEF TypeOK, Shape, EpiWellFormed
  <1>13. ASSUME NEW o \in Obj, KillAfterRotate(o) PROVE TypeOK' /\ Shape'
    <2>1. CrashStep /\ UNCHANGED <<epi, epiTail>> /\ epiSynced' = EpiSyncedAfterFlush
          /\ segs' = SegsRotated /\ up /\ curSeg < MaxSegId
      BY <1>13 DEF KillAfterRotate
    <2>2. segs' \in [SegIds -> File] /\ \A s \in SegIds : FileOK(segs'[s], {}, 0)
      BY <2>1, RotateOK
    <2>3. epiSynced' \in Nat /\ epiSynced' =< 2 * Len(epi)
      BY <2>1, EpiSyncOK
    <2> QED  BY <1>10, <2>1, <2>2, <2>3 DEF TypeOK, Shape, EpiWellFormed
  <1>14. CASE PowerLoss
    <2>1. CrashStep /\ LoseSegmentTails /\ epiTail' = NoTail
      BY <1>14 DEF PowerLoss
    <2>2. PICK k \in 0..Len(epi) :
            2 * k >= epiSynced /\ epi' = SubSeq(epi, 1, k) /\ epiSynced' = 2 * k
      BY <1>14 DEF PowerLoss
    <2>3. PICK cut \in [SegIds -> CutPoints] :
            /\ \A s \in SegIds : cut[s] \in segs[s].synced .. segs[s].len
            /\ segs' = [s \in SegIds |-> Cut(segs[s], cut[s])]
      BY <2>1 DEF LoseSegmentTails
    <2>4. \A s \in SegIds : Cut(segs[s], cut[s]) \in File /\ FileOK(Cut(segs[s], cut[s]), {}, 0)
      <3>1. \A s \in SegIds : segs[s] \in File /\ FileOK(segs[s], {}, 0)
        BY DEF TypeOK, Shape, FilesWellFormed
      <3> QED  BY <2>3, <3>1, CutOK
    <2>5. segs' \in [SegIds -> File] /\ \A s \in SegIds : FileOK(segs'[s], {}, 0)
      BY <2>3, <2>4
    <2>6. epi' \in Seq(Entry) /\ Len(epi') = k /\ k \in Nat /\ DOMAIN epi' = 1..k
          /\ \A i \in 1..k : i \in DOMAIN epi /\ epi'[i] = epi[i]
      <3> HIDE DEF Entry
      <3>1. epi \in Seq(Entry)
        BY DEF TypeOK
      <3>2. k \in Nat
        BY <2>2
      <3> QED  BY <2>2, <3>1, <3>2, PrefixOK
    <2>7. EpiWellFormed'
      BY <2>1, <2>2, <2>6 DEF Shape, EpiWellFormed
    <2>8. epiSynced' \in Nat
      BY <2>2, <2>6
    <2> QED  BY <1>10, <2>1, <2>5, <2>6, <2>7, <2>8
  <1>15. CASE UNCHANGED vars
    <2>1. TypeOK'
      BY <1>15 DEF vars, disk, file, views, told, TypeOK
    <2>2. FilesWellFormed' /\ WriterInStep' /\ EpiWellFormed' /\ IndexInStep'
      BY <1>15 DEF vars, disk, file, views, told, Shape, FilesWellFormed, WriterInStep,
                   EpiWellFormed, IndexInStep, Contains
    <2> QED  BY <2>1, <2>2 DEF Shape
  <1>16. ASSUME NEW o \in Obj, GetHit(o) PROVE TypeOK' /\ Shape'
    BY <1>15, <1>16 DEF GetHit
  <1> QED
    BY <1>1, <1>2, <1>3, <1>4, <1>5, <1>6, <1>7, <1>8, <1>9, <1>11, <1>12, <1>13, <1>14,
       <1>15, <1>16 DEF CrashNext, CleanNext

-----------------------------------------------------------------------------
(* What a step does to the records and entries that are fsync'd *)

\* Nothing that is fsync'd is lost.
SyncedKept ==
    /\ \A s \in SegIds : segs[s].exists =>
        /\ segs'[s].exists
        /\ segs[s].synced =< segs'[s].synced
        /\ \A r \in segs[s].recs : r.off + RecLen[r.obj] =< segs[s].synced => r \in segs'[s].recs
    /\ epiSynced =< epiSynced'
    /\ \A i \in DOMAIN epi : 2 * i =< epiSynced => i \in DOMAIN epi' /\ epi'[i] = epi[i]

\* So a record on disk stays on disk.
LEMMA OnDiskKept ==
    ASSUME TypeOK, TypeOK', SyncedKept, NEW o \in Obj, NEW loc \in Loc, OnDisk(segs, o, loc)
    PROVE  OnDisk(segs', o, loc)
  <1> DEFINE r == [off |-> loc.off, obj |-> o]
  <1>1. /\ loc.seg \in SegIds /\ loc.len = RecLen[o] /\ segs[loc.seg].exists
        /\ r \in segs[loc.seg].recs /\ loc.off + loc.len =< segs[loc.seg].synced
    BY DEF OnDisk
  <1>2. r.off = loc.off /\ r.obj = o
    OBVIOUS
  <1>3. /\ segs'[loc.seg].exists /\ segs[loc.seg].synced =< segs'[loc.seg].synced
        /\ r \in segs'[loc.seg].recs
    BY <1>1, <1>2 DEF SyncedKept
  <1>4. segs[loc.seg].synced \in Nat /\ segs'[loc.seg].synced \in Nat /\ loc.off + loc.len \in Nat
    <2>1. segs[loc.seg] \in File /\ segs'[loc.seg] \in File
      BY <1>1 DEF TypeOK
    <2> QED  BY <2>1 DEF File, Loc
  <1>5. loc.off + loc.len =< segs'[loc.seg].synced
    BY <1>1, <1>3, <1>4
  <1> QED  BY <1>1, <1>3, <1>5 DEF OnDisk

\* The entries of index.epi are numbered from 1 and hold locations.
LEMMA EpiFacts ==
    ASSUME TypeOK
    PROVE  /\ Len(epi) \in Nat /\ DOMAIN epi = 1..Len(epi)
           /\ \A i \in DOMAIN epi : epi[i].loc \in Loc /\ i \in Nat
  <1>1. epi \in Seq(Entry)
    BY DEF TypeOK
  <1>2. \A i \in DOMAIN epi : epi[i] \in Entry
    <2> HIDE DEF Entry
    <2> QED  BY <1>1
  <1> QED  BY <1>1, <1>2 DEF Entry

\* A step that keeps what is fsync'd keeps the flushed objects on disk.
LEMMA DurableKept ==
    ASSUME TypeOK, TypeOK', SyncedKept, DurableOnDisk
    PROVE  \A o \in durable : \E i \in DOMAIN epi' :
                epi'[i].hash = o /\ 2 * i =< epiSynced' /\ OnDisk(segs', o, epi'[i].loc)
  <1> TAKE o \in durable
  <1>1. PICK i \in DOMAIN epi : epi[i].hash = o /\ 2 * i =< epiSynced /\ OnDisk(segs, o, epi[i].loc)
    BY DEF DurableOnDisk
  <1>2. i \in DOMAIN epi' /\ epi'[i] = epi[i] /\ epiSynced =< epiSynced'
    BY <1>1 DEF SyncedKept
  <1>3. epi[i].loc \in Loc /\ i \in Nat /\ o \in Obj
    BY EpiFacts DEF TypeOK
  <1>4. OnDisk(segs', o, epi[i].loc)
    BY <1>1, <1>3, OnDiskKept
  <1>5. OnDisk(segs', o, epi'[i].loc)
    BY <1>2, <1>4
  <1>6. epiSynced \in Nat /\ epiSynced' \in Nat
    BY DEF TypeOK
  <1>7. 2 * i =< epiSynced'
    BY <1>1, <1>2, <1>3, <1>6
  <1> QED  BY <1>1, <1>2, <1>5, <1>7

\* The files of a later state show every record that the files of this one show
\* or buffer, as rotate_segment and flush leave them.
LEMMA FlushKeeps ==
    ASSUME TypeOK, Shape, NEW o \in Obj, NEW loc \in Loc, Located(segs, curSeg, buf, o, loc)
    PROVE  /\ Located(SegsWritten, curSeg, {}, o, loc)
           /\ Located(SegsFlushed, curSeg, {}, o, loc)
           /\ dirty /\ loc.seg = curSeg => OnDisk(SegsFlushed, o, loc)
  <1> DEFINE r == [off |-> loc.off, obj |-> o]
  <1>1. /\ loc.seg \in SegIds /\ loc.len = RecLen[o] /\ segs[loc.seg].exists
        /\ (r \in segs[loc.seg].recs \/ (loc.seg = curSeg /\ r \in buf))
    BY DEF Located
  <1>2. /\ SegsWritten[loc.seg].exists /\ SegsFlushed[loc.seg].exists
        /\ r \in SegsWritten[loc.seg].recs
        /\ SegsFlushed[loc.seg].recs = SegsWritten[loc.seg].recs
    BY <1>1, FlushOK
  <1>3. ASSUME dirty, loc.seg = curSeg PROVE OnDisk(SegsFlushed, o, loc)
    <2>1. SegsFlushed[curSeg].synced = SegsFlushed[curSeg].len /\ FileOK(SegsFlushed[curSeg], {}, 0)
      BY <1>1, <1>3, FlushOK
    <2>2. r \in SegsFlushed[curSeg].recs /\ r.off = loc.off /\ r.obj = o
      BY <1>2, <1>3
    <2>3. loc.off + RecLen[o] =< SegsFlushed[curSeg].len
      BY <2>1, <2>2 DEF FileOK
    <2> QED  BY <1>1, <1>2, <1>3, <2>1, <2>2, <2>3 DEF OnDisk
  <1> QED  BY <1>1, <1>2, <1>3 DEF Located

\* flush and the flush inside rotate_segment lose nothing that is fsync'd.
LEMMA FlushSyncedKept ==
    ASSUME TypeOK, Shape, NEW F \in {segs, SegsWritten, SegsFlushed},
           \A s \in SegIds : segs[s].exists => segs'[s] = F[s],
           epiSynced =< epiSynced', \A i \in DOMAIN epi : i \in DOMAIN epi' /\ epi'[i] = epi[i]
    PROVE  SyncedKept
  <1>1. \A s \in SegIds : /\ F[s].exists = segs[s].exists /\ segs[s].recs \subseteq F[s].recs
                          /\ segs[s].synced =< F[s].synced
    <2>1. \A s \in SegIds : segs[s].synced \in Nat
      BY DEF TypeOK, File
    <2> QED  BY <2>1, FlushOK
  <1> QED  BY <1>1 DEF SyncedKept

\* An object that is written or flushed reads back as itself.
LEMMA MineReadable ==
    ASSUME CrashInv, up, NEW o \in durable \cup wrote
    PROVE  o \in Obj /\ Contains(o) /\ ReadAt(index[o]) = {o}
  <1>1. TypeOK /\ Shape /\ DurableOnDisk /\ WroteLocated
    BY DEF CrashInv
  <1>2. o \in Obj
    BY <1>1 DEF TypeOK
  <1>3. PICK i \in DOMAIN epi : epi[i].hash = o /\ Located(segs, curSeg, buf, o, epi[i].loc)
    BY <1>1 DEF DurableOnDisk, WroteLocated, OnDisk, Located
  <1>4. index[o] = epi[i].loc /\ epi[i].loc.seg \in SegIds /\ epi[i].loc \in Loc
    BY <1>1, <1>3, EpiFacts DEF Shape, IndexInStep, EpiWellFormed
  <1>5. Contains(o)
    BY <1>4, NoLocOK DEF Contains
  <1>6. ReadAt(index[o]) = {o}
    BY <1>1, <1>2, <1>3, <1>4, ReadOK
  <1> QED  BY <1>2, <1>5, <1>6

\* So get returns the right payload for it, from the cache or from the files.
LEMMA CrashInvReadable == CrashInv => DurableReadable
  <1> SUFFICES ASSUME CrashInv, up, NEW o \in durable
               PROVE  Contains(o) /\ GetPayload(o) = {o}
    BY DEF DurableReadable
  <1>1. o \in Obj /\ Contains(o) /\ ReadAt(index[o]) = {o}
    BY MineReadable
  <1>2. CASE LruHas(cache, o)
    <2>1. cache \in Seq([key : Obj, val : Obj]) /\ CacheTrue
      BY DEF CrashInv, TypeOK
    <2>2. PICK i \in DOMAIN cache : cache[i].key = o /\ LruGet(cache, o) = cache[i].val
      BY <1>2, <2>1, LruGetOK
    <2>3. LruGet(cache, o) = o
      BY <2>1, <2>2 DEF CacheTrue
    <2> QED  BY <1>1, <1>2, <2>3 DEF GetPayload
  <1> QED  BY <1>1, <1>2 DEF GetPayload

-----------------------------------------------------------------------------
(* Every step preserves the rest of the invariant *)

\* put, from the files S and the buffer b that ensure_segment_capacity leaves:
\* they hold everything that was written since the last flush.
LEMMA WriteAndIndexCrash ==
    ASSUME CrashInv, TypeOK', up, NEW o \in Obj,
           NEW S \in [SegIds -> File], NEW s \in SegIds, NEW b \in SUBSET Rec, NEW n \in Nat,
           FileOK(S[s], b, n), S[s].exists,
           WriteAndIndex(o, S, s, b, n, s, S[s].len + n),
           epiSynced =< epiSynced',
           \A t \in SegIds : segs[t].exists =>
                S[t].exists /\ segs[t].synced =< S[t].synced /\ segs[t].recs \subseteq S[t].recs,
           \A x \in Obj, loc \in Loc :
                /\ Located(segs, curSeg, buf, x, loc)
                /\ (dirty /\ loc.seg = curSeg) \/ OnDisk(segs, x, loc)
                => Located(S, s, b, x, loc) /\ (loc.seg = s \/ OnDisk(S, x, loc))
    PROVE  DurableOnDisk' /\ WroteLocated' /\ CacheTrue'
  <1> DEFINE new == [seg |-> s, off |-> S[s].len + n, len |-> RecLen[o]]
             ent == [hash |-> o, loc |-> new]
  <1>1. /\ segs' = SegsAfterWrite(S, s, b, n, o) /\ buf' = BufAfterWrite(S, s, b, n, o)
        /\ bufLen' = BufLenAfterWrite(n, o)
        /\ curSeg' = s /\ dirty' = TRUE
        /\ cache' = LruInsert(cache, cacheCap, o, o)
        /\ wrote' = wrote \cup {o} /\ durable' = durable
    BY DEF WriteAndIndex
  <1>2. TypeOK /\ Shape /\ DurableOnDisk /\ WroteLocated /\ CacheTrue
    BY DEF CrashInv
  <1>3. epi' = Append(epi, ent)
    BY <1>2 DEF WriteAndIndex, InsertEntry, Shape, EpiWellFormed
  <1>4. new \in Loc /\ ent \in Entry /\ S[s].len \in Nat
    BY DEF Loc, Entry, File
  <1>5. Len(epi) \in Nat /\ DOMAIN epi = 1..Len(epi) /\ DOMAIN epi' = 1..(Len(epi) + 1)
        /\ (\A i \in DOMAIN epi : epi'[i] = epi[i]) /\ epi'[Len(epi) + 1] = ent
    <2> HIDE DEF ent
    <2>1. epi \in Seq(Entry)
      BY <1>2 DEF TypeOK
    <2> QED  BY <1>3, <1>4, <2>1
  <1>6. WriteFacts(S, s, b, n, o, segs', buf', bufLen')
    BY <1>1, WriteOK
  <1>7. \A t \in SegIds : /\ segs'[t].exists = S[t].exists /\ segs'[t].synced = S[t].synced
                          /\ S[t].recs \subseteq segs'[t].recs
    BY <1>6 DEF WriteFacts
  <1>8. \A i \in DOMAIN epi : i \in DOMAIN epi' /\ epi'[i] = epi[i]
    BY <1>5
  <1>9. SyncedKept
    BY <1>7, <1>8 DEF SyncedKept
  <1>10. DurableOnDisk'
    BY <1>1, <1>2, <1>9, DurableKept DEF DurableOnDisk
  <1>11. ASSUME NEW x \in Obj, NEW loc \in Loc
         PROVE  /\ Located(S, s, b, x, loc) => Located(segs', s, buf', x, loc)
                /\ OnDisk(S, x, loc) => OnDisk(segs', x, loc)
    <2>1. segs'[s].recs \cup buf' = S[s].recs \cup b \cup {WrittenRec(S, s, n, o)}
          /\ \A t \in SegIds : t # s => segs'[t] = S[t]
      BY <1>6 DEF WriteFacts
    <2> QED  BY <1>7, <2>1 DEF Located, OnDisk
  <1>12. Located(segs', s, buf', o, new)
    <2>1. segs'[s].recs \cup buf' = S[s].recs \cup b \cup {WrittenRec(S, s, n, o)}
      BY <1>6 DEF WriteFacts
    <2>2. WrittenRec(S, s, n, o) = [off |-> new.off, obj |-> o] /\ new.seg = s /\ new.len = RecLen[o]
      BY DEF WrittenRec
    <2> QED  BY <1>7, <2>1, <2>2 DEF Located
  <1>13. WroteLocated'
    <2> SUFFICES ASSUME NEW x \in wrote'
                 PROVE  \E i \in DOMAIN epi' :
                            /\ epi'[i].hash = x
                            /\ Located(segs', curSeg', buf', x, epi'[i].loc)
                            /\ dirty' \/ 2 * i =< epiSynced'
                            /\ (dirty' /\ epi'[i].loc.seg = curSeg') \/ OnDisk(segs', x, epi'[i].loc)
      BY DEF WroteLocated
    <2>1. CASE x = o
      <3>1. Len(epi) + 1 \in DOMAIN epi' /\ ent.hash = o /\ ent.loc = new /\ new.seg = s
        BY <1>5
      <3> QED  BY <1>1, <1>5, <1>12, <2>1, <3>1
    <2>2. CASE x \in wrote
      <3>1. PICK i \in DOMAIN epi :
                /\ epi[i].hash = x /\ Located(segs, curSeg, buf, x, epi[i].loc)
                /\ (dirty /\ epi[i].loc.seg = curSeg) \/ OnDisk(segs, x, epi[i].loc)
        BY <1>2, <2>2 DEF WroteLocated
      <3>2. epi[i].loc \in Loc /\ x \in Obj
        BY <1>2, <2>2, EpiFacts DEF TypeOK
      <3>3. Located(S, s, b, x, epi[i].loc) /\ (epi[i].loc.seg = s \/ OnDisk(S, x, epi[i].loc))
        BY <3>1, <3>2
      <3>4. Located(segs', s, buf', x, epi[i].loc)
            /\ (epi[i].loc.seg = s \/ OnDisk(segs', x, epi[i].loc))
        BY <1>11, <3>2, <3>3
      <3>5. i \in DOMAIN epi' /\ epi'[i] = epi[i]
        BY <1>8
      <3> QED  BY <1>1, <3>1, <3>4, <3>5
    <2> QED  BY <1>1, <2>1, <2>2
  <1>14. CacheTrue'
    <2>1. LruFacts(cache, cacheCap, o, o, cache')
      BY <1>1, <1>2, LruInsertOK DEF TypeOK
    <2> SUFFICES ASSUME NEW i \in DOMAIN cache', cache'[i].key \in durable' \cup wrote'
                 PROVE  cache'[i].val = cache'[i].key
      BY DEF CacheTrue
    <2>2. CASE cache'[i] = [key |-> o, val |-> o]
      BY <2>2
    <2>3. CASE cache'[i].key # o /\ \E j \in DOMAIN cache : cache'[i] = cache[j]
      <3>1. cache'[i].key \in durable \cup wrote
        BY <1>1, <2>3
      <3> QED  BY <1>2, <2>3, <3>1 DEF CacheTrue
    <2> QED  BY <2>1, <2>2, <2>3 DEF LruFacts
  <1> QED  BY <1>10, <1>13, <1>14

\* Every step of CrashNext preserves CrashInv.
LEMMA StepCrash ==
    ASSUME CrashInv, [CrashNext]_vars
    PROVE  CrashInv'
  <1>1. TypeOK /\ Shape /\ DurableOnDisk /\ WroteLocated /\ CacheTrue
    BY DEF CrashInv
  <1>2. TypeOK' /\ Shape'
    BY <1>1, StepShape
  <1> SUFFICES DurableOnDisk' /\ WroteLocated' /\ CacheTrue'
    BY <1>2 DEF CrashInv
  <1>3. ASSUME UNCHANGED <<segs, epi, epiSynced, buf, curSeg, dirty, wrote, durable>>
        PROVE  DurableOnDisk' /\ WroteLocated'
    BY <1>1, <1>3 DEF DurableOnDisk, WroteLocated
  <1>4. ASSUME SyncedKept, wrote' = {}, durable' = durable, cache' = <<>>
        PROVE  DurableOnDisk' /\ WroteLocated' /\ CacheTrue'
    BY <1>1, <1>2, <1>4, DurableKept DEF DurableOnDisk, WroteLocated, CacheTrue
  <1>5. epiSynced \in Nat /\ EpiSyncedAfterFlush \in Nat /\ epiSynced =< EpiSyncedAfterFlush
        /\ epiSynced =< epiSynced
    BY <1>1, EpiSyncOK DEF TypeOK
  \* after the flush what was written since the last one is on disk
  <1>6. ASSUME segs' = SegsFlushed, epiSynced' = EpiSyncedAfterFlush, epi' = epi, NEW o \in wrote
        PROVE  \E i \in DOMAIN epi' : /\ epi'[i].hash = o /\ 2 * i =< epiSynced'
                                     /\ Located(segs', curSeg, {}, o, epi'[i].loc)
                                     /\ OnDisk(segs', o, epi'[i].loc)
    <2>1. SyncedKept
      BY <1>1, <1>5, <1>6, FlushSyncedKept
    <2>2. PICK i \in DOMAIN epi :
              /\ epi[i].hash = o /\ Located(segs, curSeg, buf, o, epi[i].loc)
              /\ dirty \/ 2 * i =< epiSynced
              /\ (dirty /\ epi[i].loc.seg = curSeg) \/ OnDisk(segs, o, epi[i].loc)
      BY <1>1 DEF WroteLocated
    <2>3. epi[i].loc \in Loc /\ o \in Obj /\ i \in Nat /\ i =< Len(epi) /\ Len(epi) \in Nat
      BY <1>1, EpiFacts DEF TypeOK
    <2>4. OnDisk(segs', o, epi[i].loc)
      BY <1>1, <1>2, <1>6, <2>1, <2>2, <2>3, FlushKeeps, OnDiskKept
    <2>5. 2 * i =< epiSynced'
      BY <1>1, <1>5, <1>6, <2>2, <2>3, EpiSyncOK
    <2>6. Located(segs', curSeg, {}, o, epi[i].loc)
      BY <1>1, <1>6, <2>2, <2>3, FlushKeeps
    <2> QED  BY <1>6, <2>2, <2>4, <2>5, <2>6
  <1>7. ASSUME segs' = SegsFlushed, epiSynced' = EpiSyncedAfterFlush, epi' = epi
        PROVE  \A o \in durable : \E i \in DOMAIN epi' :
                    epi'[i].hash = o /\ 2 * i =< epiSynced' /\ OnDisk(segs', o, epi'[i].loc)
    <2>1. SyncedKept
      BY <1>1, <1>5, <1>7, FlushSyncedKept
    <2> QED  BY <1>1, <1>2, <2>1, DurableKept
  <1>8. CASE Open
    <2>1. wrote = {}
      BY <1>1, <1>8 DEF Open, Shape, WriterInStep
    <2>2. wrote' = {} /\ durable' = durable /\ cache' = <<>> /\ UNCHANGED <<epi, epiSynced>>
      BY <1>8, <2>1 DEF Open, told
    <2>3. PICK s \in SegIds : segs' = IF segs[s].exists THEN segs ELSE [segs EXCEPT ![s] = NewSegment]
      BY <1>8 DEF Open
    <2>4. \A t \in SegIds : segs[t].exists => segs'[t] = segs[t]
      BY <1>1, <2>3 DEF TypeOK
    <2>5. SyncedKept
      BY <1>1, <1>5, <2>2, <2>4, FlushSyncedKept
    <2> QED  BY <1>4, <2>2, <2>5
  <1>9. ASSUME NEW o \in Obj, PutDedup(o) PROVE DurableOnDisk' /\ WroteLocated' /\ CacheTrue'
    <2>1. UNCHANGED <<segs, epi, epiSynced, buf, curSeg, dirty, wrote, durable, cache>>
      BY <1>9 DEF PutDedup, disk, file, views
    <2> QED  BY <1>1, <1>3, <2>1 DEF CacheTrue
  <1>10. ASSUME NEW o \in Obj, PutInPlace(o) PROVE DurableOnDisk' /\ WroteLocated' /\ CacheTrue'
    <2>1. up /\ UNCHANGED epiSynced
          /\ WriteAndIndex(o, segs, fileSeg, buf, bufLen, curSeg, curOff)
      BY <1>10 DEF PutInPlace
    <2>2. fileSeg = curSeg /\ curOff = segs[curSeg].len + bufLen /\ segs[curSeg].exists
          /\ FileOK(segs[curSeg], buf, bufLen)
      BY <1>1, <2>1 DEF Shape, WriterInStep, FilesWellFormed
    <2>3. segs \in [SegIds -> File] /\ curSeg \in SegIds /\ buf \in SUBSET Rec /\ bufLen \in Nat
      BY <1>1 DEF TypeOK
    <2>4. WriteAndIndex(o, segs, curSeg, buf, bufLen, curSeg, segs[curSeg].len + bufLen)
      BY <2>1, <2>2
    <2>5. \A t \in SegIds : segs[t].exists => segs[t].exists /\ segs[t].synced =< segs[t].synced
                                            /\ segs[t].recs \subseteq segs[t].recs
      BY <2>3 DEF File
    <2>6. epiSynced =< epiSynced'
      BY <1>5, <2>1
    <2> QED  BY <1>2, <2>1, <2>2, <2>3, <2>4, <2>5, <2>6, WriteAndIndexCrash
  <1>11. ASSUME NEW o \in Obj, PutRotating(o) PROVE DurableOnDisk' /\ WroteLocated' /\ CacheTrue'
    <2> DEFINE id == curSeg + 1
               S == SegsRotated
    <2>1. up /\ curSeg < MaxSegId /\ epiSynced' = EpiSyncedAfterFlush
          /\ WriteAndIndex(o, S, id, {}, 0, id, HeaderLen)
      BY <1>11 DEF PutRotating
    <2>2. /\ id \in SegIds /\ S \in [SegIds -> File]
          /\ \A t \in SegIds : FileOK(S[t], {}, 0)
          /\ S[id] = NewSegment
          /\ \A t \in SegIds : t # id => S[t] = SegsFlushed[t]
          /\ ~segs[id].exists
      BY <1>1, <2>1, RotateOK
    <2>3. S[id].exists /\ S[id].len + 0 = HeaderLen
      BY <2>2 DEF NewSegment
    <2> HIDE DEF id, S
    <2>4. WriteAndIndex(o, S, id, {}, 0, id, S[id].len + 0)
      BY <2>1, <2>3
    <2>5. {} \in SUBSET Rec /\ 0 \in Nat /\ FileOK(S[id], {}, 0) /\ epiSynced =< epiSynced'
      BY <1>5, <2>1, <2>2
    <2>6. \A t \in SegIds : segs[t].exists =>
              S[t].exists /\ segs[t].synced =< S[t].synced /\ segs[t].recs \subseteq S[t].recs
      BY <1>1, <2>2, FlushOK
    <2>7. ASSUME NEW x \in Obj, NEW loc \in Loc, Located(segs, curSeg, buf, x, loc),
                 (dirty /\ loc.seg = curSeg) \/ OnDisk(segs, x, loc)
          PROVE  Located(S, id, {}, x, loc) /\ (loc.seg = id \/ OnDisk(S, x, loc))
      <3>1. loc.seg \in SegIds /\ loc.seg # id
        BY <2>2, <2>7 DEF Located
      <3>2. S[loc.seg] = SegsFlushed[loc.seg]
        BY <2>2, <3>1
      <3>3. Located(SegsFlushed, curSeg, {}, x, loc)
            /\ (dirty /\ loc.seg = curSeg => OnDisk(SegsFlushed, x, loc))
        BY <1>1, <2>7, FlushKeeps
      <3>4. Located(S, id, {}, x, loc)
        BY <3>2, <3>3 DEF Located
      <3>5. OnDisk(segs, x, loc) => OnDisk(S, x, loc)
        <4>1. segs[loc.seg].synced \in Nat /\ S[loc.seg].synced \in Nat /\ loc.off + loc.len \in Nat
          <5>1. segs \in [SegIds -> File]
            BY <1>1 DEF TypeOK
          <5>2. segs[loc.seg] \in File /\ S[loc.seg] \in File
            BY <2>2, <3>1, <5>1
          <5>3. loc.off \in Nat /\ loc.len \in Nat
            BY <2>7 DEF Loc
          <5> QED  BY <5>2, <5>3 DEF File
        <4>2. HAVE OnDisk(segs, x, loc)
        <4>3. /\ segs[loc.seg].exists /\ loc.len = RecLen[x]
              /\ [off |-> loc.off, obj |-> x] \in segs[loc.seg].recs
              /\ loc.off + loc.len =< segs[loc.seg].synced
          BY <4>2 DEF OnDisk
        <4>4. /\ S[loc.seg].exists /\ segs[loc.seg].synced =< S[loc.seg].synced
              /\ segs[loc.seg].recs \subseteq S[loc.seg].recs
          BY <2>6, <3>1, <4>3
        <4>5. loc.off + loc.len =< S[loc.seg].synced
          BY <4>1, <4>3, <4>4
        <4> QED  BY <3>1, <4>3, <4>4, <4>5 DEF OnDisk
      <3>6. OnDisk(SegsFlushed, x, loc) => OnDisk(S, x, loc)
        BY <3>2 DEF OnDisk
      <3> QED  BY <2>7, <3>3, <3>4, <3>5, <3>6
    <2> QED  BY <1>2, <2>1, <2>2, <2>3, <2>4, <2>5, <2>6, <2>7, WriteAndIndexCrash
  <1>12. ASSUME NEW o \in Obj, PutOverflow(o) PROVE DurableOnDisk' /\ WroteLocated' /\ CacheTrue'
    <2>1. /\ segs' = SegsFlushed /\ buf' = {} /\ epiSynced' = EpiSyncedAfterFlush
          /\ UNCHANGED <<epi, curSeg, cache, wrote, durable>>
      BY <1>12 DEF PutOverflow, told
    <2>2. DurableOnDisk'
      BY <1>7, <2>1 DEF DurableOnDisk
    <2>3. WroteLocated'
      BY <1>6, <2>1 DEF WroteLocated
    <2> QED  BY <1>1, <2>1, <2>2, <2>3 DEF CacheTrue
  <1>13. ASSUME segs' = SegsFlushed, epiSynced' = EpiSyncedAfterFlush, epi' = epi,
                durable' = durable \cup wrote, wrote' = {}
         PROVE  DurableOnDisk' /\ WroteLocated'
    <2>1. DurableOnDisk'
      BY <1>6, <1>7, <1>13 DEF DurableOnDisk
    <2> QED  BY <1>13, <2>1 DEF WroteLocated
  <1>14. CASE Flush
    <2>1. segs' = SegsFlushed /\ epiSynced' = EpiSyncedAfterFlush /\ epi' = epi
          /\ durable' = durable \cup wrote /\ wrote' = {} /\ cache' = cache
      BY <1>14 DEF Flush, FlushDisk, Promise
    <2> QED  BY <1>1, <1>13, <2>1 DEF CacheTrue
  <1>15. CASE Drop
    <2>1. segs' = SegsFlushed /\ epiSynced' = EpiSyncedAfterFlush /\ epi' = epi
          /\ durable' = durable \cup wrote /\ wrote' = {} /\ cache' = <<>>
      BY <1>15 DEF Drop, FlushDisk, Promise, Forget
    <2> QED  BY <1>13, <2>1 DEF CacheTrue
  <1>16. ASSUME NEW o \in Obj, GetMiss(o) PROVE DurableOnDisk' /\ WroteLocated' /\ CacheTrue'
    <2>1. up /\ UNCHANGED <<epi, epiSynced, curSeg, dirty, wrote, durable>>
      BY <1>16 DEF GetMiss, told
    <2>2. DurableOnDisk' /\ WroteLocated'
      <3>1. CASE segs' = SegsWritten /\ buf' = {}
        <4>1. SyncedKept
          BY <1>1, <1>5, <2>1, <3>1, FlushSyncedKept
        <4>2. DurableOnDisk'
          BY <1>1, <1>2, <2>1, <4>1, DurableKept DEF DurableOnDisk
        <4>3. ASSUME NEW x \in wrote
              PROVE  \E i \in DOMAIN epi' :
                        /\ epi'[i].hash = x /\ Located(segs', curSeg', buf', x, epi'[i].loc)
                        /\ dirty' \/ 2 * i =< epiSynced'
                        /\ (dirty' /\ epi'[i].loc.seg = curSeg') \/ OnDisk(segs', x, epi'[i].loc)
          <5>1. PICK i \in DOMAIN epi :
                    /\ epi[i].hash = x /\ Located(segs, curSeg, buf, x, epi[i].loc)
                    /\ dirty \/ 2 * i =< epiSynced
                    /\ (dirty /\ epi[i].loc.seg = curSeg) \/ OnDisk(segs, x, epi[i].loc)
            BY <1>1 DEF WroteLocated
          <5>2. epi[i].loc \in Loc /\ x \in Obj
            BY <1>1, EpiFacts DEF TypeOK
          <5>3. Located(segs', curSeg', buf', x, epi[i].loc)
            BY <1>1, <2>1, <3>1, <5>1, <5>2, FlushKeeps
          <5>4. OnDisk(segs, x, epi[i].loc) => OnDisk(segs', x, epi[i].loc)
            BY <1>1, <1>2, <4>1, <5>2, OnDiskKept
          <5> QED  BY <2>1, <5>1, <5>3, <5>4
        <4> QED  BY <2>1, <4>2, <4>3 DEF WroteLocated
      <3>2. CASE UNCHANGED <<segs, buf, bufLen>>
        BY <1>3, <2>1, <3>2
      <3> QED  BY <1>16, <3>1, <3>2 DEF GetMiss
    <2>3. CacheTrue'
      <3>1. CASE cache' = cache
        BY <1>1, <2>1, <3>1 DEF CacheTrue
      <3>2. ASSUME NEW x \in ReadAt(index[o]), cache' = LruInsert(cache, cacheCap, o, x)
            PROVE  CacheTrue'
        <4>1. x \in Obj
          BY DEF ReadAt, DecodeAt
        <4>2. LruFacts(cache, cacheCap, o, x, cache')
          BY <1>1, <3>2, <4>1, LruInsertOK DEF TypeOK
        <4>3. o \in durable \cup wrote => x = o
          BY <2>1, MineReadable
        <4> SUFFICES ASSUME NEW i \in DOMAIN cache', cache'[i].key \in durable' \cup wrote'
                     PROVE  cache'[i].val = cache'[i].key
          BY DEF CacheTrue
        <4>4. CASE cache'[i] = [key |-> o, val |-> x]
          BY <2>1, <4>3, <4>4
        <4>5. CASE \E j \in DOMAIN cache : cache'[i] = cache[j]
          BY <1>1, <2>1, <4>5 DEF CacheTrue
        <4> QED  BY <4>2, <4>4, <4>5 DEF LruFacts
      <3> QED  BY <1>16, <3>1, <3>2 DEF GetMiss
    <2> QED  BY <2>2, <2>3
  <1>17. ASSUME NEW c \in CapChoices, ConfigureCaches(c[1], c[2])
         PROVE  DurableOnDisk' /\ WroteLocated' /\ CacheTrue'
    <2>1. UNCHANGED <<segs, epi, epiSynced, buf, curSeg, dirty, wrote, durable>> /\ cache' = <<>>
      BY <1>17 DEF ConfigureCaches, disk, file, told
    <2> QED  BY <1>3, <2>1 DEF CacheTrue
  <1>18. ASSUME CrashStep, SyncedKept PROVE DurableOnDisk' /\ WroteLocated' /\ CacheTrue'
    BY <1>4, <1>18 DEF CrashStep, Forget
  <1>19. CASE Kill
    <2>1. CrashStep /\ UNCHANGED <<segs, epi, epiSynced>>
      BY <1>19 DEF Kill, disk
    <2>2. SyncedKept
      BY <1>1, <1>5, <2>1, FlushSyncedKept
    <2> QED  BY <1>18, <2>1, <2>2
  <1>20. ASSUME NEW o \in Obj, KillBeforeInsert(o) PROVE DurableOnDisk' /\ WroteLocated' /\ CacheTrue'
    <2>1. CrashStep /\ UNCHANGED <<epi, epiSynced>>
          /\ segs' = SegsAfterWrite(segs, fileSeg, buf, bufLen, o)
      BY <1>20 DEF KillBeforeInsert
    <2>2. segs \in [SegIds -> File] /\ curSeg \in SegIds /\ fileSeg = curSeg /\ buf \in SUBSET Rec
          /\ bufLen \in Nat /\ FileOK(segs[curSeg], buf, bufLen)
      BY <1>1 DEF TypeOK, Shape, FilesWellFormed, WriterInStep
    <2>3. WriteFacts(segs, curSeg, buf, bufLen, o, segs',
                     BufAfterWrite(segs, curSeg, buf, bufLen, o), BufLenAfterWrite(bufLen, o))
      BY <2>1, <2>2, WriteOK
    <2>4. \A t \in SegIds : /\ segs'[t].exists = segs[t].exists /\ segs'[t].synced = segs[t].synced
                            /\ segs[t].recs \subseteq segs'[t].recs /\ segs[t].synced \in Nat
      BY <2>2, <2>3 DEF WriteFacts, File
    <2>5. SyncedKept
      BY <1>5, <2>1, <2>4 DEF SyncedKept
    <2> QED  BY <1>18, <2>1, <2>5
  <1>21. ASSUME NEW o \in Obj, KillAfterRotate(o) PROVE DurableOnDisk' /\ WroteLocated' /\ CacheTrue'
    <2>1. CrashStep /\ epi' = epi /\ epiSynced' = EpiSyncedAfterFlush
          /\ segs' = SegsRotated /\ up /\ curSeg < MaxSegId
      BY <1>21 DEF KillAfterRotate
    <2>2. \A t \in SegIds : segs[t].exists => segs'[t] = SegsFlushed[t]
      BY <1>1, <2>1, RotateOK
    <2>3. SyncedKept
      BY <1>1, <1>5, <2>1, <2>2, FlushSyncedKept
    <2> QED  BY <1>18, <2>1, <2>3
  <1>22. CASE PowerLoss
    <2>1. CrashStep /\ LoseSegmentTails
      BY <1>22 DEF PowerLoss
    <2>2. PICK k \in 0..Len(epi) :
            2 * k >= epiSynced /\ epi' = SubSeq(epi, 1, k) /\ epiSynced' = 2 * k
      BY <1>22 DEF PowerLoss
    <2>3. PICK cut \in [SegIds -> CutPoints] :
            /\ \A s \in SegIds : cut[s] \in segs[s].synced .. segs[s].len
            /\ segs' = [s \in SegIds |-> Cut(segs[s], cut[s])]
      BY <2>1 DEF LoseSegmentTails
    <2>4. Len(epi) \in Nat /\ k \in Nat /\ DOMAIN epi = 1..Len(epi)
      BY <1>1, EpiFacts
    <2>5. DOMAIN epi' = 1..k /\ \A i \in 1..k : epi'[i] = epi[i]
      BY <1>1, <2>2, <2>4, PrefixOK DEF TypeOK
    <2>6. \A i \in DOMAIN epi : 2 * i =< epiSynced => i \in DOMAIN epi' /\ epi'[i] = epi[i]
      BY <1>5, <2>2, <2>4, <2>5
    <2>7. ASSUME NEW s \in SegIds
          PROVE  /\ segs'[s].exists = segs[s].exists /\ segs[s].synced =< segs'[s].synced
                 /\ \A r \in segs[s].recs : r.off + RecLen[r.obj] =< segs[s].synced => r \in segs'[s].recs
      <3>1. segs'[s] = Cut(segs[s], cut[s]) /\ segs[s] \in File
        BY <1>1, <2>3 DEF TypeOK
      <3>2. segs[s].synced \in Nat /\ segs[s].len \in Nat /\ cut[s] \in segs[s].synced .. segs[s].len
            /\ segs[s].recs \in SUBSET Rec
        BY <2>3, <3>1 DEF File
      <3>3. \A r \in segs[s].recs : r.off + RecLen[r.obj] \in Nat
        BY <3>2 DEF Rec
      <3> QED  BY <3>1, <3>2, <3>3 DEF Cut
    <2>8. SyncedKept
      BY <1>5, <2>2, <2>4, <2>6, <2>7 DEF SyncedKept
    <2> QED  BY <1>18, <2>1, <2>8
  <1>23. CASE UNCHANGED vars
    <2>1. UNCHANGED <<segs, epi, epiSynced, buf, curSeg, dirty, wrote, durable, cache>>
      BY <1>23 DEF vars, disk, file, views, told
    <2> QED  BY <1>1, <1>3, <2>1 DEF CacheTrue
  <1>24. ASSUME NEW o \in Obj, GetHit(o) PROVE DurableOnDisk' /\ WroteLocated' /\ CacheTrue'
    BY <1>23, <1>24 DEF GetHit
  <1> QED
    BY <1>8, <1>9, <1>10, <1>11, <1>12, <1>14, <1>15, <1>16, <1>17, <1>19, <1>20, <1>21, <1>22,
       <1>23, <1>24 DEF CrashNext, CleanNext

\* The crash invariant holds of an empty store.
LEMMA InitCrash == Init => CrashInv
  BY InitShape DEF Init, CrashInv, DurableOnDisk, WroteLocated, CacheTrue

\* The invariant holds in every behaviour with kills and power losses.
THEOREM CrashInvariant == CrashSpec => []CrashInv
  <1>1. CrashInv /\ [CrashNext]_vars => CrashInv'
    BY StepCrash
  <1> QED  BY <1>1, InitCrash, PTL DEF CrashSpec

\* Every variable of the store keeps its type, whatever crashes occur.
THEOREM TypeCorrect == CrashSpec => []TypeOK
  <1>1. CrashInv => TypeOK
    BY DEF CrashInv
  <1> QED  BY <1>1, CrashInvariant, PTL

\* An object whose put appended its record and which was then flushed reads
\* back as itself after any number of kills, power losses and reopens.
THEOREM Durability == CrashSpec => []DurableReadable
  BY CrashInvariant, CrashInvReadable, PTL


-----------------------------------------------------------------------------
(* Sets of segment ids *)

\* A set of natural numbers has a least member.
LEMMA NatMin ==
    ASSUME NEW T \in SUBSET Nat, T # {}
    PROVE  \E m \in T : \A k \in T : m =< k
  <1>1. IsWellFoundedOn(OpToRel(<, Nat), Nat)
    BY NatLessThanWellFounded
  <1>2. PICK m \in T : \A k \in T : ~(<<k, m>> \in OpToRel(<, Nat))
    BY <1>1, WFMin
  <1>3. \A k \in T : ~(k < m)
    BY <1>2, Zenon DEF OpToRel
  <1> QED  BY <1>3

\* A set of natural numbers below n has a greatest member.
LEMMA NatMax ==
    ASSUME NEW n \in Nat, NEW T \in SUBSET (1..n), T # {}
    PROVE  \E m \in T : \A k \in T : k =< m
  <1>1. \A k \in T : k \in Nat /\ n - k \in Nat
    <2> SUFFICES ASSUME NEW k \in T PROVE k \in Nat /\ n - k \in Nat
      OBVIOUS
    <2>1. k \in 1..n
      OBVIOUS
    <2> QED  BY <2>1
  <1> DEFINE U == {n - k : k \in T}
  <1>2. U \in SUBSET Nat /\ U # {}
    BY <1>1
  <1>3. PICK u \in U : \A v \in U : u =< v
    <2> HIDE DEF U
    <2> QED  BY <1>2, NatMin
  <1>4. PICK m \in T : u = n - m
    BY <1>3
  <1>5. \A k \in T : n - m =< n - k
    BY <1>3, <1>4
  <1>6. \A k \in T : k =< m
    BY <1>1, <1>5
  <1> QED  BY <1>6

\* A set of segment ids is a finite set of numbers.
LEMMA SegIdsFinite ==
    ASSUME NEW S \in SUBSET SegIds
    PROVE  S \in SUBSET Nat /\ IsFiniteSet(S) /\ Cardinality(S) \in Nat
  <1>1. IsFiniteSet(SegIds)
    BY FS_Interval DEF SegIds
  <1>2. IsFiniteSet(S)
    BY <1>1, FS_Subset
  <1> QED  BY <1>2, FS_CardinalityType DEF SegIds

\* Both eviction loops leave at most n maps.
LEMMA KeepLargestOK ==
    ASSUME NEW S \in SUBSET SegIds, NEW n \in Nat
    PROVE  KeepLargest(S, n) \in SUBSET S /\ Cardinality(KeepLargest(S, n)) =< n
  <1> DEFINE K == KeepLargest(S, n)
  <1>1. K \in SUBSET S /\ \A s \in K : Cardinality({t \in S : t > s}) < n
    BY DEF KeepLargest
  <1> HIDE DEF K
  <1>2. K \in SUBSET SegIds
    BY <1>1
  <1>3. IsFiniteSet(K) /\ K \in SUBSET Nat /\ Cardinality(K) \in Nat
    BY <1>2, SegIdsFinite
  <1>4. CASE K = {}
    BY <1>1, <1>4, FS_EmptySet DEF K
  <1>5. CASE K # {}
    <2>1. PICK m \in K : \A k \in K : m =< k
      BY <1>3, <1>5, NatMin
    <2> DEFINE A == {t \in S : t > m}
    <2>2. Cardinality(A) < n
      BY <1>1, <2>1
    <2>3. K \ {m} \subseteq A
      BY <1>1, <1>3, <2>1
    <2>4. A \in SUBSET SegIds
      OBVIOUS
    <2> HIDE DEF A
    <2>5. IsFiniteSet(A) /\ Cardinality(A) \in Nat
      BY <2>4, SegIdsFinite
    <2>6. Cardinality(K \ {m}) =< Cardinality(A)
      BY <2>3, <2>5, FS_Subset
    <2>7. Cardinality(K \ {m}) = Cardinality(K) - 1
      BY <1>3, <2>1, FS_RemoveElement
    <2>8. Cardinality(K) =< n
      BY <1>3, <2>2, <2>5, <2>6, <2>7
    <2> QED  BY <1>1, <2>8 DEF K
  <1> QED  BY <1>4, <1>5

\* ensure_mmap and the eviction inside flush keep to the capacity.
LEMMA MapsOK ==
    ASSUME TypeOK, Cardinality(maps) =< mmapCap
    PROVE  /\ MapsAfterFlush \in SUBSET maps /\ Cardinality(MapsAfterFlush) =< mmapCap
           /\ \A s \in SegIds : /\ MapsAfterRead(s) \in SUBSET (maps \cup {s})
                                /\ Cardinality(MapsAfterRead(s)) =< mmapCap
                                /\ s \in MapsAfterRead(s) => s \in maps \/ (s # curSeg /\ segs[s].exists)
  <1>1. maps \in SUBSET SegIds /\ mmapCap \in Nat /\ IsFiniteSet(maps) /\ Cardinality(maps) \in Nat
    BY SegIdsFinite DEF TypeOK
  <1>2. MapsAfterFlush \in SUBSET maps
    BY DEF MapsAfterFlush
  <1>3. Cardinality(MapsAfterFlush) =< Cardinality(maps) /\ Cardinality(MapsAfterFlush) \in Nat
    BY <1>1, <1>2, FS_Subset, FS_CardinalityType
  <1>4. ASSUME NEW s \in SegIds
        PROVE  /\ MapsAfterRead(s) \in SUBSET (maps \cup {s})
               /\ Cardinality(MapsAfterRead(s)) =< mmapCap
               /\ s \in MapsAfterRead(s) => s \in maps \/ (s # curSeg /\ segs[s].exists)
    <2>1. CASE ~(mmapCap > 0 /\ s # curSeg /\ segs[s].exists /\ s \notin maps)
      BY <1>1, <2>1 DEF MapsAfterRead
    <2>2. CASE mmapCap > 0 /\ s # curSeg /\ segs[s].exists /\ s \notin maps
      <3> DEFINE K == KeepLargest(maps, mmapCap - 1)
      <3>1. MapsAfterRead(s) = K \cup {s}
        BY <2>2 DEF MapsAfterRead
      <3>2. mmapCap - 1 \in Nat
        BY <1>1, <2>2
      <3>3. K \in SUBSET maps /\ Cardinality(K) =< mmapCap - 1
        BY <1>1, <3>2, KeepLargestOK
      <3> HIDE DEF K
      <3>4. IsFiniteSet(K) /\ s \notin K /\ Cardinality(K) \in Nat
        BY <1>1, <2>2, <3>3, FS_Subset, FS_CardinalityType
      <3>5. Cardinality(K \cup {s}) = Cardinality(K) + 1
        BY <3>4, FS_AddElement
      <3> QED  BY <1>1, <2>2, <3>1, <3>3, <3>4, <3>5
    <2> QED  BY <2>1, <2>2
  <1> QED  BY <1>1, <1>2, <1>3, <1>4

-----------------------------------------------------------------------------
(* Type correctness, IoShape and the bounds *)

\* Index::open of any index file, with entries of failed inserts in it.
LEMMA LoadIndexType ==
    ASSUME TypeOK
    PROVE  LoadIndex \in [Obj -> Loc]
  <1>1. epi \in Seq(Entry) /\ DOMAIN epi = 1..Len(epi) /\ Len(epi) \in Nat
    BY DEF TypeOK
  <1>2. \A i \in DOMAIN epi : epi[i].loc \in Loc
    <2>1. \A i \in DOMAIN epi : epi[i] \in Entry
      BY <1>1
    <2> QED  BY <2>1 DEF Entry
  <1>3. ASSUME NEW o \in Obj PROVE LoadIndex[o] \in Loc
    <2>1. CASE \A i \in DOMAIN epi : epi[i].hash # o
      BY <2>1, NoLocOK DEF LoadIndex
    <2>2. CASE \E i \in DOMAIN epi : epi[i].hash = o
      <3> DEFINE T == {i \in DOMAIN epi : epi[i].hash = o}
                 Last(i) == epi[i].hash = o /\ \A j \in DOMAIN epi : epi[j].hash = o => j =< i
      <3>1. T \in SUBSET (1..Len(epi)) /\ T # {}
        BY <1>1, <2>2
      <3>2. PICK m \in T : \A k \in T : k =< m
        <4> HIDE DEF T
        <4> QED  BY <1>1, <3>1, NatMax
      <3>3. \E i \in DOMAIN epi : Last(i)
        BY <3>2
      <3>4. (CHOOSE i \in DOMAIN epi : Last(i)) \in DOMAIN epi
        BY <3>3
      <3>5. LoadIndex[o] = epi[CHOOSE i \in DOMAIN epi : Last(i)].loc
        BY <2>2 DEF LoadIndex
      <3> QED  BY <1>2, <3>4, <3>5
    <2> QED  BY <2>1, <2>2
  <1>4. LoadIndex = [o \in Obj |-> LoadIndex[o]]
    BY DEF LoadIndex
  <1> QED  BY <1>3, <1>4

\* The BufWriter is emptied and the store stays open; a rotation that fails
\* has taken the next id.
LEMMA IoEmptiedOK ==
    ASSUME TypeOK, IoShape, up, up', NEW F \in {SegsWritten, SegsFlushed}, segs' = F,
           buf' = {}, bufLen' = 0, fileSeg' = fileSeg,
           curSeg' \in SegIds, curSeg =< curSeg', \A s \in maps' : s < curSeg'
    PROVE  segs' \in [SegIds -> File] /\ IoShape'
  <1>1. /\ F \in [SegIds -> File]
        /\ \A s \in SegIds : FileOK(F[s], {}, 0) /\ F[s].exists = segs[s].exists
        /\ fileSeg \in SegIds /\ curSeg \in SegIds
    BY WriterFlushOK DEF IoShape, TypeOK
  <1>2. WriterShape'
    BY <1>1 DEF WriterShape
  <1>3. fileSeg' =< curSeg'
    BY <1>1 DEF IoShape, SegIds
  <1>4. \A s \in SegIds : s > curSeg' => s > curSeg
    BY <1>1 DEF SegIds
  <1>5. segs'[fileSeg].exists /\ \A s \in SegIds : s > curSeg' => ~segs'[s].exists
    BY <1>1, <1>4 DEF IoShape
  <1> QED  BY <1>1, <1>2, <1>3, <1>5 DEF IoShape

\* put: the record goes to segment s, its entry names segment id.
LEMMA IoWriteOK ==
    ASSUME TypeOK, IoShape, up, NEW o \in Obj,
           NEW S \in [SegIds -> File], NEW s \in SegIds, NEW b \in SUBSET Rec, NEW n \in Nat,
           NEW id \in SegIds, NEW off \in Nat,
           \A t \in SegIds : FileOK(S[t], {}, 0), FileOK(S[s], b, n), S[s].exists, s =< id,
           \A t \in SegIds : t > id => ~S[t].exists,
           WriteAndIndex(o, S, s, b, n, id, off),
           epiSynced' \in Nat, maps' \in SUBSET SegIds, \A t \in maps' : t < id
    PROVE  TypeOK' /\ IoShape' /\ (Len(cache) =< cacheCap => Len(cache') =< cacheCap')
  <1> DEFINE loc == [seg |-> id, off |-> off, len |-> RecLen[o]]
  <1>1. /\ segs' = SegsAfterWrite(S, s, b, n, o) /\ buf' = BufAfterWrite(S, s, b, n, o)
        /\ bufLen' = BufLenAfterWrite(n, o)
        /\ index' = [index EXCEPT ![o] = loc]
        /\ curSeg' = id /\ fileSeg' = s /\ curOff' = off + RecLen[o] /\ dirty' = TRUE
        /\ cache' = LruInsert(cache, cacheCap, o, o)
        /\ pending' = pending \cup {o} /\ wrote' = wrote \cup {o}
        /\ UNCHANGED <<up, cacheCap, mmapCap, promised, durable, crashes, ioErrors>>
    BY DEF WriteAndIndex, Ack
  <1>2. loc \in Loc /\ BadLoc \in Loc /\ RecLen[o] \in Nat \ {0}
    BY DEF Loc, BadLoc
  <1> HIDE DEF loc
  <1>3. epi' \in Seq(Entry) /\ epiTail' \in Obj \cup {NoTail, Junk}
    <2>1. InsertEntry(o, loc) /\ epi \in Seq(Entry) /\ epiTail \in Obj \cup {NoTail, Junk}
      BY DEF WriteAndIndex, TypeOK, loc
    <2>2. [hash |-> o, loc |-> loc] \in Entry
      BY <1>2 DEF Entry
    <2>3. epiTail # NoTail => [hash |-> epiTail, loc |-> BadLoc] \in Entry
      BY <1>2, <2>1 DEF Entry
    <2>4. \A e \in Entry : Append(epi, e) \in Seq(Entry)
      BY <2>1
    <2> QED  BY <2>1, <2>2, <2>3, <2>4 DEF InsertEntry
  <1>4. /\ segs' \in [SegIds -> File] /\ buf' \in SUBSET Rec /\ bufLen' \in Nat
        /\ \A t \in SegIds : t # s => segs'[t] = S[t]
        /\ segs'[s].exists = S[s].exists
        /\ FileOK(segs'[s], buf', bufLen')
    <2>1. segs' = SegsAfterWrite(S, s, b, n, o) /\ buf' = BufAfterWrite(S, s, b, n, o)
          /\ bufLen' = BufLenAfterWrite(n, o)
      BY <1>1
    <2>2. WriteFacts(S, s, b, n, o, segs', buf', bufLen')
      BY <2>1, WriteOK
    <2> QED  BY <2>2 DEF WriteFacts
  <1>5. LruFacts(cache, cacheCap, o, o, cache')
    BY <1>1, LruInsertOK DEF TypeOK
  <1>6. cache' \in Seq([key : Obj, val : Obj]) /\ (Len(cache) =< cacheCap => Len(cache') =< cacheCap')
    BY <1>1, <1>5 DEF LruFacts
  <1>7. TypeOK'
    <2>1. index' \in [Obj -> Loc]
      BY <1>1, <1>2 DEF TypeOK
    <2>2. curOff' \in Nat
      BY <1>1, <1>2
    <2>3. pending' \in SUBSET Obj /\ wrote' \in SUBSET pending'
      BY <1>1 DEF TypeOK
    <2> QED  BY <1>1, <1>3, <1>4, <1>6, <2>1, <2>2, <2>3 DEF TypeOK
  <1>8. WriterShape'
    <2>1. FileOK(segs'[s], {}, 0)
      BY <1>4 DEF FileOK
    <2> QED  BY <1>1, <1>4, <2>1 DEF WriterShape
  <1>9. \A t \in SegIds : t > id => ~segs'[t].exists
    BY <1>4 DEF SegIds
  <1>10. IoShape'
    BY <1>1, <1>4, <1>8, <1>9 DEF IoShape
  <1> QED  BY <1>6, <1>7, <1>10

\* An empty store has the shape that failing calls keep.
LEMMA IoInit == Init => TypeOK /\ IoShape /\ Bounded
  <1> SUFFICES ASSUME Init PROVE TypeOK /\ IoShape /\ Bounded
    OBVIOUS
  <1>1. TypeOK /\ Shape
    BY InitShape
  <1>2. IoShape
    <2>1. WriterShape
      BY <1>1 DEF WriterShape, Shape, FilesWellFormed, WriterInStep
    <2> QED  BY <2>1 DEF IoShape, Init
  <1>3. Cardinality(maps) = 0 /\ Len(cache) = 0 /\ mmapCap \in Nat /\ cacheCap \in Nat
    BY FS_EmptySet, LruCapOK DEF Init
  <1> QED  BY <1>1, <1>2, <1>3 DEF Bounded

\* Every step, failing I/O calls included, keeps the types, IoShape and the
\* bounds on maps and cache.
LEMMA StepIo ==
    ASSUME TypeOK, IoShape, Bounded, [IoErrorNext]_vars
    PROVE  TypeOK' /\ IoShape' /\ Bounded'
  <1>1. /\ segs \in [SegIds -> File] /\ curSeg \in SegIds /\ fileSeg \in SegIds
        /\ buf \in SUBSET Rec /\ bufLen \in Nat /\ curOff \in Nat /\ mmapCap \in Nat
        /\ maps \in SUBSET SegIds /\ epiSynced \in Nat
        /\ cache \in Seq([key : Obj, val : Obj]) /\ cacheCap \in Nat \ {0}
        /\ ioErrors \in 0..MaxIoErrors
    BY DEF TypeOK
  <1>2. /\ \A s \in SegIds : FileOK(segs[s], {}, 0)
        /\ FileOK(segs[fileSeg], buf, bufLen)
        /\ fileSeg =< curSeg /\ WriterShape
        /\ up => segs[fileSeg].exists /\ \A s \in SegIds : s > curSeg => ~segs[s].exists
        /\ \A s \in maps : s < curSeg
    BY DEF IoShape, WriterShape
  <1>3. Cardinality(maps) =< mmapCap /\ Len(cache) =< cacheCap
    BY DEF Bounded
  <1>4. /\ EpiSyncedAfterFlush \in Nat
        /\ MapsAfterFlush \in SUBSET SegIds /\ Cardinality(MapsAfterFlush) =< mmapCap
        /\ \A s \in MapsAfterFlush : s < curSeg
    <2>1. Len(epi) \in Nat
      BY DEF TypeOK
    <2>2. EpiSyncedAfterFlush \in Nat
      BY <1>1, <2>1 DEF EpiSyncedAfterFlush, HalfEntries
    <2> QED  BY <1>1, <1>2, <1>3, <2>2, MapsOK
  <1>5. NewSegment \in File /\ FileOK(NewSegment, {}, 0) /\ NewSegment.exists = TRUE
        /\ NewSegment.len = HeaderLen
    BY DEF NewSegment, File, FileOK
  <1>6. CASE Open
    <2>1. PICK s \in SegIds :
            /\ FindLatestSegment(s)
            /\ segs' = IF segs[s].exists THEN segs ELSE [segs EXCEPT ![s] = NewSegment]
            /\ curSeg' = s /\ fileSeg' = s
            /\ curOff' = IF segs[s].exists THEN segs[s].len ELSE HeaderLen
      BY <1>6 DEF Open
    <2>2. /\ segs' \in [SegIds -> File] /\ \A t \in SegIds : FileOK(segs'[t], {}, 0)
          /\ segs'[s].exists /\ segs'[s].len = curOff'
          /\ \A t \in SegIds : t # s => segs'[t] = segs[t]
      BY <1>1, <1>2, <1>5, <2>1
    <2>3. segs'[s].len \in Nat
      BY <2>2 DEF File
    <2>4. \A t \in SegIds : t > s => ~segs'[t].exists
      <3>1. \A t \in SegIds : segs[t].exists => t \in ExistingIds
        BY DEF ExistingIds
      <3> QED  BY <2>1, <2>2, <3>1 DEF FindLatestSegment, SegIds
    <2>5. /\ index' = LoadIndex /\ up' = TRUE /\ buf' = {} /\ bufLen' = 0 /\ dirty' = FALSE
          /\ cache' = <<>> /\ cacheCap' = LruCap(CacheCap) /\ maps' = {} /\ mmapCap' = MmapCap
          /\ UNCHANGED <<epi, epiTail, epiSynced, told, crashes, ioErrors>>
      BY <1>6 DEF Open
    <2>6. TypeOK'
      <3>1. index' \in [Obj -> Loc]
        BY <2>5, LoadIndexType
      <3>2. cache' \in Seq([key : Obj, val : Obj]) /\ cacheCap' \in Nat \ {0}
        BY <2>5, LruCapOK
      <3> QED  BY <2>1, <2>2, <2>3, <2>5, <3>1, <3>2 DEF TypeOK, told
    <2>7. IoShape'
      <3>1. WriterShape'
        BY <2>1, <2>2, <2>5 DEF WriterShape
      <3>2. s =< s
        BY DEF SegIds
      <3> QED  BY <2>1, <2>2, <2>4, <2>5, <3>1, <3>2 DEF IoShape
    <2>8. Bounded'
      BY <2>5, FS_EmptySet, LruCapOK DEF Bounded
    <2> QED  BY <2>6, <2>7, <2>8
  <1>7. ASSUME NEW o \in Obj, PutDedup(o) PROVE TypeOK' /\ IoShape' /\ Bounded'
    <2>1. UNCHANGED <<disk, up, index, file, views, wrote, promised, durable, crashes, ioErrors>>
          /\ pending' = pending \cup {o}
      BY <1>7 DEF PutDedup, Ack
    <2>2. TypeOK'
      BY <2>1 DEF TypeOK, disk, file, views
    <2> QED  BY <2>1, <2>2 DEF IoShape, WriterShape, Bounded, disk, file, views
  <1>8. ASSUME NEW o \in Obj, PutInPlace(o) PROVE TypeOK' /\ IoShape' /\ Bounded'
    <2>1. up /\ UNCHANGED <<epiSynced, maps>>
          /\ WriteAndIndex(o, segs, fileSeg, buf, bufLen, curSeg, curOff)
      BY <1>8 DEF PutInPlace
    <2>2. TypeOK' /\ IoShape' /\ Len(cache') =< cacheCap'
      BY <1>1, <1>2, <1>3, <2>1, IoWriteOK
    <2>3. mmapCap' = mmapCap
      BY <2>1 DEF WriteAndIndex
    <2> QED  BY <1>3, <2>1, <2>2, <2>3 DEF Bounded
  <1>9. ASSUME NEW o \in Obj, PutRotating(o) PROVE TypeOK' /\ IoShape' /\ Bounded'
    <2> DEFINE id == curSeg + 1
               S == SegsRotated
    <2>1. up /\ curSeg < MaxSegId /\ epiSynced' = EpiSyncedAfterFlush /\ maps' = MapsAfterFlush
          /\ WriteAndIndex(o, S, id, {}, 0, id, HeaderLen)
      BY <1>9 DEF PutRotating
    <2>2. id \in SegIds /\ id > curSeg /\ id =< id
      BY <1>1, <2>1 DEF SegIds
    <2>3. SegsFlushed \in [SegIds -> File]
          /\ \A t \in SegIds : FileOK(SegsFlushed[t], {}, 0) /\ SegsFlushed[t].exists = segs[t].exists
      BY <1>2, WriterFlushOK
    <2>4. S = [SegsFlushed EXCEPT ![id] = NewSegment]
      BY DEF SegsRotated
    <2> HIDE DEF id, S
    <2>5. /\ S \in [SegIds -> File] /\ \A t \in SegIds : FileOK(S[t], {}, 0)
          /\ S[id].exists
          /\ \A t \in SegIds : t # id => S[t].exists = segs[t].exists
      BY <1>5, <2>2, <2>3, <2>4
    <2>6. \A t \in SegIds : t > id => ~S[t].exists
      <3>1. \A t \in SegIds : t > id => t # id /\ t > curSeg
        BY <1>1, <2>2 DEF SegIds
      <3> QED  BY <1>2, <2>1, <2>5, <3>1
    <2>7. \A t \in maps' : t < id
      BY <1>1, <1>4, <2>1, <2>2 DEF SegIds
    <2>8. {} \in SUBSET Rec /\ 0 \in Nat /\ HeaderLen \in Nat /\ FileOK(S[id], {}, 0)
          /\ epiSynced' \in Nat /\ maps' \in SUBSET SegIds
      BY <1>4, <2>1, <2>2, <2>5
    <2>9. TypeOK' /\ IoShape' /\ Len(cache') =< cacheCap'
      BY <1>3, <2>1, <2>2, <2>5, <2>6, <2>7, <2>8, IoWriteOK
    <2>10. mmapCap' = mmapCap
      BY <2>1 DEF WriteAndIndex
    <2> QED  BY <1>4, <2>1, <2>9, <2>10 DEF Bounded
  <1>10. ASSUME NEW F \in {SegsWritten, SegsFlushed}, up, segs' = F, buf' = {}, bufLen' = 0,
                dirty' \in BOOLEAN, epiSynced' \in Nat,
                maps' \in SUBSET SegIds, \A s \in maps' : s < curSeg,
                Cardinality(maps') =< mmapCap, curSeg' \in SegIds, curSeg =< curSeg',
                cache' \in Seq([key : Obj, val : Obj]), Len(cache') =< cacheCap,
                UNCHANGED <<epi, epiTail, up, index, fileSeg, curOff, cacheCap, mmapCap, crashes>>,
                pending' \in SUBSET Obj, wrote' \in SUBSET pending', promised' \in SUBSET Obj,
                durable' \in SUBSET promised', ioErrors' \in 0..MaxIoErrors
         PROVE  TypeOK' /\ IoShape' /\ Bounded'
    <2>1. \A s \in maps' : s < curSeg'
      BY <1>1, <1>10 DEF SegIds
    <2>2. segs' \in [SegIds -> File] /\ IoShape'
      BY <1>10, <2>1, IoEmptiedOK
    <2>3. TypeOK'
      BY <1>10, <2>2 DEF TypeOK
    <2> QED  BY <1>10, <2>2, <2>3 DEF Bounded
  <1>11. pending \in SUBSET Obj /\ wrote \in SUBSET pending /\ promised \in SUBSET Obj
         /\ durable \in SUBSET promised /\ dirty \in BOOLEAN /\ curSeg =< curSeg
    BY <1>1 DEF TypeOK, SegIds
  <1>12. ASSUME NEW o \in Obj, PutOverflow(o) PROVE TypeOK' /\ IoShape' /\ Bounded'
    <2>1. up /\ segs' = SegsFlushed /\ buf' = {} /\ bufLen' = 0 /\ dirty' = FALSE
          /\ epiSynced' = EpiSyncedAfterFlush /\ maps' = MapsAfterFlush
          /\ UNCHANGED <<epi, epiTail, up, index, curSeg, fileSeg, curOff, cache, cacheCap,
                         mmapCap, pending, wrote, promised, durable, crashes, ioErrors>>
      BY <1>12 DEF PutOverflow, told
    <2> QED  BY <1>1, <1>3, <1>4, <1>10, <1>11, <2>1
  <1>13. CASE Flush
    <2>1. up /\ segs' = SegsFlushed /\ buf' = {} /\ bufLen' = 0 /\ dirty' = FALSE
          /\ epiSynced' = EpiSyncedAfterFlush /\ maps' = MapsAfterFlush
          /\ promised' = promised \cup pending /\ durable' = durable \cup wrote
          /\ pending' = {} /\ wrote' = {}
          /\ UNCHANGED <<epi, epiTail, up, index, curSeg, fileSeg, curOff, cache, cacheCap,
                         mmapCap, crashes, ioErrors>>
      BY <1>13 DEF Flush, FlushDisk, Promise
    <2>2. promised' \in SUBSET Obj /\ durable' \in SUBSET promised' /\ pending' \in SUBSET Obj
          /\ wrote' \in SUBSET pending'
      BY <1>11, <2>1
    <2> QED  BY <1>1, <1>3, <1>4, <1>10, <1>11, <2>1, <2>2
  <1>14. ASSUME NEW o \in Obj, GetMiss(o) PROVE TypeOK' /\ IoShape' /\ Bounded'
    <2>1. /\ up /\ index[o].seg \in SegIds
          /\ maps' = MapsAfterRead(index[o].seg)
          /\ UNCHANGED <<epi, epiTail, epiSynced, up, index, curSeg, fileSeg, curOff, dirty,
                         cacheCap, mmapCap, pending, wrote, promised, durable, crashes, ioErrors>>
      BY <1>14 DEF GetMiss, told
    <2>2. cache' \in Seq([key : Obj, val : Obj]) /\ Len(cache') =< cacheCap
      <3>1. ReadAt(index[o]) \subseteq Obj
        BY DEF ReadAt, DecodeAt
      <3>2. \/ cache' = cache
            \/ \E x \in ReadAt(index[o]) : cache' = LruInsert(cache, cacheCap, o, x)
        BY <1>14 DEF GetMiss
      <3>3. ASSUME NEW x \in ReadAt(index[o]), cache' = LruInsert(cache, cacheCap, o, x)
            PROVE  cache' \in Seq([key : Obj, val : Obj]) /\ Len(cache') =< cacheCap
        <4>1. LruFacts(cache, cacheCap, o, x, cache')
          BY <1>1, <3>1, <3>3, LruInsertOK
        <4> QED  BY <1>3, <4>1 DEF LruFacts
      <3> QED  BY <1>1, <1>3, <3>2, <3>3
    <2>3. /\ maps' \in SUBSET SegIds /\ Cardinality(maps') =< mmapCap
          /\ \A s \in maps' : s < curSeg
      <3> DEFINE s == index[o].seg
      <3>1. /\ maps' \in SUBSET (maps \cup {s}) /\ Cardinality(maps') =< mmapCap
            /\ s \in maps' => s \in maps \/ (s # curSeg /\ segs[s].exists)
        BY <1>3, <2>1, MapsOK
      <3>2. s \in SegIds
        BY <2>1
      <3> HIDE DEF s
      <3>3. s # curSeg /\ segs[s].exists => s < curSeg
        BY <1>1, <1>2, <2>1, <3>2 DEF SegIds
      <3> QED  BY <1>1, <1>2, <3>1, <3>2, <3>3
    <2>4. CASE segs' = SegsWritten /\ buf' = {} /\ bufLen' = 0
      BY <1>1, <1>10, <1>11, <2>1, <2>2, <2>3, <2>4
    <2>5. CASE UNCHANGED <<segs, buf, bufLen>>
      <3>1. TypeOK'
        BY <2>1, <2>2, <2>3, <2>5 DEF TypeOK
      <3>2. IoShape'
        BY <1>2, <2>1, <2>3, <2>5 DEF IoShape, WriterShape
      <3> QED  BY <2>1, <2>2, <2>3, <3>1, <3>2 DEF Bounded
    <2> QED  BY <1>14, <2>4, <2>5 DEF GetMiss
  <1>15. CASE Drop
    <2>1. /\ segs' = SegsFlushed /\ epiSynced' = EpiSyncedAfterFlush
          /\ promised' = promised \cup pending /\ durable' = durable \cup wrote
          /\ pending' = {} /\ wrote' = {} /\ UNCHANGED <<epi, epiTail, crashes, ioErrors>>
          /\ Forget
      BY <1>15 DEF Drop, FlushDisk, Promise
    <2>2. /\ up' = FALSE /\ index' = [x \in Obj |-> NoLoc] /\ curSeg' = 0 /\ fileSeg' = 0
          /\ curOff' = 0 /\ buf' = {} /\ bufLen' = 0 /\ dirty' = FALSE /\ cache' = <<>>
          /\ cacheCap' = LruCap(CacheCap) /\ maps' = {} /\ mmapCap' = MmapCap
      BY <2>1 DEF Forget
    <2>3. segs' \in [SegIds -> File] /\ \A s \in SegIds : FileOK(segs'[s], {}, 0)
      BY <1>2, <2>1, WriterFlushOK
    <2>4. TypeOK'
      <3>1. cache' \in Seq([key : Obj, val : Obj]) /\ cacheCap' \in Nat \ {0} /\ 0 \in SegIds
        BY <2>2, LruCapOK DEF SegIds
      <3>2. index' \in [Obj -> Loc]
        BY <2>2, NoLocOK
      <3>3. promised' \in SUBSET Obj /\ durable' \in SUBSET promised' /\ pending' \in SUBSET Obj
            /\ wrote' \in SUBSET pending'
        BY <1>11, <2>1
      <3> QED  BY <1>4, <2>1, <2>2, <2>3, <3>1, <3>2, <3>3 DEF TypeOK
    <2>5. IoShape'
      <3>1. 0 \in SegIds
        BY DEF SegIds
      <3> QED  BY <2>2, <2>3, <3>1 DEF IoShape, WriterShape
    <2>6. Bounded'
      BY <2>2, FS_EmptySet, LruCapOK DEF Bounded
    <2> QED  BY <2>4, <2>5, <2>6
  <1>16. ASSUME NEW c \in CapChoices, ConfigureCaches(c[1], c[2])
         PROVE  TypeOK' /\ IoShape' /\ Bounded'
    <2>1. /\ up /\ cache' = <<>> /\ cacheCap' = LruCap(c[1]) /\ mmapCap' = c[2]
          /\ maps' = KeepLargest(maps, c[2])
          /\ UNCHANGED <<disk, up, index, file, told, crashes, ioErrors>>
      BY <1>16 DEF ConfigureCaches
    <2>2. c[1] \in Nat /\ c[2] \in Nat
      OBVIOUS
    <2>3. maps' \in SUBSET maps /\ Cardinality(maps') =< mmapCap'
      BY <1>1, <2>1, <2>2, KeepLargestOK
    <2>4. cacheCap' \in Nat \ {0} /\ mmapCap' \in Nat /\ cache' \in Seq([key : Obj, val : Obj])
          /\ Len(cache') = 0
      BY <2>1, <2>2, LruCapOK
    <2>5. TypeOK'
      BY <2>1, <2>3, <2>4 DEF TypeOK, disk, file, told
    <2>6. IoShape'
      BY <2>1, <2>3 DEF IoShape, WriterShape, disk, file
    <2> QED  BY <2>3, <2>4, <2>5, <2>6 DEF Bounded
  <1>17. ASSUME IoError PROVE ioErrors' \in 0..MaxIoErrors
    BY <1>1, <1>17 DEF IoError
  <1>18. ASSUME NEW o \in Obj, PutInsertFails(o) PROVE TypeOK' /\ IoShape' /\ Bounded'
    <2>1. /\ IoError
          /\ segs' = SegsAfterWrite(segs, fileSeg, buf, bufLen, o)
          /\ buf' = BufAfterWrite(segs, fileSeg, buf, bufLen, o)
          /\ bufLen' = BufLenAfterWrite(bufLen, o)
          /\ UNCHANGED <<epi, epiSynced, up, index, curSeg, fileSeg, curOff, dirty,
                         views, told, crashes>>
      BY <1>18 DEF PutInsertFails
    <2>2. WriteFacts(segs, fileSeg, buf, bufLen, o, segs', buf', bufLen')
      BY <1>1, <1>2, <2>1, WriteOK
    <2>3. /\ segs' \in [SegIds -> File] /\ buf' \in SUBSET Rec /\ bufLen' \in Nat
          /\ \A t \in SegIds : t # fileSeg => segs'[t] = segs[t]
          /\ segs'[fileSeg].exists = segs[fileSeg].exists
          /\ FileOK(segs'[fileSeg], buf', bufLen')
      BY <2>2 DEF WriteFacts
    <2>4. epiTail' \in Obj \cup {NoTail, Junk}
      BY <1>18 DEF PutInsertFails, TypeOK
    <2>5. TypeOK'
      BY <1>17, <2>1, <2>3, <2>4 DEF TypeOK, views, told
    <2>6. IoShape'
      <3>1. FileOK(segs'[fileSeg], {}, 0)
        BY <2>3 DEF FileOK
      <3>2. WriterShape'
        BY <1>2, <2>1, <2>3, <3>1 DEF WriterShape
      <3>3. \A t \in SegIds : segs'[t].exists = segs[t].exists
        BY <2>3
      <3> QED  BY <1>1, <1>2, <2>1, <3>2, <3>3 DEF IoShape, views
    <2> QED  BY <1>3, <2>1, <2>5, <2>6 DEF Bounded, views
  <1>19. ASSUME NEW o \in Obj, PutRotateFails(o) PROVE TypeOK' /\ IoShape' /\ Bounded'
    <2>1. up /\ IoError /\ segs' = SegsFlushed /\ buf' = {} /\ bufLen' = 0 /\ dirty' = FALSE
          /\ epiSynced' = EpiSyncedAfterFlush /\ maps' = MapsAfterFlush
          /\ curSeg < MaxSegId /\ curSeg' = curSeg + 1
          /\ UNCHANGED <<epi, epiTail, up, index, fileSeg, curOff, cache, cacheCap, mmapCap,
                         pending, wrote, promised, durable, crashes>>
      BY <1>19 DEF PutRotateFails, told
    <2>2. curSeg' \in SegIds /\ curSeg =< curSeg'
      BY <1>1, <2>1 DEF SegIds
    <2> QED  BY <1>1, <1>3, <1>4, <1>10, <1>11, <1>17, <2>1, <2>2
  <1>20. CASE FlushSyncFails
    <2>1. up /\ IoError /\ segs' = SegsWritten /\ buf' = {} /\ bufLen' = 0
          /\ UNCHANGED <<epi, epiTail, epiSynced, up, index, curSeg, fileSeg, curOff, dirty,
                         cache, cacheCap, maps, mmapCap, pending, wrote, promised, durable, crashes>>
      BY <1>20 DEF FlushSyncFails, views, told
    <2> QED  BY <1>1, <1>2, <1>3, <1>10, <1>11, <1>17, <2>1
  <1>21. CASE UNCHANGED vars
    BY <1>21 DEF vars, disk, file, views, told, TypeOK, IoShape, WriterShape, Bounded
  <1>22. ASSUME NEW o \in Obj, GetHit(o) PROVE TypeOK' /\ IoShape' /\ Bounded'
    BY <1>21, <1>22 DEF GetHit
  <1> QED
    BY <1>6, <1>7, <1>8, <1>9, <1>12, <1>13, <1>14, <1>15, <1>16, <1>18, <1>19, <1>20, <1>21,
       <1>22 DEF IoErrorNext, CleanNext

-----------------------------------------------------------------------------
(* As long as every I/O call succeeds *)

\* A location keeps leading to its record when the files and the buffer only
\* gain records.
LEMMA LocatedKept ==
    ASSUME NEW S, NEW T, NEW c, NEW d, NEW b, NEW e, NEW o, NEW loc,
           Located(S, c, b, o, loc),
           \A t \in SegIds : S[t].exists => T[t].exists /\ S[t].recs \subseteq T[t].recs,
           S[c].exists => b \subseteq T[c].recs \/ (d = c /\ b \subseteq T[c].recs \cup e)
    PROVE  Located(T, d, e, o, loc)
  BY DEF Located

\* What put leaves in the files and the buffer keeps every location.
LEMMA WriteLocated ==
    ASSUME NEW S \in [SegIds -> File], NEW s \in SegIds, NEW b \in SUBSET Rec, NEW n \in Nat,
           NEW o \in Obj, FileOK(S[s], b, n), NEW x, NEW loc, Located(S, s, b, x, loc),
           segs' = SegsAfterWrite(S, s, b, n, o), buf' = BufAfterWrite(S, s, b, n, o),
           bufLen' = BufLenAfterWrite(n, o)
    PROVE  Located(segs', s, buf', x, loc)
  <1>1. WriteFacts(S, s, b, n, o, segs', buf', bufLen')
    BY WriteOK
  <1>2. \A t \in SegIds : S[t].exists => segs'[t].exists /\ S[t].recs \subseteq segs'[t].recs
    BY <1>1 DEF WriteFacts
  <1>3. b \subseteq segs'[s].recs \cup buf'
    BY <1>1 DEF WriteFacts
  <1> QED  BY <1>2, <1>3 DEF Located

\* put writes the record where its new entry says it is.
LEMMA WriteClean ==
    ASSUME CleanInv, TypeOK', up, NEW o \in Obj, ~Contains(o),
           NEW S \in [SegIds -> File], NEW s \in SegIds, NEW b \in SUBSET Rec, NEW n \in Nat,
           FileOK(S[s], b, n), S[s].exists,
           \A x, loc : Located(segs, curSeg, buf, x, loc) => Located(S, s, b, x, loc),
           WriteAndIndex(o, S, s, b, n, s, S[s].len + n)
    PROVE  EntriesLocated' /\ CacheExact' /\ AckedIndexed'
  <1> DEFINE loc == [seg |-> s, off |-> S[s].len + n, len |-> RecLen[o]]
             ent == [hash |-> o, loc |-> loc]
  <1>1. /\ segs' = SegsAfterWrite(S, s, b, n, o) /\ buf' = BufAfterWrite(S, s, b, n, o)
        /\ bufLen' = BufLenAfterWrite(n, o) /\ curSeg' = s
        /\ cache' = LruInsert(cache, cacheCap, o, o)
        /\ pending' = pending \cup {o} /\ promised' = promised
    BY DEF WriteAndIndex, Ack
  <1>2. TypeOK /\ Shape /\ EntriesLocated /\ CacheExact /\ AckedIndexed
    BY DEF CleanInv
  <1>3. epi' = Append(epi, ent)
    BY <1>2 DEF WriteAndIndex, InsertEntry, Shape, EpiWellFormed
  <1>4. /\ DOMAIN epi = 1..Len(epi) /\ Len(epi) \in Nat /\ DOMAIN epi' = 1..(Len(epi) + 1)
        /\ \A i \in DOMAIN epi : epi'[i] = epi[i]
        /\ epi'[Len(epi) + 1] = ent
    <2>1. epi \in Seq(Entry)
      BY <1>2 DEF TypeOK
    <2> HIDE DEF ent
    <2> QED  BY <1>3, <2>1
  <1>5. \A i \in DOMAIN epi' : i \in DOMAIN epi \/ i = Len(epi) + 1
    BY <1>4
  <1>6. WriteFacts(S, s, b, n, o, segs', buf', bufLen')
    BY <1>1, WriteOK
  <1>7. Located(segs', s, buf', o, loc)
    <2>1. WrittenRec(S, s, n, o) \in segs'[s].recs \cup buf' /\ segs'[s].exists
      BY <1>6 DEF WriteFacts
    <2> QED  BY <2>1 DEF WrittenRec, Located
  <1>8. EntriesLocated'
    <2> SUFFICES ASSUME NEW i \in DOMAIN epi'
                 PROVE  Located(segs', curSeg', buf', epi'[i].hash, epi'[i].loc)
      BY DEF EntriesLocated
    <2>1. CASE i = Len(epi) + 1
      BY <1>1, <1>4, <1>7, <2>1
    <2>2. CASE i \in DOMAIN epi
      <3>1. Located(S, s, b, epi[i].hash, epi[i].loc)
        BY <1>2, <2>2 DEF EntriesLocated
      <3>2. Located(segs', s, buf', epi[i].hash, epi[i].loc)
        BY <1>1, <3>1, WriteLocated
      <3> QED  BY <1>1, <1>4, <2>2, <3>2
    <2> QED  BY <1>5, <2>1, <2>2
  <1>9. CacheExact'
    <2>1. LruFacts(cache, cacheCap, o, o, cache')
      BY <1>1, <1>2, LruInsertOK DEF TypeOK
    <2> QED  BY <1>2, <2>1 DEF LruFacts, CacheExact
  <1>10. AckedIndexed'
    <2> SUFFICES ASSUME NEW x \in pending \cup {o} \cup promised
                 PROVE  \E i \in DOMAIN epi' : epi'[i].hash = x
      BY <1>1 DEF AckedIndexed
    <2>1. CASE x = o
      <3>1. Len(epi) + 1 \in DOMAIN epi'
        BY <1>4
      <3> QED  BY <1>4, <2>1, <3>1
    <2>2. CASE x # o
      <3>1. PICK i \in DOMAIN epi : epi[i].hash = x
        BY <1>2, <2>2 DEF AckedIndexed
      <3>2. i \in DOMAIN epi'
        BY <1>4
      <3> QED  BY <1>4, <3>1, <3>2
    <2> QED  BY <2>1, <2>2
  <1> QED  BY <1>8, <1>9, <1>10

\* Without crashes and failing calls every entry of index.epi leads to its
\* object, and every step keeps it so.
LEMMA StepClean ==
    ASSUME CleanInv, [CleanNext]_vars
    PROVE  CleanInv'
  <1>1. TypeOK /\ Shape /\ EntriesLocated /\ CacheExact /\ AckedIndexed
    BY DEF CleanInv
  <1>2. TypeOK' /\ Shape'
    BY <1>1, StepShape DEF CrashNext
  <1> SUFFICES EntriesLocated' /\ CacheExact' /\ AckedIndexed'
    BY <1>2 DEF CleanInv
  <1>3. \A x, loc : Located(segs, curSeg, buf, x, loc) =>
            Located(SegsFlushed, curSeg, {}, x, loc) /\ Located(SegsWritten, curSeg, {}, x, loc)
    <2>1. /\ \A t \in SegIds : /\ SegsFlushed[t].exists = segs[t].exists
                               /\ SegsWritten[t].exists = segs[t].exists
                               /\ segs[t].recs \subseteq SegsWritten[t].recs
                               /\ SegsFlushed[t].recs = SegsWritten[t].recs
          /\ SegsWritten[curSeg].recs = segs[curSeg].recs \cup buf
      BY <1>1, FlushOK
    <2> QED  BY <2>1 DEF Located
  <1>4. ASSUME segs' \in {SegsFlushed, SegsWritten}, epi' = epi
        PROVE  EntriesLocated'
    <2>1. \A i \in DOMAIN epi : Located(segs', curSeg, {}, epi[i].hash, epi[i].loc)
      BY <1>1, <1>3, <1>4 DEF EntriesLocated
    <2> QED  BY <1>4, <2>1 DEF EntriesLocated, Located
  <1>5. ASSUME epi' = epi, pending' \cup promised' = pending \cup promised
        PROVE  AckedIndexed'
    BY <1>1, <1>5 DEF AckedIndexed
  <1>6. CASE Open
    <2>1. /\ UNCHANGED <<epi, pending, promised>> /\ cache' = <<>> /\ buf' = {} /\ ~up
          /\ \E s \in SegIds : segs' = IF segs[s].exists THEN segs ELSE [segs EXCEPT ![s] = NewSegment]
      BY <1>6 DEF Open, told
    <2>2. buf = {}
      BY <1>1, <2>1 DEF Shape, WriterInStep
    <2>3. \A t \in SegIds : segs[t].exists => segs'[t] = segs[t]
      BY <1>1, <2>1 DEF TypeOK
    <2>4. \A i \in DOMAIN epi : Located(segs', curSeg', buf', epi[i].hash, epi[i].loc)
      BY <1>1, <2>1, <2>2, <2>3 DEF EntriesLocated, Located
    <2>5. epi' = epi /\ cache' = <<>>
      BY <2>1
    <2>6. EntriesLocated'
      BY <2>4, <2>5 DEF EntriesLocated
    <2>7. CacheExact'
      BY <2>5 DEF CacheExact
    <2> QED  BY <1>5, <2>1, <2>6, <2>7
  <1>7. ASSUME NEW o \in Obj, PutDedup(o) PROVE EntriesLocated' /\ CacheExact' /\ AckedIndexed'
    <2>1. UNCHANGED <<segs, epi, curSeg, buf, cache, promised>> /\ pending' = pending \cup {o}
          /\ up /\ Contains(o)
      BY <1>7 DEF PutDedup, Ack, disk, file, views
    <2>2. \E i \in DOMAIN epi : epi[i].hash = o
      BY <1>1, <2>1 DEF Shape, IndexInStep
    <2>3. AckedIndexed'
      BY <1>1, <2>1, <2>2 DEF AckedIndexed
    <2> QED  BY <1>1, <2>1, <2>3 DEF EntriesLocated, CacheExact
  <1>8. ASSUME NEW o \in Obj, PutInPlace(o) PROVE EntriesLocated' /\ CacheExact' /\ AckedIndexed'
    <2>1. up /\ ~Contains(o) /\ WriteAndIndex(o, segs, fileSeg, buf, bufLen, curSeg, curOff)
      BY <1>8 DEF PutInPlace
    <2>2. fileSeg = curSeg /\ curOff = segs[curSeg].len + bufLen /\ segs[curSeg].exists
          /\ FileOK(segs[curSeg], buf, bufLen)
      BY <1>1, <2>1 DEF Shape, WriterInStep, FilesWellFormed
    <2>3. segs \in [SegIds -> File] /\ curSeg \in SegIds /\ buf \in SUBSET Rec /\ bufLen \in Nat
      BY <1>1 DEF TypeOK
    <2>4. WriteAndIndex(o, segs, curSeg, buf, bufLen, curSeg, segs[curSeg].len + bufLen)
      BY <2>1, <2>2
    <2> QED  BY <1>2, <2>1, <2>2, <2>3, <2>4, WriteClean
  <1>9. ASSUME NEW o \in Obj, PutRotating(o) PROVE EntriesLocated' /\ CacheExact' /\ AckedIndexed'
    <2> DEFINE id == curSeg + 1
               S == SegsRotated
    <2>1. up /\ ~Contains(o) /\ curSeg < MaxSegId
          /\ WriteAndIndex(o, S, id, {}, 0, id, HeaderLen)
      BY <1>9 DEF PutRotating
    <2>2. /\ id \in SegIds /\ S \in [SegIds -> File] /\ FileOK(S[id], {}, 0)
          /\ S[id] = NewSegment
          /\ \A t \in SegIds : t # id => S[t] = SegsFlushed[t]
          /\ ~segs[id].exists
      BY <1>1, <2>1, RotateOK
    <2>3. S[id].exists /\ S[id].len + 0 = HeaderLen
      BY <2>2 DEF NewSegment
    <2> HIDE DEF id, S
    <2>4. WriteAndIndex(o, S, id, {}, 0, id, S[id].len + 0)
      BY <2>1, <2>3
    <2>5. \A t \in SegIds : SegsFlushed[t].exists = segs[t].exists
      BY <1>1, FlushOK
    <2>6. \A x, loc : Located(segs, curSeg, buf, x, loc) => Located(S, id, {}, x, loc)
      BY <1>3, <2>2, <2>5 DEF Located
    <2>7. {} \in SUBSET Rec /\ 0 \in Nat
      OBVIOUS
    <2> QED  BY <1>2, <2>1, <2>2, <2>3, <2>4, <2>6, <2>7, WriteClean
  <1>10. ASSUME NEW o \in Obj, PutOverflow(o) PROVE EntriesLocated' /\ CacheExact' /\ AckedIndexed'
    <2>1. segs' = SegsFlushed /\ UNCHANGED <<epi, cache, pending, promised>>
      BY <1>10 DEF PutOverflow, told
    <2> QED  BY <1>1, <1>4, <1>5, <2>1 DEF CacheExact
  <1>11. CASE Flush
    <2>1. segs' = SegsFlushed /\ UNCHANGED <<epi, cache>> /\ promised' = promised \cup pending
          /\ pending' = {}
      BY <1>11 DEF Flush, FlushDisk, Promise
    <2> QED  BY <1>1, <1>4, <1>5, <2>1 DEF CacheExact
  <1>12. CASE Drop
    <2>1. segs' = SegsFlushed /\ epi' = epi /\ cache' = <<>> /\ promised' = promised \cup pending
          /\ pending' = {}
      BY <1>12 DEF Drop, FlushDisk, Promise, Forget
    <2> QED  BY <1>4, <1>5, <2>1 DEF CacheExact
  <1>13. ASSUME NEW o \in Obj, GetMiss(o) PROVE EntriesLocated' /\ CacheExact' /\ AckedIndexed'
    <2>1. up /\ index[o].seg \in SegIds /\ UNCHANGED <<epi, curSeg, pending, promised>>
      BY <1>13 DEF GetMiss, told
    <2>2. EntriesLocated'
      <3>1. CASE segs' = SegsWritten
        BY <1>4, <2>1, <3>1
      <3>2. CASE UNCHANGED <<segs, buf>>
        BY <1>1, <2>1, <3>2 DEF EntriesLocated
      <3> QED  BY <1>13, <3>1, <3>2 DEF GetMiss
    <2>3. ReadAt(index[o]) = {o}
      <3>1. Contains(o)
        BY <2>1, NoLocOK DEF Contains
      <3>2. PICK i \in DOMAIN epi : epi[i].hash = o
        BY <1>1, <2>1, <3>1 DEF Shape, IndexInStep
      <3>3. index[o] = epi[i].loc /\ index[o] \in Loc
        BY <1>1, <2>1, <3>2 DEF Shape, IndexInStep, TypeOK
      <3>4. Located(segs, curSeg, buf, o, index[o])
        BY <1>1, <3>2, <3>3 DEF EntriesLocated
      <3> QED  BY <1>1, <3>3, <3>4, ReadOK
    <2>4. cache' = LruInsert(cache, cacheCap, o, o)
      BY <1>13, <2>3 DEF GetMiss
    <2>5. LruFacts(cache, cacheCap, o, o, cache')
      BY <1>1, <2>4, LruInsertOK DEF TypeOK
    <2>6. CacheExact'
      BY <1>1, <2>5, SMTT(30) DEF LruFacts, CacheExact
    <2> QED  BY <1>5, <2>1, <2>2, <2>6
  <1>14. ASSUME NEW c \in CapChoices, ConfigureCaches(c[1], c[2])
         PROVE  EntriesLocated' /\ CacheExact' /\ AckedIndexed'
    <2>1. UNCHANGED <<segs, epi, curSeg, buf, pending, promised>> /\ cache' = <<>>
      BY <1>14 DEF ConfigureCaches, disk, file, told
    <2> QED  BY <1>1, <2>1 DEF EntriesLocated, CacheExact, AckedIndexed
  <1>15. CASE UNCHANGED vars
    <2>1. UNCHANGED <<segs, epi, curSeg, buf, cache, pending, promised>>
      BY <1>15 DEF vars, disk, file, views, told
    <2> QED  BY <1>1, <2>1 DEF EntriesLocated, CacheExact, AckedIndexed
  <1>16. ASSUME NEW o \in Obj, GetHit(o) PROVE EntriesLocated' /\ CacheExact' /\ AckedIndexed'
    BY <1>15, <1>16 DEF GetHit
  <1> QED
    BY <1>6, <1>7, <1>8, <1>9, <1>10, <1>11, <1>12, <1>13, <1>14, <1>15, <1>16 DEF CleanNext

\* A state of CleanInv answers for everything it acknowledged.
LEMMA CleanReads ==
    ASSUME CleanInv, up
    PROVE  /\ \A o \in Obj : Contains(o) => ReadAt(index[o]) = {o}
           /\ \A o \in pending \cup promised : Contains(o) /\ GetPayload(o) = {o}
  <1>1. TypeOK /\ Shape /\ EntriesLocated /\ CacheExact /\ AckedIndexed
    BY DEF CleanInv
  <1>2. ASSUME NEW i \in DOMAIN epi
        PROVE  index[epi[i].hash] = epi[i].loc /\ epi[i].loc.seg \in SegIds
               /\ epi[i].hash \in Obj /\ ReadAt(epi[i].loc) = {epi[i].hash}
    <2>1. index[epi[i].hash] = epi[i].loc /\ epi[i].loc.seg \in SegIds /\ epi[i].hash \in Obj
      BY <1>1 DEF Shape, IndexInStep, EpiWellFormed
    <2>2. epi[i].loc \in Loc
      BY <1>1, <2>1 DEF TypeOK
    <2>3. Located(segs, curSeg, buf, epi[i].hash, epi[i].loc)
      BY <1>1 DEF EntriesLocated
    <2> QED  BY <1>1, <2>1, <2>2, <2>3, ReadOK
  <1>3. \A o \in Obj : Contains(o) => \E i \in DOMAIN epi : epi[i].hash = o
    BY <1>1 DEF Shape, IndexInStep
  <1>4. ASSUME NEW o \in pending \cup promised PROVE Contains(o) /\ GetPayload(o) = {o}
    <2>1. PICK i \in DOMAIN epi : epi[i].hash = o
      BY <1>1 DEF AckedIndexed
    <2>2. Contains(o) /\ ReadAt(index[o]) = {o}
      BY <1>2, <2>1, NoLocOK DEF Contains
    <2>3. cache \in Seq([key : Obj, val : Obj])
      BY <1>1 DEF TypeOK
    <2>4. LruHas(cache, o) => LruGet(cache, o) = o
      <3>1. SUFFICES ASSUME LruHas(cache, o) PROVE LruGet(cache, o) = o
        OBVIOUS
      <3>2. PICK j \in DOMAIN cache : cache[j].key = o /\ LruGet(cache, o) = cache[j].val
        BY <2>3, <3>1, LruGetOK
      <3> QED  BY <1>1, <3>2 DEF CacheExact
    <2> QED  BY <2>2, <2>4 DEF GetPayload
  <1> QED  BY <1>2, <1>3, <1>4

-----------------------------------------------------------------------------
(* Reads, while the store stays open *)

\* A segment as a read sees it is a well-formed file that holds at least what
\* was written to the file and at most what is buffered besides.
ViewFacts ==
    \A s \in SegIds :
        /\ SegView(s) \in File /\ FileOK(SegView(s), {}, 0)
        /\ SegView(s).exists = segs[s].exists
        /\ segs[s].len =< SegView(s).len /\ segs[s].recs \subseteq SegView(s).recs
        /\ SegView(s).len =< SegsWritten[s].len /\ SegView(s).recs \subseteq SegsWritten[s].recs
        /\ s # curSeg \/ s # fileSeg => SegView(s) = segs[s]
        /\ s = curSeg /\ s = fileSeg => /\ SegView(s).len = segs[s].len + bufLen
                                        /\ SegView(s).recs = segs[s].recs \cup buf

\* What reads see of the segments follows from their shape.
LEMMA ViewOK == TypeOK /\ WriterShape => ViewFacts
  <1> SUFFICES ASSUME TypeOK, WriterShape, NEW s \in SegIds
               PROVE  /\ SegView(s) \in File /\ FileOK(SegView(s), {}, 0)
                      /\ SegView(s).exists = segs[s].exists
                      /\ segs[s].len =< SegView(s).len /\ segs[s].recs \subseteq SegView(s).recs
                      /\ SegView(s).len =< SegsWritten[s].len
                      /\ SegView(s).recs \subseteq SegsWritten[s].recs
                      /\ s # curSeg \/ s # fileSeg => SegView(s) = segs[s]
                      /\ s = curSeg /\ s = fileSeg => /\ SegView(s).len = segs[s].len + bufLen
                                                      /\ SegView(s).recs = segs[s].recs \cup buf
    BY DEF ViewFacts
  <1>1. /\ SegsWritten[s] \in File /\ FileOK(SegsWritten[s], {}, 0)
        /\ SegsWritten[s].exists = segs[s].exists
        /\ segs[s].recs \subseteq SegsWritten[s].recs
        /\ s # fileSeg => SegsWritten[s] = segs[s]
        /\ s = fileSeg => /\ SegsWritten[s].len = segs[s].len + bufLen
                          /\ SegsWritten[s].recs = segs[s].recs \cup buf
    BY WriterFlushOK
  <1>2. segs[s] \in File /\ FileOK(segs[s], {}, 0) /\ bufLen \in Nat
    BY DEF TypeOK, WriterShape
  <1>3. segs[s].len \in Nat /\ SegsWritten[s].len \in Nat /\ segs[s].len =< SegsWritten[s].len
    BY <1>1, <1>2 DEF File
  <1>4. CASE s = curSeg
    BY <1>1, <1>2, <1>3, <1>4 DEF SegView
  <1>5. CASE s # curSeg
    BY <1>1, <1>2, <1>3, <1>5 DEF SegView
  <1> QED  BY <1>4, <1>5

\* Every segment that a read sees has only grown.
ViewKept ==
    \A s \in SegIds : SegView(s).exists => /\ SegView(s)'.exists
                                           /\ SegView(s).len =< SegView(s)'.len
                                           /\ SegView(s).recs \subseteq SegView(s)'.recs

\* Then a location that could be read is read as before.
LEMMA ReadKept ==
    ASSUME TypeOK, WriterShape, TypeOK', WriterShape', ViewKept,
           NEW loc \in Loc, ReadAt(loc) # {}
    PROVE  ReadAt(loc)' = ReadAt(loc)
  <1> DEFINE f == SegView(loc.seg)
             g == SegView(loc.seg)'
  <1>1. loc.seg \in SegIds /\ f.exists /\ loc.off + loc.len =< f.len /\ ReadAt(loc) = DecodeAt(f, loc)
    BY DEF ReadAt
  <1>2. f \in File /\ FileOK(f, {}, 0)
    BY <1>1, ViewOK DEF ViewFacts
  <1>3. g \in File /\ FileOK(g, {}, 0)
    <2>1. ViewFacts'
      BY ViewOK, PTL
    <2> QED  BY <1>1, <2>1 DEF ViewFacts
  <1>4. g.exists /\ f.len =< g.len /\ f.recs \subseteq g.recs
    BY <1>1 DEF ViewKept
  <1>5. loc.off \in Nat /\ loc.len \in Nat /\ f.len \in Nat /\ g.len \in Nat
    BY <1>2, <1>3 DEF Loc, File
  <1> HIDE DEF f, g
  <1>6. loc.off + loc.len =< g.len
    BY <1>1, <1>4, <1>5
  <1>7. ReadAt(loc)' = DecodeAt(g, loc)
    BY <1>1, <1>4, <1>6 DEF ReadAt, DecodeAt, g
  <1>8. \A r, q \in g.recs : r.off = q.off => r = q
    BY <1>3 DEF FileOK
  <1>9. PICK x \in Obj : [off |-> loc.off, obj |-> x] \in f.recs /\ RecLen[x] =< loc.len
    BY <1>1 DEF DecodeAt
  <1>10. \A y \in Obj : [off |-> loc.off, obj |-> y] \in g.recs => y = x
    <2> SUFFICES ASSUME NEW y \in Obj, [off |-> loc.off, obj |-> y] \in g.recs PROVE y = x
      OBVIOUS
    <2> DEFINE r == [off |-> loc.off, obj |-> y]
               q == [off |-> loc.off, obj |-> x]
    <2>1. r \in g.recs /\ q \in g.recs /\ r.off = q.off
      BY <1>4, <1>9
    <2>2. r = q
      BY <1>8, <2>1
    <2> QED  BY <2>2
  <1>11. DecodeAt(g, loc) = {x} /\ DecodeAt(f, loc) = {x}
    BY <1>4, <1>9, <1>10 DEF DecodeAt
  <1> QED  BY <1>1, <1>7, <1>11

\* It is so when every file gained what the buffer held ...
LEMMA ViewWritten ==
    ASSUME TypeOK, WriterShape, TypeOK', WriterShape',
           \A s \in SegIds : segs[s].exists => /\ segs'[s].exists
                                               /\ SegsWritten[s].len =< segs'[s].len
                                               /\ SegsWritten[s].recs \subseteq segs'[s].recs
    PROVE  ViewKept
  <1>1. ViewFacts /\ ViewFacts'
    BY ViewOK, PTL
  <1> SUFFICES ASSUME NEW s \in SegIds, SegView(s).exists
               PROVE  /\ SegView(s)'.exists
                      /\ SegView(s).len =< SegView(s)'.len
                      /\ SegView(s).recs \subseteq SegView(s)'.recs
    BY DEF ViewKept
  <1>2. segs[s].exists /\ SegView(s).len =< SegsWritten[s].len /\ SegView(s).recs \subseteq SegsWritten[s].recs
        /\ SegView(s) \in File
    BY <1>1 DEF ViewFacts
  <1>3. /\ segs'[s].exists = SegView(s)'.exists /\ segs'[s].len =< SegView(s)'.len
        /\ segs'[s].recs \subseteq SegView(s)'.recs /\ SegView(s)' \in File
    BY <1>1 DEF ViewFacts
  <1>4. SegsWritten[s] \in File /\ segs'[s] \in File
    BY WriterFlushOK DEF TypeOK
  <1>5. SegView(s).len \in Nat /\ SegsWritten[s].len \in Nat /\ segs'[s].len \in Nat /\ SegView(s)'.len \in Nat
    BY <1>2, <1>3, <1>4 DEF File
  <1> QED  BY <1>2, <1>3, <1>5

\* ... or put wrote a record behind it.
LEMMA ViewAppended ==
    ASSUME TypeOK, WriterShape, TypeOK', WriterShape', NEW o \in Obj,
           WriteFacts(segs, fileSeg, buf, bufLen, o, segs', buf', bufLen'),
           fileSeg' = fileSeg, curSeg' = curSeg
    PROVE  ViewKept
  <1>1. ViewFacts /\ ViewFacts'
    BY ViewOK, PTL
  <1>2. fileSeg \in SegIds /\ bufLen \in Nat /\ bufLen' \in Nat /\ RecLen[o] \in Nat
    BY DEF TypeOK
  <1> SUFFICES ASSUME NEW s \in SegIds, SegView(s).exists
               PROVE  /\ SegView(s)'.exists
                      /\ SegView(s).len =< SegView(s)'.len
                      /\ SegView(s).recs \subseteq SegView(s)'.recs
    BY DEF ViewKept
  <1>3. segs[s] \in File /\ segs'[s] \in File /\ SegView(s) \in File /\ SegView(s)' \in File
    BY <1>1 DEF ViewFacts, TypeOK
  <1>4. segs[s].len \in Nat /\ segs'[s].len \in Nat /\ SegView(s).len \in Nat /\ SegView(s)'.len \in Nat
    BY <1>3 DEF File
  <1>5. segs'[s].exists = segs[s].exists /\ segs[s].len =< segs'[s].len
        /\ segs[s].recs \subseteq segs'[s].recs
    BY <1>4 DEF WriteFacts
  <1>6. SegView(s).exists = segs[s].exists /\ SegView(s)'.exists = segs'[s].exists
    BY <1>1 DEF ViewFacts
  <1>7. CASE s = curSeg /\ s = fileSeg
    <2>1. /\ SegView(s).len = segs[s].len + bufLen /\ SegView(s).recs = segs[s].recs \cup buf
          /\ SegView(s)'.len = segs'[s].len + bufLen' /\ SegView(s)'.recs = segs'[s].recs \cup buf'
      BY <1>1, <1>7 DEF ViewFacts
    <2>2. segs'[s].len + bufLen' = segs[s].len + bufLen + RecLen[o]
          /\ segs[s].recs \cup buf \subseteq segs'[s].recs \cup buf'
      BY <1>7 DEF WriteFacts
    <2> QED  BY <1>2, <1>4, <1>5, <1>6, <2>1, <2>2
  <1>8. CASE s # curSeg \/ s # fileSeg
    <2>1. SegView(s) = segs[s] /\ SegView(s)' = segs'[s]
      BY <1>1, <1>8 DEF ViewFacts
    <2> QED  BY <1>5, <1>6, <2>1
  <1> QED  BY <1>7, <1>8

\* While the store stays open a step takes nothing from any segment that reads
\* see and moves no entry, whether the step succeeds or fails.
LEMMA StepView ==
    ASSUME TypeOK, WriterShape, TypeOK', WriterShape', up, up', [IoErrorNext]_vars,
           \A s \in SegIds : s > curSeg => ~segs[s].exists
    PROVE  ViewKept /\ \A x \in Obj : Contains(x) => index'[x] = index[x]
  <1>1. WriterShape /\ WriterShape'
    OBVIOUS
  <1>2. /\ segs \in [SegIds -> File] /\ curSeg \in SegIds /\ fileSeg \in SegIds
        /\ buf \in SUBSET Rec /\ bufLen \in Nat /\ FileOK(segs[fileSeg], buf, bufLen)
    BY <1>1 DEF TypeOK, WriterShape
  <1>3. \A s \in SegIds : /\ SegsWritten[s].exists = segs[s].exists /\ SegsWritten[s].len \in Nat
                          /\ SegsFlushed[s].exists = segs[s].exists
                          /\ SegsFlushed[s].recs = SegsWritten[s].recs
                          /\ SegsFlushed[s].len = SegsWritten[s].len
    BY <1>1, WriterFlushOK DEF File
  <1>4. ASSUME segs' \in {SegsWritten, SegsFlushed} PROVE ViewKept
    BY <1>1, <1>3, <1>4, ViewWritten
  <1>5. ASSUME UNCHANGED <<segs, buf, bufLen, curSeg, fileSeg>> PROVE ViewKept
    <2>1. ViewFacts
      BY <1>1, ViewOK
    <2>2. \A s \in SegIds : SegView(s)' = SegView(s) /\ SegView(s).len \in Nat
      BY <1>5, <2>1 DEF ViewFacts, SegView, SegsWritten, File
    <2> QED  BY <2>2 DEF ViewKept
  <1>6. ASSUME index' = index PROVE \A x \in Obj : Contains(x) => index'[x] = index[x]
    BY <1>6
  <1>7. ASSUME NEW o \in Obj, ~Contains(o), NEW loc, index' = [index EXCEPT ![o] = loc]
        PROVE  \A x \in Obj : Contains(x) => index'[x] = index[x]
    BY <1>7 DEF TypeOK
  <1>8. ASSUME NEW o \in Obj, segs' = SegsAfterWrite(segs, fileSeg, buf, bufLen, o),
               buf' = BufAfterWrite(segs, fileSeg, buf, bufLen, o),
               bufLen' = BufLenAfterWrite(bufLen, o), fileSeg' = fileSeg, curSeg' = curSeg
        PROVE  ViewKept
    <2>1. WriteFacts(segs, fileSeg, buf, bufLen, o, segs', buf', bufLen')
      BY <1>2, <1>8, WriteOK
    <2> QED  BY <1>1, <1>8, <2>1, ViewAppended
  <1> DEFINE G == ViewKept /\ \A x \in Obj : Contains(x) => index'[x] = index[x]
  <1>9. CASE Open
    BY <1>9 DEF Open
  <1>10. ASSUME NEW o \in Obj, PutDedup(o) PROVE G
    <2>1. UNCHANGED <<segs, buf, bufLen, curSeg, fileSeg, index>>
      BY <1>10 DEF PutDedup, disk, file
    <2> QED  BY <1>5, <1>6, <2>1
  <1>11. ASSUME NEW o \in Obj, PutInPlace(o) PROVE G
    <2>1. ~Contains(o) /\ segs' = SegsAfterWrite(segs, fileSeg, buf, bufLen, o)
          /\ buf' = BufAfterWrite(segs, fileSeg, buf, bufLen, o)
          /\ bufLen' = BufLenAfterWrite(bufLen, o) /\ fileSeg' = fileSeg /\ curSeg' = curSeg
          /\ \E loc : index' = [index EXCEPT ![o] = loc]
      BY <1>11 DEF PutInPlace, WriteAndIndex
    <2> QED  BY <1>7, <1>8, <2>1
  <1>12. ASSUME NEW o \in Obj, PutRotating(o) PROVE G
    <2> DEFINE id == curSeg + 1
               S == SegsRotated
    <2>1. ~Contains(o) /\ curSeg < MaxSegId /\ segs' = SegsAfterWrite(S, id, {}, 0, o)
          /\ \E loc : index' = [index EXCEPT ![o] = loc]
      BY <1>12 DEF PutRotating, WriteAndIndex
    <2>2. id \in SegIds /\ id > curSeg /\ ~segs[id].exists
      BY <1>2, <2>1 DEF SegIds
    <2>3. \A t \in SegIds : t # id => segs'[t] = SegsFlushed[t]
      <3>1. S = [SegsFlushed EXCEPT ![id] = NewSegment] /\ SegsFlushed \in [SegIds -> File]
        BY <1>1, WriterFlushOK DEF SegsRotated
      <3> HIDE DEF S
      <3>2. \A t \in SegIds : t # id => SegsAfterWrite(S, id, {}, 0, o)[t] = S[t]
        BY <3>1 DEF SegsAfterWrite
      <3> QED  BY <2>1, <3>1, <3>2
    <2>4. \A s \in SegIds : segs[s].exists => /\ segs'[s].exists
                                              /\ SegsWritten[s].len =< segs'[s].len
                                              /\ SegsWritten[s].recs \subseteq segs'[s].recs
      <3> HIDE DEF id
      <3> QED  BY <1>3, <2>2, <2>3
    <2>5. ViewKept
      BY <1>1, <2>4, ViewWritten
    <2> QED  BY <1>7, <2>1, <2>5
  <1>13. ASSUME NEW o \in Obj, PutOverflow(o) \/ PutRotateFails(o) PROVE G
    <2>1. segs' = SegsFlushed /\ index' = index
      BY <1>13 DEF PutOverflow, PutRotateFails
    <2> QED  BY <1>4, <1>6, <2>1
  <1>14. CASE Flush
    <2>1. segs' = SegsFlushed /\ index' = index
      BY <1>14 DEF Flush, FlushDisk
    <2> QED  BY <1>4, <1>6, <2>1
  <1>15. CASE FlushSyncFails
    <2>1. segs' = SegsWritten /\ index' = index
      BY <1>15 DEF FlushSyncFails
    <2> QED  BY <1>4, <1>6, <2>1
  <1>16. ASSUME NEW o \in Obj, GetMiss(o) PROVE G
    <2>1. index' = index /\ curSeg' = curSeg /\ fileSeg' = fileSeg
          /\ (segs' = SegsWritten \/ UNCHANGED <<segs, buf, bufLen>>)
      BY <1>16 DEF GetMiss
    <2> QED  BY <1>4, <1>5, <1>6, <2>1
  <1>17. CASE Drop
    BY <1>17 DEF Drop, Forget
  <1>18. ASSUME NEW c \in CapChoices, ConfigureCaches(c[1], c[2]) PROVE G
    <2>1. UNCHANGED <<segs, buf, bufLen, curSeg, fileSeg, index>>
      BY <1>18 DEF ConfigureCaches, disk, file
    <2> QED  BY <1>5, <1>6, <2>1
  <1>19. ASSUME NEW o \in Obj, PutInsertFails(o) PROVE G
    <2>1. segs' = SegsAfterWrite(segs, fileSeg, buf, bufLen, o)
          /\ buf' = BufAfterWrite(segs, fileSeg, buf, bufLen, o)
          /\ bufLen' = BufLenAfterWrite(bufLen, o) /\ UNCHANGED <<fileSeg, curSeg, index>>
      BY <1>19 DEF PutInsertFails
    <2> QED  BY <1>6, <1>8, <2>1
  <1>20. CASE UNCHANGED vars
    <2>1. UNCHANGED <<segs, buf, bufLen, curSeg, fileSeg, index>>
      BY <1>20 DEF vars, disk, file
    <2> QED  BY <1>5, <1>6, <2>1
  <1>21. ASSUME NEW o \in Obj, GetHit(o) PROVE G
    BY <1>20, <1>21 DEF GetHit
  <1> QED
    BY <1>9, <1>10, <1>11, <1>12, <1>13, <1>14, <1>15, <1>16, <1>17, <1>18, <1>19, <1>20, <1>21
    DEF IoErrorNext, CleanNext

\* Only the last segment is written to: with every I/O call succeeding, a
\* segment behind which another exists does not change.
LEMMA StepSealed ==
    ASSUME CleanInv, [CleanNext]_vars, NEW s \in SegIds, NEW t \in ExistingIds, t > s
    PROVE  segs'[s] = segs[s]
  <1>1. TypeOK /\ Shape
    BY DEF CleanInv
  <1>2. t \in SegIds /\ segs[t].exists /\ segs \in [SegIds -> File] /\ curSeg \in SegIds
    BY <1>1 DEF ExistingIds, TypeOK
  <1>3. up => s < curSeg
    <2>1. up => ~(t > curSeg)
      BY <1>1, <1>2 DEF Shape, WriterInStep
    <2> QED  BY <1>2, <2>1 DEF SegIds
  <1>4. up => SegsFlushed[s] = segs[s] /\ SegsWritten[s] = segs[s]
    BY <1>1, <1>3, FlushOK DEF SegIds
  <1>5. CASE Open
    <2>1. PICK x \in SegIds :
            /\ FindLatestSegment(x)
            /\ segs' = IF segs[x].exists THEN segs ELSE [segs EXCEPT ![x] = NewSegment]
      BY <1>5 DEF Open
    <2>2. x \in ExistingIds
      BY <2>1 DEF FindLatestSegment
    <2> QED  BY <2>1, <2>2 DEF ExistingIds
  <1>6. ASSUME NEW o \in Obj, PutInPlace(o) PROVE segs'[s] = segs[s]
    <2>1. up /\ fileSeg = curSeg /\ segs' = SegsAfterWrite(segs, fileSeg, buf, bufLen, o)
      BY <1>1, <1>6 DEF PutInPlace, WriteAndIndex, Shape, WriterInStep
    <2>2. s # fileSeg
      BY <1>2, <1>3, <2>1 DEF SegIds
    <2> QED  BY <1>2, <2>1, <2>2 DEF SegsAfterWrite
  <1>7. ASSUME NEW o \in Obj, PutRotating(o) PROVE segs'[s] = segs[s]
    <2>1. up /\ curSeg < MaxSegId /\ segs' = SegsAfterWrite(SegsRotated, curSeg + 1, {}, 0, o)
      BY <1>7 DEF PutRotating, WriteAndIndex
    <2>2. s # curSeg + 1
      BY <1>2, <1>3, <2>1 DEF SegIds
    <2>3. SegsRotated \in [SegIds -> File] /\ SegsRotated[s] = SegsFlushed[s]
      BY <1>1, <2>1, <2>2, RotateOK
    <2>4. SegsAfterWrite(SegsRotated, curSeg + 1, {}, 0, o)[s] = SegsRotated[s]
      BY <2>2, <2>3 DEF SegsAfterWrite
    <2> QED  BY <1>4, <2>1, <2>3, <2>4
  <1>8. ASSUME NEW o \in Obj, PutOverflow(o) PROVE segs'[s] = segs[s]
    BY <1>4, <1>8 DEF PutOverflow
  <1>9. ASSUME Flush \/ Drop PROVE segs'[s] = segs[s]
    BY <1>4, <1>9 DEF Flush, Drop, FlushDisk
  <1>10. ASSUME NEW o \in Obj, GetMiss(o) PROVE segs'[s] = segs[s]
    BY <1>4, <1>10 DEF GetMiss
  <1>11. ASSUME UNCHANGED segs PROVE segs'[s] = segs[s]
    BY <1>11
  <1>12. ASSUME NEW o \in Obj, PutDedup(o) \/ GetHit(o) PROVE UNCHANGED segs
    BY <1>12 DEF PutDedup, GetHit, vars, disk
  <1>13. ASSUME NEW c \in CapChoices, ConfigureCaches(c[1], c[2]) PROVE UNCHANGED segs
    BY <1>13 DEF ConfigureCaches, disk
  <1>14. ASSUME UNCHANGED vars PROVE UNCHANGED segs
    BY <1>14 DEF vars, disk
  <1> QED
    BY <1>5, <1>6, <1>7, <1>8, <1>9, <1>10, <1>11, <1>12, <1>13, <1>14 DEF CleanNext

-----------------------------------------------------------------------------
(* The theorems *)

\* The invariant holds of an empty store.
LEMMA InitIoInv == Init => IoInv
  <1> SUFFICES ASSUME Init PROVE IoInv
    OBVIOUS
  <1>1. TypeOK /\ Shape
    BY InitShape
  <1>2. EntriesLocated /\ CacheExact /\ AckedIndexed
    BY DEF Init, EntriesLocated, CacheExact, AckedIndexed
  <1> QED  BY <1>1, <1>2, IoInit DEF IoInv, CleanInv

\* A step that leaves no error behind is a step of CleanNext.
LEMMA ErrorFree ==
    ASSUME TypeOK, [IoErrorNext]_vars, ioErrors' = 0
    PROVE  ioErrors = 0 /\ [CleanNext]_vars
  <1>1. ioErrors \in Nat
    BY DEF TypeOK
  <1>2. ~IoError
    BY <1>1 DEF IoError
  <1>3. [CleanNext]_vars
    BY <1>2 DEF IoErrorNext, PutInsertFails, PutRotateFails, FlushSyncFails
  <1>4. UNCHANGED ioErrors
    <2>1. ASSUME NEW o \in Obj, PutDedup(o) \/ PutInPlace(o) \/ PutRotating(o) \/ PutOverflow(o)
                                \/ GetHit(o) \/ GetMiss(o)
          PROVE  UNCHANGED ioErrors
      BY <2>1 DEF PutDedup, PutInPlace, PutRotating, PutOverflow, GetHit, GetMiss, WriteAndIndex, vars
    <2>2. ASSUME NEW c \in CapChoices, ConfigureCaches(c[1], c[2]) PROVE UNCHANGED ioErrors
      BY <2>2 DEF ConfigureCaches
    <2>3. Open \/ Flush \/ Drop \/ UNCHANGED vars => UNCHANGED ioErrors
      BY DEF Open, Flush, Drop, vars
    <2> QED  BY <1>3, <2>1, <2>2, <2>3 DEF CleanNext
  <1> QED  BY <1>3, <1>4

\* Every call keeps the invariant, whether or not its I/O fails.
LEMMA StepIoInv == IoInv /\ [IoErrorNext]_vars => IoInv'
  <1> SUFFICES ASSUME IoInv, [IoErrorNext]_vars PROVE IoInv'
    OBVIOUS
  <1>1. TypeOK' /\ IoShape' /\ Bounded'
    BY StepIo DEF IoInv
  <1>2. ioErrors' = 0 => CleanInv'
    BY ErrorFree, StepClean DEF IoInv
  <1> QED  BY <1>1, <1>2 DEF IoInv

\* The invariant holds in every behaviour with failing I/O calls.
THEOREM IoInvariant == IoErrorSpec => []IoInv
  BY InitIoInv, StepIoInv, PTL DEF IoErrorSpec

\* Every variable keeps its type, also behind the entries that failed inserts
\* leave in index.epi and after a rotation that could not open its file.
THEOREM IoTypeCorrect == IoErrorSpec => []TypeOK
  <1>1. IoInv => TypeOK
    BY DEF IoInv
  <1> QED  BY <1>1, IoInvariant, PTL

\* What put acknowledged is in the index and get returns it, across buffering,
\* spills, rotations, evictions and reopens, as long as no I/O call failed.
THEOREM AckedObjectsReadable == IoErrorSpec => []AckedReadable
  <1>1. IoInv => AckedReadable
    BY CleanReads DEF IoInv, AckedReadable
  <1> QED  BY <1>1, IoInvariant, PTL

\* Every entry leads to its own object, cached or not.
THEOREM EntriesAlwaysResolve == IoErrorSpec => []EntriesResolve
  <1>1. IoInv => EntriesResolve
    BY CleanReads DEF IoInv, EntriesResolve
  <1> QED  BY <1>1, IoInvariant, PTL

\* The segment being appended to is never mapped, and maps and cache stay
\* within the capacities they were last given.
THEOREM MapsStaySealed == IoErrorSpec => []MapsSealedAndBounded
  <1>1. IoInv => MapsSealedAndBounded
    <2> SUFFICES ASSUME IoInv PROVE MapsSealedAndBounded
      OBVIOUS
    <2>1. Bounded /\ \A s \in maps : s < curSeg
      BY DEF IoInv, IoShape
    <2>2. curSeg \in SegIds
      BY DEF IoInv, TypeOK
    <2>3. ioErrors = 0 => fileSeg = curSeg
      BY DEF IoInv, CleanInv, Shape, WriterInStep
    <2>4. ~(curSeg < curSeg)
      BY <2>2 DEF SegIds
    <2> QED  BY <2>1, <2>3, <2>4 DEF MapsSealedAndBounded, Bounded
  <1> QED  BY <1>1, IoInvariant, PTL

\* A segment behind which another exists never changes: what a memory map of it
\* shows stays what it was.
THEOREM SealedNeverChange == IoErrorSpec => SealedImmutable
  <1>1. IoInv /\ [IoErrorNext]_vars =>
            [ioErrors' = 0 => \A s \in SegIds :
                (\E t \in ExistingIds : t > s) => segs'[s] = segs[s]]_vars
    BY ErrorFree, StepSealed DEF IoInv
  <1> QED  BY <1>1, IoInvariant, PTL DEF IoErrorSpec, SealedImmutable

\* An entry that leads to its own object keeps doing so while the store stays
\* open, whichever calls fail.
THEOREM GoodEntriesKept == IoErrorSpec => GoodEntriesStayGood
  <1>1. IoInv /\ IoInv' /\ [IoErrorNext]_vars =>
            [up /\ up' => \A o \in Obj : (Contains(o) /\ ReadAt(index[o]) = {o})
                                            => (ReadAt(index[o]) = {o})']_vars
    <2> SUFFICES ASSUME IoInv, IoInv', [IoErrorNext]_vars, up, up',
                        NEW o \in Obj, Contains(o), ReadAt(index[o]) = {o}
                 PROVE  (ReadAt(index[o]) = {o})'
      OBVIOUS
    <2>1. TypeOK /\ IoShape /\ TypeOK' /\ IoShape' /\ WriterShape /\ WriterShape'
      BY DEF IoInv, IoShape
    <2>2. ViewKept /\ index'[o] = index[o]
      BY <2>1, StepView DEF IoShape
    <2>3. PICK loc \in Loc : loc = index[o]
      BY <2>1 DEF TypeOK
    <2>4. ReadAt(loc)' = ReadAt(loc)
      BY <2>1, <2>2, <2>3, ReadKept
    <2>5. ReadAt(index[o])' = ReadAt(loc)'
      BY <2>2, <2>3 DEF ReadAt, DecodeAt, SegView, SegsWritten
    <2> QED  BY <2>3, <2>4, <2>5
  <1> QED  BY <1>1, IoInvariant, PTL DEF IoErrorSpec, GoodEntriesStayGood

-----------------------------------------------------------------------------
(***************************************************************************)
(* CrashSpec implements DurableStore, with the objects the store answers    *)
(* for as `good': segments, buffer, index file, cache, kills and power      *)
(* losses are invisible to callers but for what DurableStore says of them.  *)
(***************************************************************************)

-----------------------------------------------------------------------------
(* What the invariant says about reads *)

\* A location reads back one object or none.
LEMMA ReadUnique ==
    ASSUME TypeOK, WriterShape, NEW loc \in Loc, NEW x \in ReadAt(loc)
    PROVE  ReadAt(loc) = {x} /\ x \in Obj
  <1> DEFINE f == SegView(loc.seg)
  <1>1. loc.seg \in SegIds /\ ReadAt(loc) = DecodeAt(f, loc)
    BY DEF ReadAt
  <1>2. FileOK(f, {}, 0)
    BY <1>1, ViewOK DEF ViewFacts
  <1> HIDE DEF f
  <1>3. \A r, q \in f.recs : r.off = q.off => r = q
    BY <1>2 DEF FileOK
  <1>4. x \in Obj /\ [off |-> loc.off, obj |-> x] \in f.recs
    BY <1>1 DEF DecodeAt
  <1>5. ASSUME NEW y \in ReadAt(loc) PROVE y = x
    <2> DEFINE r == [off |-> loc.off, obj |-> y]
               q == [off |-> loc.off, obj |-> x]
    <2>1. r \in f.recs /\ q \in f.recs /\ r.off = q.off
      BY <1>1, <1>4, <1>5 DEF DecodeAt
    <2>2. r = q
      BY <1>3, <2>1
    <2> QED  BY <2>2
  <1> QED  BY <1>4, <1>5

\* The objects an open store answers for, the cache left out.
GoodReads == IF up THEN {o \in Obj : Contains(o) /\ ReadAt(index[o]) = {o}} ELSE {}

\* What the steps below use of RefInv, before and after the step.
RefFacts ==
    /\ TypeOK /\ WriterShape /\ Good = GoodReads
    /\ \A s \in SegIds : SegView(s).exists = segs[s].exists
    /\ fileSeg = curSeg
    /\ up => /\ \A o \in Obj : Contains(o) => index[o].len = RecLen[o]
             /\ \A o \in durable \cup wrote : o \in Obj /\ Contains(o) /\ ReadAt(index[o]) = {o}
             /\ \A s \in SegIds : s > curSeg => ~segs[s].exists
    /\ ~up => wrote = {} /\ cache = <<>>

\* The invariant gives what the steps use.
LEMMA RefInvFacts == RefInv => RefFacts
  <1> SUFFICES ASSUME RefInv PROVE RefFacts
    OBVIOUS
  <1>1. TypeOK /\ Shape /\ CrashInv /\ EntryLengths /\ CacheCoherent
    BY DEF RefInv, CrashInv
  <1>2. WriterShape /\ fileSeg = curSeg
    BY <1>1 DEF WriterShape, Shape, FilesWellFormed, WriterInStep
  <1>3. Good = GoodReads
    <2>1. cache \in Seq([key : Obj, val : Obj])
      BY <1>1 DEF TypeOK
    <2>2. ASSUME NEW o \in Obj PROVE GetPayload(o) = ReadAt(index[o])
      <3>1. CASE LruHas(cache, o)
        <4>1. PICK i \in DOMAIN cache : cache[i].key = o /\ LruGet(cache, o) = cache[i].val
          BY <2>1, <3>1, LruGetOK
        <4>2. ReadAt(index[o]) = {LruGet(cache, o)}
          BY <1>1, <4>1 DEF CacheCoherent
        <4> QED  BY <3>1, <4>2 DEF GetPayload
      <3> QED  BY <3>1 DEF GetPayload
    <2> QED  BY <2>2 DEF Good, GoodReads
  <1>4. ASSUME up, NEW o \in Obj, Contains(o) PROVE index[o].len = RecLen[o]
    <2>1. PICK i \in DOMAIN epi : epi[i].hash = o
      BY <1>1, <1>4 DEF Shape, IndexInStep
    <2>2. index[o] = epi[i].loc
      BY <1>1, <1>4, <2>1 DEF Shape, IndexInStep
    <2> QED  BY <1>1, <2>1, <2>2 DEF EntryLengths
  <1>5. \A s \in SegIds : SegView(s).exists = segs[s].exists
    BY <1>1, <1>2, ViewOK DEF ViewFacts
  <1>6. up => \A s \in SegIds : s > curSeg => ~segs[s].exists
    BY <1>1 DEF Shape, WriterInStep
  <1>7. ~up => wrote = {} /\ cache = <<>>
    BY <1>1 DEF Shape, WriterInStep
  <1>8. up => \A o \in durable \cup wrote : o \in Obj /\ Contains(o) /\ ReadAt(index[o]) = {o}
    BY <1>1, MineReadable
  <1> QED  BY <1>1, <1>2, <1>3, <1>4, <1>5, <1>6, <1>7, <1>8 DEF RefFacts

\* Reading at a location that the next state's index holds.
LEMMA ReadPrimed ==
    ASSUME NEW loc, NEW o \in Obj, index'[o] = loc
    PROVE  ReadAt(index[o])' = ReadAt(loc)'
  BY DEF ReadAt, DecodeAt, SegView, SegsWritten

-----------------------------------------------------------------------------
(* Nothing becomes readable that was not, but for the object of a put *)

\* The records that reads see after the step were there before, but for those
\* of the objects X.
ViewBack(X) ==
    \A s \in SegIds : \A r \in SegView(s)'.recs :
        SegView(s)'.exists /\ r.obj \notin X => SegView(s).exists /\ r \in SegView(s).recs

\* An object that reads well after such a step read well before, unless it is
\* one of X.
LEMMA ReadBack ==
    ASSUME TypeOK, WriterShape, NEW X, ViewBack(X), NEW x \in Obj, x \notin X,
           NEW loc \in Loc, loc.len = RecLen[x], ReadAt(loc)' = {x}
    PROVE  ReadAt(loc) = {x}
  <1> DEFINE f == SegView(loc.seg)
             g == SegView(loc.seg)'
             r == [off |-> loc.off, obj |-> x]
  <1>1. loc.seg \in SegIds /\ g.exists /\ x \in DecodeAt(g, loc)
    <2>1. ReadAt(loc)' = IF loc.seg \in SegIds /\ g.exists /\ loc.off + loc.len =< g.len
                         THEN DecodeAt(g, loc) ELSE {}
      BY DEF ReadAt, DecodeAt
    <2> HIDE DEF g
    <2> QED  BY <2>1
  <1>2. r \in g.recs
    BY <1>1 DEF DecodeAt
  <1>3. f.exists /\ r \in f.recs
    BY <1>1, <1>2 DEF ViewBack
  <1>4. f \in File /\ FileOK(f, {}, 0)
    BY <1>1, ViewOK DEF ViewFacts
  <1> HIDE DEF f, g
  <1>5. loc.off + loc.len =< f.len
    <2>1. r.off + RecLen[r.obj] =< f.len
      BY <1>3, <1>4 DEF FileOK
    <2> QED  BY <2>1
  <1>6. loc.len =< loc.len
    BY DEF Loc
  <1>7. x \in ReadAt(loc)
    BY <1>1, <1>3, <1>5, <1>6 DEF ReadAt, DecodeAt, f
  <1> QED  BY <1>7, ReadUnique

\* put writes a record of its object and no other.
LEMMA PutBack ==
    ASSUME RefFacts, RefFacts', up, NEW o \in Obj, PutInPlace(o) \/ PutRotating(o)
    PROVE  ViewBack({o})
  <1>1. ViewFacts /\ ViewFacts' /\ TypeOK /\ WriterShape
    BY ViewOK, PTL DEF RefFacts
  <1>2. fileSeg = curSeg /\ fileSeg' = curSeg' /\ segs \in [SegIds -> File] /\ curSeg \in SegIds
        /\ buf \in SUBSET Rec /\ bufLen \in Nat /\ FileOK(segs[curSeg], buf, bufLen)
    BY <1>1 DEF RefFacts, TypeOK, WriterShape
  <1> SUFFICES ASSUME NEW s \in SegIds, NEW r \in SegView(s)'.recs, SegView(s)'.exists, r.obj # o
               PROVE  SegView(s).exists /\ r \in SegView(s).recs
    BY DEF ViewBack
  <1>3. CASE PutInPlace(o)
    <2>1. /\ segs' = SegsAfterWrite(segs, curSeg, buf, bufLen, o)
          /\ buf' = BufAfterWrite(segs, curSeg, buf, bufLen, o)
          /\ bufLen' = BufLenAfterWrite(bufLen, o) /\ curSeg' = curSeg
      BY <1>2, <1>3 DEF PutInPlace, WriteAndIndex
    <2>2. WriteFacts(segs, curSeg, buf, bufLen, o, segs', buf', bufLen')
      BY <1>2, <2>1, WriteOK
    <2>3. CASE s = curSeg
      <3>1. r \in segs'[s].recs \cup buf' /\ SegView(s)'.exists = segs'[s].exists
            /\ SegView(s).exists = segs[s].exists /\ SegView(s).recs = segs[s].recs \cup buf
        BY <1>1, <1>2, <2>1, <2>3 DEF ViewFacts
      <3>2. r # WrittenRec(segs, curSeg, bufLen, o)
        BY DEF WrittenRec
      <3> QED  BY <2>2, <2>3, <3>1, <3>2 DEF WriteFacts
    <2>4. CASE s # curSeg
      <3>1. SegView(s)' = segs'[s] /\ SegView(s) = segs[s]
        BY <1>1, <2>1, <2>4 DEF ViewFacts
      <3> QED  BY <2>2, <2>4, <3>1 DEF WriteFacts
    <2> QED  BY <2>3, <2>4
  <1>4. CASE PutRotating(o)
    <2> DEFINE id == curSeg + 1
               S == SegsRotated
    <2>1. /\ segs' = SegsAfterWrite(S, id, {}, 0, o) /\ buf' = BufAfterWrite(S, id, {}, 0, o)
          /\ bufLen' = BufLenAfterWrite(0, o) /\ curSeg' = id /\ curSeg < MaxSegId
      BY <1>4 DEF PutRotating, WriteAndIndex
    <2>2. id \in SegIds
      BY <1>2, <2>1 DEF SegIds
    <2>3. NewSegment \in File /\ FileOK(NewSegment, {}, 0) /\ NewSegment.recs = {}
      BY DEF NewSegment, File, FileOK
    <2>4. S = [SegsFlushed EXCEPT ![id] = NewSegment] /\ SegsFlushed \in [SegIds -> File]
          /\ \A t \in SegIds : SegsFlushed[t].recs = SegsWritten[t].recs
                               /\ SegsFlushed[t].exists = segs[t].exists
                               /\ (t # curSeg => SegsWritten[t] = segs[t])
      BY <1>1, <1>2, WriterFlushOK DEF SegsRotated
    <2> HIDE DEF id, S
    <2>5. S \in [SegIds -> File] /\ S[id] = NewSegment /\ {} \in SUBSET Rec /\ 0 \in Nat
      BY <2>2, <2>3, <2>4
    <2>6. WriteFacts(S, id, {}, 0, o, segs', buf', bufLen')
      BY <2>1, <2>2, <2>3, <2>5, WriteOK
    <2>7. CASE s = id
      <3>1. r \in segs'[s].recs \cup buf'
        BY <1>1, <1>2, <2>1, <2>7 DEF ViewFacts
      <3>2. r # WrittenRec(S, id, 0, o)
        BY DEF WrittenRec
      <3> QED  BY <2>3, <2>5, <2>6, <2>7, <3>1, <3>2 DEF WriteFacts
    <2>8. CASE s # id
      <3>1. SegView(s)' = segs'[s]
        BY <1>1, <2>1, <2>8 DEF ViewFacts
      <3>2. segs'[s] = SegsFlushed[s]
        BY <2>4, <2>6, <2>8 DEF WriteFacts
      <3>3. SegView(s) = SegsWritten[s]
        BY <1>2, <2>4 DEF SegView
      <3>4. SegView(s).exists = segs[s].exists
        BY DEF RefFacts
      <3> QED  BY <2>4, <3>1, <3>2, <3>3, <3>4
    <2> QED  BY <2>7, <2>8
  <1> QED  BY <1>3, <1>4

\* Emptying the buffer and leaving the files alone write none.
LEMMA QuietBack ==
    ASSUME RefFacts, RefFacts', curSeg' = curSeg,
           \/ segs' \in {SegsWritten, SegsFlushed} /\ buf' = {}
           \/ UNCHANGED <<segs, buf, bufLen>>
    PROVE  ViewBack({})
  <1>0. TypeOK /\ WriterShape /\ TypeOK' /\ WriterShape' /\ fileSeg = curSeg /\ fileSeg' = curSeg'
    BY DEF RefFacts
  <1>1. ViewFacts /\ ViewFacts'
    BY <1>0, ViewOK, PTL
  <1> SUFFICES ASSUME NEW s \in SegIds, NEW r \in SegView(s)'.recs, SegView(s)'.exists
               PROVE  SegView(s).exists /\ r \in SegView(s).recs
    BY DEF ViewBack
  <1>2. CASE UNCHANGED <<segs, buf, bufLen>>
    <2>1. UNCHANGED <<segs, buf, bufLen, curSeg, fileSeg>>
      BY <1>0, <1>2
    <2>2. SegView(s)' = SegView(s)
      BY <2>1 DEF SegView, SegsWritten
    <2> QED  BY <2>2
  <1>3. CASE segs' \in {SegsWritten, SegsFlushed} /\ buf' = {}
    <2>1. /\ SegsFlushed[s].recs = SegsWritten[s].recs
          /\ SegsFlushed[s].exists = segs[s].exists
          /\ SegsWritten[s].exists = segs[s].exists
          /\ (s # curSeg => SegsWritten[s] = segs[s])
      BY <1>0, WriterFlushOK
    <2>2. SegView(s) = SegsWritten[s]
      BY <2>1 DEF SegView
    <2>3. r \in segs'[s].recs /\ SegView(s)'.exists = segs'[s].exists
      BY <1>0, <1>1, <1>3, ZenonT(30) DEF ViewFacts
    <2> QED  BY <1>3, <2>1, <2>2, <2>3
  <1> QED  BY <1>2, <1>3

-----------------------------------------------------------------------------
(* The invariant *)

\* put adds an entry of the length of its record; nothing else adds one.
LEMMA StepLengths ==
    ASSUME RefInv, [CrashNext]_vars
    PROVE  EntryLengths'
  <1>1. TypeOK /\ Shape /\ EntryLengths
    BY DEF RefInv, CrashInv
  <1>2. ASSUME epi' = epi PROVE EntryLengths'
    BY <1>1, <1>2 DEF EntryLengths
  <1>3. ASSUME NEW o \in Obj, NEW S, NEW t, NEW b, NEW n, NEW id, NEW off,
               WriteAndIndex(o, S, t, b, n, id, off)
        PROVE  EntryLengths'
    <2> DEFINE loc == [seg |-> id, off |-> off, len |-> RecLen[o]]
               ent == [hash |-> o, loc |-> loc]
    <2>1. epi' = Append(epi, ent) /\ epi \in Seq(Entry)
      BY <1>1, <1>3 DEF WriteAndIndex, InsertEntry, Shape, EpiWellFormed, TypeOK
    <2>2. ent.hash = o /\ ent.loc.len = RecLen[o]
      OBVIOUS
    <2> HIDE DEF ent
    <2>3. /\ DOMAIN epi = 1..Len(epi) /\ Len(epi) \in Nat /\ DOMAIN epi' = 1..(Len(epi) + 1)
          /\ \A i \in DOMAIN epi : epi'[i] = epi[i]
          /\ epi'[Len(epi) + 1] = ent
      BY <2>1
    <2>4. \A i \in DOMAIN epi' : i \in DOMAIN epi \/ i = Len(epi) + 1
      BY <2>3
    <2> QED  BY <1>1, <2>2, <2>3, <2>4 DEF EntryLengths
  <1>4. CASE PowerLoss
    <2>1. PICK k \in 0..Len(epi) : epi' = SubSeq(epi, 1, k)
      BY <1>4 DEF PowerLoss
    <2>2. DOMAIN epi' = 1..k /\ \A i \in 1..k : i \in DOMAIN epi /\ epi'[i] = epi[i]
      BY <1>1, <2>1, PrefixOK DEF TypeOK
    <2> QED  BY <1>1, <2>2 DEF EntryLengths
  <1>5. ASSUME NEW o \in Obj, PutInPlace(o) \/ PutRotating(o) PROVE EntryLengths'
    BY <1>3, <1>5 DEF PutInPlace, PutRotating
  <1>6. ASSUME NEW o \in Obj, PutDedup(o) \/ PutOverflow(o) \/ GetHit(o) \/ GetMiss(o)
                              \/ KillBeforeInsert(o) \/ KillAfterRotate(o)
        PROVE  epi' = epi
    BY <1>6 DEF PutDedup, PutOverflow, GetHit, GetMiss, KillBeforeInsert, KillAfterRotate, vars, disk
  <1>7. ASSUME NEW c \in CapChoices, ConfigureCaches(c[1], c[2]) PROVE epi' = epi
    BY <1>7 DEF ConfigureCaches, disk
  <1>8. Open \/ Flush \/ Drop \/ Kill \/ UNCHANGED vars => epi' = epi
    BY DEF Open, Flush, Drop, Kill, FlushDisk, vars, disk
  <1> QED
    BY <1>2, <1>4, <1>5, <1>6, <1>7, <1>8 DEF CrashNext, CleanNext

\* A step that leaves the store open is a step of CleanNext.
LEMMA OpenSteps ==
    ASSUME [CrashNext]_vars, up' = TRUE
    PROVE  [CleanNext]_vars
  <1>1. ~Forget
    BY DEF Forget
  <1>2. ~CrashStep
    BY <1>1 DEF CrashStep
  <1> QED  BY <1>2 DEF CrashNext, Kill, KillBeforeInsert, KillAfterRotate, PowerLoss

\* The store stays open: reads return what they did.
LEMMA OpenKeeps ==
    ASSUME RefFacts, RefFacts', up, up', [CrashNext]_vars, NEW x \in Obj, Contains(x),
           ReadAt(index[x]) # {}
    PROVE  Contains(x)' /\ ReadAt(index[x])' = ReadAt(index[x])
  <1>1. TypeOK /\ WriterShape /\ TypeOK' /\ WriterShape'
        /\ \A s \in SegIds : s > curSeg => ~segs[s].exists
    BY DEF RefFacts
  <1>2. [IoErrorNext]_vars
    BY OpenSteps, <1>1 DEF IoErrorNext, TypeOK
  <1>3. ViewKept /\ index'[x] = index[x]
    BY <1>1, <1>2, StepView
  <1>4. PICK loc \in Loc : loc = index[x]
    BY <1>1 DEF TypeOK
  <1>5. ReadAt(loc)' = ReadAt(loc)
    BY <1>1, <1>3, <1>4, ReadKept
  <1>6. ReadAt(index[x])' = ReadAt(loc)'
    BY <1>3, <1>4, ReadPrimed
  <1> QED  BY <1>3, <1>4, <1>5, <1>6 DEF Contains

\* The state after a step reads back what was written or flushed.
MineFacts ==
    CrashInv /\ up => \A o \in durable \cup wrote :
        o \in Obj /\ Contains(o) /\ \E loc \in Loc : loc = index[o] /\ ReadAt(loc) = {o}

\* The crash invariant gives what was written or flushed back to a read.
LEMMA MineOK == MineFacts
  <1> SUFFICES ASSUME CrashInv, up, NEW o \in durable \cup wrote
               PROVE  o \in Obj /\ Contains(o) /\ \E loc \in Loc : loc = index[o] /\ ReadAt(loc) = {o}
    BY DEF MineFacts
  <1>1. o \in Obj /\ Contains(o) /\ ReadAt(index[o]) = {o}
    BY MineReadable
  <1>2. index[o] \in Loc
    BY <1>1 DEF CrashInv, TypeOK
  <1> QED  BY <1>1, <1>2

\* A cached payload stays the one a read would return.
LEMMA StepCoherent ==
    ASSUME RefInv, [CrashNext]_vars, CrashInv', WriterShape'
    PROVE  CacheCoherent'
  <1>1. TypeOK /\ CacheCoherent /\ CrashInv /\ TypeOK' /\ Shape'
    BY DEF RefInv, CrashInv
  <1>2. RefFacts
    BY RefInvFacts
  <1>3. TypeOK /\ WriterShape /\ \A s \in SegIds : up /\ s > curSeg => ~segs[s].exists
    BY <1>2 DEF RefFacts
  <1>4. ASSUME cache' = <<>> PROVE CacheCoherent'
    BY <1>4 DEF CacheCoherent
  <1>5. CASE ~up'
    <2>1. cache' = <<>>
      BY <1>1, <1>5 DEF Shape, WriterInStep
    <2> QED  BY <1>4, <2>1
  <1>6. CASE up' /\ ~up
    <2>1. [CleanNext]_vars
      BY <1>1, <1>6, OpenSteps DEF TypeOK
    <2>2. UNCHANGED vars => up' = up
      BY DEF vars
    <2>3. Open
      BY <1>6, <2>1, <2>2 DEF CleanNext, PutDedup, PutInPlace, PutRotating, PutOverflow, GetHit,
                              GetMiss, Flush, Drop, ConfigureCaches
    <2>4. cache' = <<>>
      BY <2>3 DEF Open
    <2> QED  BY <1>4, <2>4
  <1>7. CASE up' /\ up
    <2>1. [CleanNext]_vars
      BY <1>1, <1>7, OpenSteps DEF TypeOK
    <2>2. ViewKept /\ \A x \in Obj : Contains(x) => index'[x] = index[x]
      BY <1>1, <1>3, <1>7, <2>1, StepView DEF IoErrorNext
    <2> DEFINE P(k, v) == /\ index'[k].seg # NoSeg
                          /\ \E loc \in Loc : loc = index'[k] /\ ReadAt(loc)' = {v}
    <2>3. ASSUME NEW k \in Obj, NEW v \in Obj, Contains(k), ReadAt(index[k]) = {v}
          PROVE  P(k, v)
      <3>1. index'[k] = index[k] /\ index'[k].seg # NoSeg
        BY <2>2, <2>3 DEF Contains
      <3>2. PICK loc \in Loc : loc = index[k]
        BY <1>1 DEF TypeOK
      <3>3. ReadAt(loc)' = {v}
        BY <1>1, <1>3, <2>2, <2>3, <3>2, ReadKept
      <3> QED  BY <3>1, <3>2, <3>3
    <2>4. \A j \in DOMAIN cache : cache[j].key \in Obj /\ cache[j].val \in Obj
      <3>1. cache \in Seq([key : Obj, val : Obj])
        BY <1>1 DEF TypeOK
      <3> DEFINE KV == [key : Obj, val : Obj]
      <3>2. \A j \in DOMAIN cache : cache[j] \in KV
        <4> HIDE DEF KV
        <4>1. cache \in Seq(KV)
          BY <3>1 DEF KV
        <4> QED  BY <4>1
      <3> QED  BY <3>2
    <2>5. \A j \in DOMAIN cache : P(cache[j].key, cache[j].val)
      <3> HIDE DEF P
      <3> QED  BY <1>1, <2>3, <2>4 DEF CacheCoherent
    <2>6. ASSUME \A i \in DOMAIN cache' : P(cache'[i].key, cache'[i].val)
          PROVE  CacheCoherent'
      <3> SUFFICES ASSUME NEW i \in DOMAIN cache'
                   PROVE  /\ index'[cache'[i].key].seg # NoSeg
                          /\ ReadAt(index[cache[i].key])' = {cache'[i].val}
        BY DEF CacheCoherent, Contains
      <3>1. PICK loc \in Loc : loc = index'[cache'[i].key] /\ ReadAt(loc)' = {cache'[i].val}
        BY <2>6
      <3>2. ReadAt(index[cache[i].key])' = ReadAt(loc)'
        BY <3>1 DEF ReadAt, DecodeAt, SegView, SegsWritten
      <3> QED  BY <2>6, <3>1, <3>2
    <2> HIDE DEF P
    <2>7. ASSUME cache' = cache PROVE CacheCoherent'
      BY <2>5, <2>6, <2>7
    <2>8. ASSUME NEW k \in Obj, NEW v \in Obj, cache' = LruInsert(cache, cacheCap, k, v), P(k, v)
          PROVE  CacheCoherent'
      <3>1. LruFacts(cache, cacheCap, k, v, cache')
        BY <1>1, <2>8, LruInsertOK DEF TypeOK
      <3>2. \A i \in DOMAIN cache' : \/ cache'[i] = [key |-> k, val |-> v]
                                     \/ \E j \in DOMAIN cache : cache'[i] = cache[j]
        BY <3>1 DEF LruFacts
      <3> QED  BY <2>5, <2>6, <2>8, <3>2
    <2>9. ASSUME NEW o \in Obj, PutInPlace(o) \/ PutRotating(o) PROVE CacheCoherent'
      <3>1. cache' = LruInsert(cache, cacheCap, o, o) /\ o \in wrote'
        BY <2>9 DEF PutInPlace, PutRotating, WriteAndIndex
      <3>2. MineFacts'
        BY MineOK, PTL
      <3>3. P(o, o)
        BY <1>7, <3>1, <3>2 DEF MineFacts, P, Contains
      <3> QED  BY <2>8, <3>1, <3>3
    <2>10. ASSUME NEW o \in Obj, GetMiss(o) PROVE CacheCoherent'
      <3>1. \/ cache' = cache
            \/ \E x \in ReadAt(index[o]) : cache' = LruInsert(cache, cacheCap, o, x)
        BY <2>10 DEF GetMiss
      <3>2. ASSUME NEW x \in ReadAt(index[o]), cache' = LruInsert(cache, cacheCap, o, x)
            PROVE  CacheCoherent'
        <4>1. index[o] \in Loc /\ Contains(o)
          BY <1>1, <2>10, NoLocOK DEF TypeOK, GetMiss, Contains
        <4>2. ReadAt(index[o]) = {x} /\ x \in Obj
          BY <1>3, <4>1, ReadUnique
        <4>3. P(o, x)
          BY <2>3, <4>1, <4>2
        <4> QED  BY <2>8, <3>2, <4>2, <4>3
      <3> QED  BY <2>7, <3>1, <3>2
    <2>11. ASSUME NEW o \in Obj, PutDedup(o) \/ PutOverflow(o) \/ GetHit(o) PROVE CacheCoherent'
      BY <2>7, <2>11 DEF PutDedup, PutOverflow, GetHit, vars, views
    <2>12. ASSUME NEW c \in CapChoices, ConfigureCaches(c[1], c[2]) PROVE CacheCoherent'
      BY <1>4, <2>12 DEF ConfigureCaches
    <2>13. CASE Open
      BY <1>4, <2>13 DEF Open
    <2>14. CASE Flush
      BY <2>7, <2>14 DEF Flush
    <2>15. CASE Drop
      BY <1>4, <2>15 DEF Drop, Forget
    <2>16. CASE UNCHANGED vars
      BY <2>7, <2>16 DEF vars, views
    <2> QED
      BY <2>1, <2>9, <2>10, <2>11, <2>12, <2>13, <2>14, <2>15, <2>16 DEF CleanNext
  <1> QED  BY <1>5, <1>6, <1>7

\* The invariant of the refinement holds of an empty store.
LEMMA InitRef == Init => RefInv
  BY InitCrash DEF Init, RefInv, EntryLengths, CacheCoherent

\* Every call, kill and power loss keeps it.
LEMMA StepRef == RefInv /\ [CrashNext]_vars => RefInv'
  <1> SUFFICES ASSUME RefInv, [CrashNext]_vars PROVE RefInv'
    OBVIOUS
  <1>1. CrashInv'
    BY StepCrash DEF RefInv
  <1>2. WriterShape'
    BY <1>1 DEF CrashInv, WriterShape, Shape, FilesWellFormed, WriterInStep
  <1> QED  BY <1>1, <1>2, StepLengths, StepCoherent DEF RefInv

\* The invariant of the refinement holds in every behaviour with crashes.
THEOREM RefInvariant == CrashSpec => []RefInv
  BY InitRef, StepRef, PTL DEF CrashSpec

-----------------------------------------------------------------------------
(* The refinement *)

\* The objects the store answers for, in two states of an open store.
LEMMA GoodStep ==
    ASSUME RefFacts, RefFacts', up, up', [CrashNext]_vars, NEW X \in SUBSET Obj, ViewBack(X),
           \A x \in Obj \ X : index'[x] = index[x],
           X \subseteq wrote'
    PROVE  Good' = Good \cup X
  <1>1. /\ Good = {o \in Obj : Contains(o) /\ ReadAt(index[o]) = {o}}
        /\ TypeOK /\ WriterShape
        /\ \A o \in Obj : Contains(o) => index[o].len = RecLen[o]
    BY DEF RefFacts, GoodReads
  <1>2. /\ Good' = {o \in Obj : Contains(o)' /\ ReadAt(index[o])' = {o}}
        /\ \A o \in wrote' : o \in Obj /\ Contains(o)' /\ ReadAt(index[o])' = {o}
    BY DEF RefFacts, GoodReads
  <1>3. ASSUME NEW x \in Good PROVE x \in Good'
    <2>1. x \in Obj /\ Contains(x) /\ ReadAt(index[x]) = {x}
      BY <1>1
    <2>2. Contains(x)' /\ ReadAt(index[x])' = ReadAt(index[x])
      BY <2>1, OpenKeeps
    <2> QED  BY <1>2, <2>1, <2>2
  <1>4. X \subseteq Good'
    BY <1>2
  <1>5. ASSUME NEW x \in Good', x \notin X PROVE x \in Good
    <2>1. x \in Obj /\ Contains(x)' /\ ReadAt(index[x])' = {x} /\ index'[x] = index[x]
      BY <1>2, <1>5
    <2>2. PICK loc \in Loc : loc = index[x]
      BY <1>1, <2>1 DEF TypeOK
    <2>3. Contains(x) /\ loc.len = RecLen[x]
      BY <1>1, <2>1, <2>2 DEF Contains
    <2>4. ReadAt(loc)' = {x}
      BY <2>1, <2>2, ReadPrimed
    <2>5. ReadAt(loc) = {x}
      BY <1>1, <1>5, <2>1, <2>3, <2>4, ReadBack
    <2> QED  BY <1>1, <2>1, <2>2, <2>3, <2>5
  <1> QED  BY <1>3, <1>4, <1>5

\* Every step of the store is a step of DurableStore, or changes nothing that
\* callers can tell.
LEMMA StepRefines ==
    ASSUME RefInv, RefInv', [CrashNext]_vars
    PROVE  [Promises!Next]_(Promises!vars)
  <1>1. RefFacts /\ RefFacts'
    BY RefInvFacts, PTL
  <1>2. up \in BOOLEAN /\ up' \in BOOLEAN /\ fileSeg = curSeg
    BY <1>1 DEF RefFacts, TypeOK
  <1>3. /\ up => \A o \in durable \cup wrote : o \in Good
        /\ up' => \A o \in (durable \cup wrote)' : o \in Good'
        /\ Good' \subseteq Obj
        /\ ~up => Good = {} /\ wrote = {}
        /\ ~up' => Good' = {} /\ wrote' = {}
    BY <1>1 DEF RefFacts, GoodReads
  <1>4. ASSUME UNCHANGED <<up, Good, wrote, durable>> PROVE [Promises!Next]_(Promises!vars)
    BY <1>4 DEF Promises!vars
  \* the store stays open and writes no record
  <1>5. ASSUME up, up', index' = index, curSeg' = curSeg,
               \/ segs' \in {SegsWritten, SegsFlushed} /\ buf' = {}
               \/ UNCHANGED <<segs, buf, bufLen>>
        PROVE  Good' = Good
    <2>1. ViewBack({})
      BY <1>1, <1>5, QuietBack
    <2>2. {} \in SUBSET Obj /\ {} \subseteq wrote' /\ \A x \in Obj \ {} : index'[x] = index[x]
      BY <1>5
    <2>3. Good' = Good \cup {}
      BY <1>1, <1>5, <2>1, <2>2, GoodStep
    <2> QED  BY <2>3
  <1>6. CASE Open
    <2>1. ~up /\ up' /\ UNCHANGED <<wrote, durable>>
      BY <1>6 DEF Open, told
    <2>2. Promises!Open
      BY <1>3, <2>1 DEF Promises!Open
    <2> QED  BY <2>2 DEF Promises!Next
  <1>7. ASSUME NEW o \in Obj, PutInPlace(o) \/ PutRotating(o)
        PROVE  [Promises!Next]_(Promises!vars)
    <2>1. /\ up /\ up' = up /\ durable' = durable /\ wrote' = wrote \cup {o}
          /\ \E loc : index' = [index EXCEPT ![o] = loc]
      BY <1>7 DEF PutInPlace, PutRotating, WriteAndIndex
    <2>2. \A x \in Obj \ {o} : index'[x] = index[x]
      BY <1>1, <2>1 DEF RefFacts, TypeOK
    <2>3. ViewBack({o})
      BY <1>1, <1>7, <2>1, PutBack
    <2>4. Good' = Good \cup {o}
      BY <1>1, <2>1, <2>2, <2>3, GoodStep
    <2>5. Promises!Store(o)
      BY <2>1, <2>4 DEF Promises!Store
    <2> QED  BY <2>5 DEF Promises!Next
  <1>8. CASE Flush
    <2>1. /\ up /\ up' = up /\ segs' = SegsFlushed /\ buf' = {} /\ UNCHANGED <<index, curSeg>>
          /\ durable' = durable \cup wrote /\ wrote' = {}
      BY <1>8 DEF Flush, FlushDisk, Promise
    <2>2. Good' = Good
      BY <1>5, <2>1
    <2>3. Promises!Flush
      BY <2>1, <2>2 DEF Promises!Flush
    <2> QED  BY <2>3 DEF Promises!Next
  <1>9. CASE Drop
    <2>1. up /\ ~up' /\ durable' = durable \cup wrote /\ wrote' = {}
      BY <1>9 DEF Drop, Promise, Forget
    <2>2. Promises!Close
      BY <1>3, <2>1 DEF Promises!Close
    <2> QED  BY <2>2 DEF Promises!Next
  <1>10. ASSUME CrashStep PROVE [Promises!Next]_(Promises!vars)
    <2>1. ~up' /\ durable' = durable /\ wrote' = {}
      BY <1>10 DEF CrashStep, Forget
    <2>2. CASE up
      <3>1. Promises!Crash
        BY <1>3, <2>1, <2>2 DEF Promises!Crash
      <3> QED  BY <3>1 DEF Promises!Next
    <2>3. CASE ~up
      <3>1. up' = up /\ Good' = Good /\ wrote' = wrote
        BY <1>2, <1>3, <2>1, <2>3
      <3> QED  BY <1>4, <2>1, <3>1
    <2> QED  BY <2>2, <2>3
  <1>11. ASSUME NEW o \in Obj, PutOverflow(o) PROVE [Promises!Next]_(Promises!vars)
    <2>1. /\ up /\ up' = up /\ segs' = SegsFlushed /\ buf' = {} /\ UNCHANGED <<index, curSeg>>
          /\ UNCHANGED <<wrote, durable>>
      BY <1>11 DEF PutOverflow, told
    <2> QED  BY <1>4, <1>5, <2>1
  <1>12. ASSUME NEW o \in Obj, GetMiss(o) PROVE [Promises!Next]_(Promises!vars)
    <2>1. /\ up /\ up' = up /\ UNCHANGED <<index, curSeg, wrote, durable>>
          /\ (segs' = SegsWritten /\ buf' = {}) \/ UNCHANGED <<segs, buf, bufLen>>
      BY <1>12 DEF GetMiss, told
    <2> QED  BY <1>4, <1>5, <2>1
  <1>13. ASSUME UNCHANGED <<segs, buf, bufLen, index, curSeg, up, wrote, durable>>
         PROVE  [Promises!Next]_(Promises!vars)
    <2>1. CASE up
      BY <1>4, <1>5, <1>13, <2>1
    <2>2. CASE ~up
      BY <1>3, <1>4, <1>13, <2>2
    <2> QED  BY <2>1, <2>2
  <1>14. ASSUME NEW o \in Obj, PutDedup(o) PROVE [Promises!Next]_(Promises!vars)
    BY <1>13, <1>14 DEF PutDedup, disk, file
  <1>15. ASSUME NEW c \in CapChoices, ConfigureCaches(c[1], c[2])
         PROVE  [Promises!Next]_(Promises!vars)
    BY <1>13, <1>15 DEF ConfigureCaches, disk, file, told
  <1>16. ASSUME UNCHANGED vars PROVE [Promises!Next]_(Promises!vars)
    BY <1>13, <1>16 DEF vars, disk, file, told
  <1>17. ASSUME NEW o \in Obj, GetHit(o) PROVE [Promises!Next]_(Promises!vars)
    BY <1>16, <1>17 DEF GetHit
  <1>18. Kill \/ PowerLoss \/ (\E o \in Obj : KillBeforeInsert(o) \/ KillAfterRotate(o)) => CrashStep
    BY DEF Kill, PowerLoss, KillBeforeInsert, KillAfterRotate
  <1> QED
    BY <1>6, <1>7, <1>8, <1>9, <1>10, <1>11, <1>12, <1>14, <1>15, <1>16, <1>17, <1>18
    DEF CrashNext, CleanNext

\* An empty store is an empty abstract store.
LEMMA InitRefines == Init => Promises!Init
  BY DEF Init, Promises!Init, Good

\* The store with its files, buffer, index and cache implements the simple
\* store of DurableStore, whatever is killed and whenever power is lost.
THEOREM StoreImplementsDurableStore == CrashSpec => ImplementsDurableStore
  <1>1. RefInv /\ RefInv' /\ [CrashNext]_vars => [Promises!Next]_(Promises!vars)
    BY StepRefines
  <1> QED
    BY <1>1, InitRefines, RefInvariant, PTL DEF CrashSpec, ImplementsDurableStore, Promises!Spec
=============================================================================
