------------------------------ MODULE CasStore ------------------------------
(***************************************************************************)
(* The content-addressed store of epochs-core/src/cas: segment files        *)
(* (data/NNNNNN.epl) written through a BufWriter, the append-only index     *)
(* file (index.epi) written without a buffer, the index in memory, the      *)
(* payload cache and the memory maps of sealed segments.                    *)
(*                                                                          *)
(* An object stands for a payload, its hash and its record: hashes do not   *)
(* collide, so "hash h" and "the payload whose hash is h" are one value.    *)
(* A file is kept as its length and the set of complete records with the    *)
(* byte offset where each one starts; what lies between them (the header, a *)
(* record cut short by a crash) decodes to nothing.                         *)
(***************************************************************************)
EXTENDS Integers, Sequences, FiniteSets, LruMap

CONSTANTS
    Obj,         \* the objects the program may store
    RecLen,      \* RecLen[o]: length of the encoded record of o (45 + payload)
    HeaderLen,   \* SEGMENT_HEADER_LEN
    SegMax,      \* SEGMENT_MAX_BYTES
    BufCap,      \* SEGMENT_BUF_BYTES
    MaxSegId,    \* the largest segment id (u16::MAX)
    CacheCap,    \* WRITE_CACHE_CAP
    MmapCap,     \* MMAP_SEGMENTS_CAP
    CapChoices,  \* the <<cache, mmap>> capacities configure_caches is called with
    MaxCrashes,  \* bound on process kills and power losses in one behaviour
    MaxIoErrors  \* bound on failing I/O calls in one behaviour

ASSUME CasAssumption ==
    /\ RecLen \in [Obj -> Nat \ {0}]
    /\ HeaderLen \in Nat \ {0}
    /\ SegMax \in Nat
    /\ BufCap \in Nat \ {0}
    /\ MaxSegId \in Nat
    /\ CacheCap \in Nat
    /\ MmapCap \in Nat
    /\ CapChoices \subseteq Nat \X Nat
    /\ MaxCrashes \in Nat
    /\ MaxIoErrors \in Nat

VARIABLES
    \* on disk
    segs,        \* segment files
    epi,         \* index.epi as Index::open reads it: a sequence of whole entries
    epiTail,     \* the incomplete entry after them, if any
    epiSynced,   \* how much of index.epi is fsync'd, in half entries
    \* in the memory of the process
    up,          \* a CasStore is open
    index,       \* Index.entries
    curSeg,      \* current_segment_id
    fileSeg,     \* the segment current_file writes to
    curOff,      \* current_offset
    buf, bufLen, \* the records in the BufWriter of current_file, and their bytes
    dirty,
    cache, cacheCap,  \* write_cache
    maps, mmapCap,    \* segment_maps
    \* what callers were told
    pending,     \* objects for which put returned Ok since the last flush
    wrote,       \* those of pending whose put appended a record
    promised,    \* objects that were pending when a flush returned Ok
    durable,     \* objects that were in wrote when a flush returned Ok
    crashes, ioErrors

disk  == <<segs, epi, epiTail, epiSynced>>
file  == <<curSeg, fileSeg, curOff, buf, bufLen, dirty>>
views == <<cache, cacheCap, maps, mmapCap>>
told  == <<pending, wrote, promised, durable>>
vars  == <<disk, up, index, file, views, told, crashes, ioErrors>>

SegIds == 0..MaxSegId
Rec    == [off : Nat, obj : Obj]
File   == [exists : BOOLEAN, len : Nat, synced : Nat, recs : SUBSET Rec]

\* IndexEntry.  A location of segment NoSeg stands for "no entry"; one of
\* segment BadSeg for bytes that name no segment of this repository.
NoSeg  == -1
BadSeg == -2
Loc    == [seg : SegIds \cup {NoSeg, BadSeg}, off : Nat, len : Nat]
NoLoc  == [seg |-> NoSeg, off |-> 0, len |-> 0]
BadLoc == [seg |-> BadSeg, off |-> 0, len |-> 0]

\* What an incomplete entry at the end of index.epi begins with: the hash of
\* an object, or bytes that are no object's hash.
NoTail == "none"
Junk   == "junk"
Entry  == [hash : Obj \cup {Junk}, loc : Loc]

TypeOK ==
    /\ segs \in [SegIds -> File]
    /\ epi \in Seq(Entry)
    /\ epiTail \in Obj \cup {NoTail, Junk}
    /\ epiSynced \in Nat
    /\ up \in BOOLEAN
    /\ index \in [Obj -> Loc]
    /\ curSeg \in SegIds
    /\ fileSeg \in SegIds
    /\ curOff \in Nat
    /\ buf \in SUBSET Rec
    /\ bufLen \in Nat
    /\ dirty \in BOOLEAN
    /\ cache \in Seq([key : Obj, val : Obj])
    /\ cacheCap \in Nat \ {0}
    /\ maps \in SUBSET SegIds
    /\ mmapCap \in Nat
    /\ pending \in SUBSET Obj
    /\ wrote \in SUBSET pending
    /\ promised \in SUBSET Obj
    /\ durable \in SUBSET promised
    /\ crashes \in 0..MaxCrashes
    /\ ioErrors \in 0..MaxIoErrors

-----------------------------------------------------------------------------
(* Files *)

NoFile     == [exists |-> FALSE, len |-> 0, synced |-> 0, recs |-> {}]
NewSegment == [exists |-> TRUE, len |-> HeaderLen, synced |-> HeaderLen, recs |-> {}]

\* n more bytes that hold the records rs.
Appended(f, rs, n) ==
    [exists |-> f.exists, len |-> f.len + n, synced |-> f.synced, recs |-> f.recs \cup rs]

Synced(f) == [exists |-> f.exists, len |-> f.len, synced |-> f.len, recs |-> f.recs]

\* The first n bytes of f.
Cut(f, n) ==
    [exists |-> f.exists, len |-> n, synced |-> n,
     recs |-> {r \in f.recs : r.off + RecLen[r.obj] =< n}]

\* The segment files once the BufWriter has been emptied into current_file.
SegsWritten == [segs EXCEPT ![fileSeg] = Appended(segs[fileSeg], buf, bufLen)]

\* Mutant: flush never calls sync_data on the segment.
SegsFlushedNoSync == SegsWritten

\* ... and fsync'd, which flush does only for a dirty store.
SegsFlushed ==
    IF dirty THEN [segs EXCEPT ![fileSeg] = Synced(Appended(segs[fileSeg], buf, bufLen))]
             ELSE SegsWritten

HalfEntries == 2 * Len(epi) + IF epiTail = NoTail THEN 0 ELSE 1

EpiSyncedAfterFlush == IF dirty THEN HalfEntries ELSE epiSynced

MapsAfterFlush == IF dirty THEN maps \ {curSeg} ELSE maps

\* The n largest members of a set of segment ids: both places that evict maps
\* drop the smallest id first.
KeepLargest(S, n) == {s \in S : Cardinality({t \in S : t > s}) < n}

-----------------------------------------------------------------------------
(* Reading *)

Contains(o) == index[o].seg # NoSeg

\* Mutant: read_record_bytes does not flush the active writer first.
SegViewUnflushed(s) == segs[s]

\* The segment as read_record_bytes sees it: the active writer is flushed
\* first when the entry names the current segment.
SegView(s) == IF s = curSeg THEN SegsWritten[s] ELSE segs[s]

\* decode_record on the bytes at a location: it accepts any intact record that
\* starts there and fits, whatever its content hash.
DecodeAt(f, loc) ==
    {x \in Obj : /\ [off |-> loc.off, obj |-> x] \in f.recs
                 /\ RecLen[x] =< loc.len}

\* The payloads a read through the index can return: one, or none when the
\* file is missing, too short, or does not decode.
ReadAt(loc) ==
    IF loc.seg \in SegIds /\ SegView(loc.seg).exists
                          /\ loc.off + loc.len =< SegView(loc.seg).len
    THEN DecodeAt(SegView(loc.seg), loc)
    ELSE {}

GetPayload(o) == IF LruHas(cache, o) THEN {LruGet(cache, o)} ELSE ReadAt(index[o])

-----------------------------------------------------------------------------
(* The process starts: CasStore::open *)

ExistingIds == {s \in SegIds : segs[s].exists}

\* Mutant: the smallest id instead of the largest.
FindOldestSegment(s) ==
    IF ExistingIds = {} THEN s = 0 ELSE s \in ExistingIds /\ \A t \in ExistingIds : s =< t

\* find_latest_segment returns s (segment 0 when there is no file).
FindLatestSegment(s) ==
    IF ExistingIds = {} THEN s = 0 ELSE s \in ExistingIds /\ \A t \in ExistingIds : t =< s

\* Index::open: whole entries in file order, the last one for a hash wins.
LoadIndex ==
    [o \in Obj |->
        IF \E i \in DOMAIN epi : epi[i].hash = o
        THEN epi[CHOOSE i \in DOMAIN epi : /\ epi[i].hash = o
                                           /\ \A j \in DOMAIN epi : epi[j].hash = o => j =< i].loc
        ELSE NoLoc]

\* open_or_create_segment of the latest segment; an existing file shorter than
\* its header is refused and the store cannot be opened.
Open ==
    /\ ~up
    /\ \E s \in SegIds :
        /\ FindLatestSegment(s)
        /\ segs[s].exists => segs[s].len >= HeaderLen
        /\ segs' = IF segs[s].exists THEN segs ELSE [segs EXCEPT ![s] = NewSegment]
        /\ curSeg' = s
        /\ fileSeg' = s
        /\ curOff' = IF segs[s].exists THEN segs[s].len ELSE HeaderLen
    /\ up' = TRUE
    /\ index' = LoadIndex
    /\ buf' = {} /\ bufLen' = 0 /\ dirty' = FALSE
    /\ cache' = <<>> /\ cacheCap' = LruCap(CacheCap)
    /\ maps' = {} /\ mmapCap' = MmapCap
    /\ UNCHANGED <<epi, epiTail, epiSynced, told, crashes, ioErrors>>

-----------------------------------------------------------------------------
(* CasStore::put *)

\* BufWriter::write_all of one record into segment s of the files S, with the
\* records b of n bytes buffered.  A record that does not fit in the buffer
\* empties it first; one as long as the buffer bypasses it.
Spills(n, o)   == RecLen[o] > BufCap - n
Bypasses(o)    == RecLen[o] >= BufCap

\* Segments are opened with O_APPEND: a record lands where the file ends.
WrittenRec(S, s, n, o) == [off |-> S[s].len + n, obj |-> o]

SegsAfterWrite(S, s, b, n, o) ==
    LET f == IF Spills(n, o) THEN Appended(S[s], b, n) ELSE S[s]
    IN  [S EXCEPT ![s] = IF Bypasses(o) THEN Appended(f, {WrittenRec(S, s, n, o)}, RecLen[o])
                                        ELSE f]

BufAfterWrite(S, s, b, n, o) ==
    (IF Spills(n, o) THEN {} ELSE b) \cup (IF Bypasses(o) THEN {} ELSE {WrittenRec(S, s, n, o)})

BufLenAfterWrite(n, o) ==
    (IF Spills(n, o) THEN 0 ELSE n) + (IF Bypasses(o) THEN 0 ELSE RecLen[o])

\* Index::insert: 44 bytes appended to index.epi.  Behind an incomplete entry
\* they complete it and leave the rest of themselves incomplete in turn.
InsertEntry(o, loc) ==
    IF epiTail = NoTail
    THEN /\ epi' = Append(epi, [hash |-> o, loc |-> loc])
         /\ epiTail' = NoTail
    ELSE /\ epi' = Append(epi, [hash |-> epiTail, loc |-> BadLoc])
         /\ epiTail' = Junk

Fits(o) == curOff + RecLen[o] =< SegMax

Ack(o) == pending' = pending \cup {o}

\* The object is in the index already: nothing is written.
PutDedup(o) ==
    /\ up /\ Contains(o)
    /\ Ack(o)
    /\ UNCHANGED <<disk, up, index, file, views, wrote, promised, durable, crashes, ioErrors>>

\* put after ensure_segment_capacity: write the record to segment s, append the
\* entry, advance current_offset, cache the payload.
WriteAndIndex(o, S, s, b, n, id, off) ==
    LET loc == [seg |-> id, off |-> off, len |-> RecLen[o]]
    IN  /\ segs' = SegsAfterWrite(S, s, b, n, o)
        /\ buf' = BufAfterWrite(S, s, b, n, o)
        /\ bufLen' = BufLenAfterWrite(n, o)
        /\ InsertEntry(o, loc)
        /\ index' = [index EXCEPT ![o] = loc]
        /\ curSeg' = id
        /\ fileSeg' = s
        /\ curOff' = off + RecLen[o]
        /\ dirty' = TRUE
        /\ cache' = LruInsert(cache, cacheCap, o, o)
        /\ Ack(o)
        /\ wrote' = wrote \cup {o}
        /\ UNCHANGED <<up, cacheCap, mmapCap, promised, durable, crashes, ioErrors>>

PutInPlace(o) ==
    /\ up /\ ~Contains(o) /\ Fits(o)
    /\ WriteAndIndex(o, segs, fileSeg, buf, bufLen, curSeg, curOff)
    /\ UNCHANGED <<epiSynced, maps>>

\* Mutant: rotate_segment replaces the BufWriter without flushing it.
SegsRotatedUnflushed == [segs EXCEPT ![curSeg + 1] = NewSegment]

\* Mutant: rotate_segment truncates the current file instead of taking a new id.
SegsRotatedInPlace == [SegsFlushed EXCEPT ![curSeg] = NewSegment]

\* rotate_segment: flush, take the next id, create its file with a header.
\* The next id is above every file there is, so the file is always new.
SegsRotated == [SegsFlushed EXCEPT ![curSeg + 1] = NewSegment]

PutRotating(o) ==
    /\ up /\ ~Contains(o) /\ ~Fits(o) /\ curSeg < MaxSegId
    /\ WriteAndIndex(o, SegsRotated, curSeg + 1, {}, 0, curSeg + 1, HeaderLen)
    /\ epiSynced' = EpiSyncedAfterFlush
    /\ maps' = MapsAfterFlush

\* The segment id would overflow: put fails after the flush inside
\* rotate_segment.
PutOverflow(o) ==
    /\ up /\ ~Contains(o) /\ ~Fits(o) /\ curSeg = MaxSegId
    /\ segs' = SegsFlushed
    /\ buf' = {} /\ bufLen' = 0 /\ dirty' = FALSE
    /\ epiSynced' = EpiSyncedAfterFlush
    /\ maps' = MapsAfterFlush
    /\ UNCHANGED <<epi, epiTail, up, index, curSeg, fileSeg, curOff, cache, cacheCap,
                   mmapCap, told, crashes, ioErrors>>

-----------------------------------------------------------------------------
(* CasStore::flush, get_payload, drop, configuration *)

FlushDisk ==
    /\ segs' = SegsFlushed
    /\ epiSynced' = EpiSyncedAfterFlush
    /\ UNCHANGED <<epi, epiTail>>

Promise ==
    /\ promised' = promised \cup pending
    /\ durable' = durable \cup wrote
    /\ pending' = {}
    /\ wrote' = {}

Flush ==
    /\ up
    /\ FlushDisk
    /\ buf' = {} /\ bufLen' = 0 /\ dirty' = FALSE
    /\ maps' = MapsAfterFlush
    /\ Promise
    /\ UNCHANGED <<up, index, curSeg, fileSeg, curOff, cache, cacheCap, mmapCap,
                   crashes, ioErrors>>

\* Mutant: the current segment is mapped too.
MapsAfterAnyRead(s) ==
    IF mmapCap > 0 /\ segs[s].exists /\ s \notin maps
    THEN KeepLargest(maps, mmapCap - 1) \cup {s}
    ELSE maps

\* ensure_mmap of a sealed segment that exists.
MapsAfterRead(s) ==
    IF mmapCap > 0 /\ s # curSeg /\ segs[s].exists /\ s \notin maps
    THEN KeepLargest(maps, mmapCap - 1) \cup {s}
    ELSE maps

\* get_payload: a cached payload is returned as it is; otherwise the record is
\* read and, if it decodes, cached under the hash that was asked for.
GetHit(o) ==
    /\ up /\ LruHas(cache, o)
    /\ UNCHANGED vars

GetMiss(o) ==
    /\ up /\ ~LruHas(cache, o) /\ index[o].seg \in SegIds
    /\ IF index[o].seg = curSeg
       THEN segs' = SegsWritten /\ buf' = {} /\ bufLen' = 0
       ELSE UNCHANGED <<segs, buf, bufLen>>
    /\ maps' = MapsAfterRead(index[o].seg)
    /\ IF ReadAt(index[o]) = {}
       THEN cache' = cache
       ELSE \E x \in ReadAt(index[o]) : cache' = LruInsert(cache, cacheCap, o, x)
    /\ UNCHANGED <<epi, epiTail, epiSynced, up, index, curSeg, fileSeg, curOff, dirty,
                   cacheCap, mmapCap, told, crashes, ioErrors>>

\* The store is dropped: flush, then the memory is gone.
Forget ==
    /\ up' = FALSE
    /\ index' = [o \in Obj |-> NoLoc]
    /\ curSeg' = 0 /\ fileSeg' = 0 /\ curOff' = 0
    /\ buf' = {} /\ bufLen' = 0 /\ dirty' = FALSE
    /\ cache' = <<>> /\ cacheCap' = LruCap(CacheCap)
    /\ maps' = {} /\ mmapCap' = MmapCap

Drop ==
    /\ up
    /\ FlushDisk
    /\ Promise
    /\ Forget
    /\ UNCHANGED <<crashes, ioErrors>>

\* set_object_cache_cap starts an empty cache; set_mmap_cap evicts maps.
ConfigureCaches(c, m) ==
    /\ up
    /\ cache' = <<>> /\ cacheCap' = LruCap(c)
    /\ maps' = KeepLargest(maps, m) /\ mmapCap' = m
    /\ UNCHANGED <<disk, up, index, file, told, crashes, ioErrors>>

-----------------------------------------------------------------------------
(* Crashes *)

CrashStep ==
    /\ crashes < MaxCrashes
    /\ crashes' = crashes + 1
    /\ Forget
    /\ pending' = {} /\ wrote' = {}
    /\ UNCHANGED <<promised, durable, ioErrors>>

\* The process is killed between two calls: the BufWriter is lost, everything
\* already handed to the operating system stays.
Kill ==
    /\ up
    /\ CrashStep
    /\ UNCHANGED disk

\* ... or inside put, after the record went to the BufWriter and before
\* Index::insert.
KillBeforeInsert(o) ==
    /\ up /\ ~Contains(o) /\ Fits(o)
    /\ CrashStep
    /\ segs' = SegsAfterWrite(segs, fileSeg, buf, bufLen, o)
    /\ UNCHANGED <<epi, epiTail, epiSynced>>

\* ... or inside put, after rotate_segment.
KillAfterRotate(o) ==
    /\ up /\ ~Contains(o) /\ ~Fits(o) /\ curSeg < MaxSegId
    /\ CrashStep
    /\ segs' = SegsRotated
    /\ epiSynced' = EpiSyncedAfterFlush
    /\ UNCHANGED <<epi, epiTail>>

\* Bytes that were not fsync'd may be missing from the end of every file.
CutPoints == UNION {segs[s].synced .. segs[s].len : s \in SegIds}

LoseSegmentTails ==
    \E cut \in [SegIds -> CutPoints] :
        /\ \A s \in SegIds : cut[s] \in segs[s].synced .. segs[s].len
        /\ segs' = [s \in SegIds |-> Cut(segs[s], cut[s])]

\* The machine loses power and index.epi is cut between two entries.
PowerLoss ==
    /\ CrashStep
    /\ LoseSegmentTails
    /\ epiTail = NoTail
    /\ \E k \in 0..Len(epi) :
        /\ 2 * k >= epiSynced
        /\ epi' = SubSeq(epi, 1, k)
        /\ epiSynced' = 2 * k
    /\ UNCHANGED epiTail

-----------------------------------------------------------------------------
(* Failing I/O calls: the error is returned and the process goes on *)

IoError == ioErrors < MaxIoErrors /\ ioErrors' = ioErrors + 1

\* put: the record is written, the write of the index entry fails, with none or
\* part of it in the file.  The `?` on Index::insert leaves before
\* current_offset is advanced.
PutInsertFails(o) ==
    /\ up /\ ~Contains(o) /\ Fits(o)
    /\ IoError
    /\ segs' = SegsAfterWrite(segs, fileSeg, buf, bufLen, o)
    /\ buf' = BufAfterWrite(segs, fileSeg, buf, bufLen, o)
    /\ bufLen' = BufLenAfterWrite(bufLen, o)
    /\ epiTail' = epiTail \/ (epiTail = NoTail /\ epiTail' = o)
    /\ UNCHANGED <<epi, epiSynced, up, index, curSeg, fileSeg, curOff, dirty,
                   views, told, crashes>>

\* put: rotate_segment flushes and takes the next id, then the new file cannot
\* be opened.  current_file and current_offset stay those of the old segment.
PutRotateFails(o) ==
    /\ up /\ ~Contains(o) /\ ~Fits(o) /\ curSeg < MaxSegId
    /\ IoError
    /\ segs' = SegsFlushed
    /\ buf' = {} /\ bufLen' = 0 /\ dirty' = FALSE
    /\ epiSynced' = EpiSyncedAfterFlush
    /\ maps' = MapsAfterFlush
    /\ curSeg' = curSeg + 1
    /\ UNCHANGED <<epi, epiTail, up, index, fileSeg, curOff, cache, cacheCap, mmapCap,
                   told, crashes>>

\* flush: the buffer is written, sync_data fails, the store stays dirty.
FlushSyncFails ==
    /\ up /\ dirty
    /\ IoError
    /\ segs' = SegsWritten
    /\ buf' = {} /\ bufLen' = 0
    /\ UNCHANGED <<epi, epiTail, epiSynced, up, index, curSeg, fileSeg, curOff, dirty,
                   views, told, crashes>>
-----------------------------------------------------------------------------
(* Specifications *)

Init ==
    /\ segs = [s \in SegIds |-> NoFile]
    /\ epi = <<>> /\ epiTail = NoTail /\ epiSynced = 0
    /\ up = FALSE
    /\ index = [o \in Obj |-> NoLoc]
    /\ curSeg = 0 /\ fileSeg = 0 /\ curOff = 0
    /\ buf = {} /\ bufLen = 0 /\ dirty = FALSE
    /\ cache = <<>> /\ cacheCap = LruCap(CacheCap)
    /\ maps = {} /\ mmapCap = MmapCap
    /\ pending = {} /\ wrote = {} /\ promised = {} /\ durable = {}
    /\ crashes = 0 /\ ioErrors = 0

\* The store is only ever closed by dropping it, and every I/O call succeeds.
CleanNext ==
    \/ Open
    \/ \E o \in Obj : \/ PutDedup(o) \/ PutInPlace(o) \/ PutRotating(o) \/ PutOverflow(o)
                      \/ GetHit(o) \/ GetMiss(o)
    \/ Flush
    \/ Drop
    \/ \E c \in CapChoices : ConfigureCaches(c[1], c[2])

\* Kills and power losses that leave whole index entries and segment headers.
CrashNext ==
    \/ CleanNext
    \/ Kill
    \/ \E o \in Obj : KillBeforeInsert(o) \/ KillAfterRotate(o)
    \/ PowerLoss

\* No crash, but I/O calls that fail.
IoErrorNext ==
    \/ CleanNext
    \/ \E o \in Obj : PutInsertFails(o) \/ PutRotateFails(o)
    \/ FlushSyncFails

CleanSpec   == Init /\ [][CleanNext]_vars
CrashSpec   == Init /\ [][CrashNext]_vars
IoErrorSpec == Init /\ [][IoErrorNext]_vars

-----------------------------------------------------------------------------
(* Properties *)

\* put promises "Store payload, returning its content hash" and get "Retrieve
\* and verify payload by content hash": whatever was put is in the index and
\* reads back as itself, across buffering, spills, rotation, cache eviction,
\* memory maps and reopening, as long as no I/O call failed.
AckedReadable ==
    up /\ ioErrors = 0 => \A o \in pending \cup promised : Contains(o) /\ GetPayload(o) = {o}

\* Every index entry leads to the bytes of its own object, so evicting a cached
\* payload never changes what get returns.
EntriesResolve ==
    up /\ ioErrors = 0 => \A o \in Obj : Contains(o) => ReadAt(index[o]) = {o}

\* ensure_mmap's SAFETY comment, "we only mmap sealed segments": the segment
\* being appended to is never mapped.  (A rotation that could not open the new
\* file goes on writing to the old one.)  The maps and the cached payloads stay
\* within the capacities they were last given.
MapsSealedAndBounded ==
    /\ ioErrors = 0 => fileSeg \notin maps
    /\ Cardinality(maps) =< mmapCap
    /\ Len(cache) =< cacheCap

\* "Segment files are append-only", and once a later segment exists a segment
\* is not even appended to: what a memory map of it shows never changes.
SealedImmutable ==
    [][ioErrors' = 0 => \A s \in SegIds :
        (\E t \in ExistingIds : t > s) => segs'[s] = segs[s]]_vars

\* The promise of put's comment, "call flush (or drop the store) for
\* durability", for an object whose put appended its record: after the flush it
\* survives every later crash and reads back as itself.
DurableReadable ==
    up => \A o \in durable : Contains(o) /\ GetPayload(o) = {o}

\* The objects an open store answers for.
Good == IF up THEN {o \in Obj : Contains(o) /\ GetPayload(o) = {o}} ELSE {}

Promises == INSTANCE DurableStore WITH open <- up, good <- Good

\* The store, seen through what callers can tell, is the simple one of
\* DurableStore, whatever is killed and whenever power is lost: no put, flush,
\* read, eviction or reconfiguration makes a readable object unreadable, and a
\* reopened store answers for everything that was written and flushed.
ImplementsDurableStore == Promises!Spec

\* "Retrieve and verify payload by content hash": get returns the payload that
\* was asked for or an error.
GetVerifies ==
    up => \A o \in Obj : GetPayload(o) \subseteq {o}

\* A failing call never damages an object that is readable: while the store
\* stays open, an entry that leads to its own object keeps doing so.
GoodEntriesStayGood ==
    [][up /\ up' => \A o \in Obj : (Contains(o) /\ ReadAt(index[o]) = {o})
                                        => (ReadAt(index[o]) = {o})']_vars

-----------------------------------------------------------------------------
(* The inductive invariant behind DurableReadable and AckedReadable *)

\* Complete records lie inside the file f and do not share an offset; the
\* records b of a buffer of n bytes lie behind them, likewise.
FileOK(f, b, n) ==
    /\ f.synced =< f.len
    /\ \A r \in f.recs : r.off + RecLen[r.obj] =< f.len
    /\ \A r, q \in f.recs : r.off = q.off => r = q
    /\ \A r \in b : f.len =< r.off /\ r.off + RecLen[r.obj] =< f.len + n
    /\ \A r, q \in b : r.off = q.off => r = q

FilesWellFormed ==
    /\ \A s \in SegIds : FileOK(segs[s], {}, 0)
    /\ FileOK(segs[curSeg], buf, bufLen)

\* The writer's idea of where it is agrees with the file and its buffer, and no
\* later segment exists.  A closed store has nothing in memory.
WriterInStep ==
    /\ fileSeg = curSeg
    /\ up => /\ segs[curSeg].exists
             /\ segs[curSeg].len + bufLen = curOff
             /\ \A s \in SegIds : s > curSeg => ~segs[s].exists
    /\ ~up => buf = {} /\ bufLen = 0 /\ cache = <<>> /\ wrote = {} /\ pending = {}

\* index.epi holds whole entries, at most one for an object.
EpiWellFormed ==
    /\ epiTail = NoTail
    /\ epiSynced =< 2 * Len(epi)
    /\ \A i \in DOMAIN epi : epi[i].hash \in Obj /\ epi[i].loc.seg \in SegIds
    /\ \A i, j \in DOMAIN epi : epi[i].hash = epi[j].hash => i = j

\* The index in memory is what a reopen would load.
IndexInStep ==
    up => /\ \A i \in DOMAIN epi : index[epi[i].hash] = epi[i].loc
          /\ \A o \in Obj : Contains(o) => \E i \in DOMAIN epi : epi[i].hash = o

Shape == FilesWellFormed /\ WriterInStep /\ EpiWellFormed /\ IndexInStep

\* The record of o is at the location, in the files S or in the buffer b of the
\* current segment c.
Located(S, c, b, o, loc) ==
    /\ loc.seg \in SegIds
    /\ loc.len = RecLen[o]
    /\ S[loc.seg].exists
    /\ \/ [off |-> loc.off, obj |-> o] \in S[loc.seg].recs
       \/ loc.seg = c /\ [off |-> loc.off, obj |-> o] \in b

\* ... in the fsync'd part of the files S.
OnDisk(S, o, loc) ==
    /\ loc.seg \in SegIds
    /\ loc.len = RecLen[o]
    /\ S[loc.seg].exists
    /\ [off |-> loc.off, obj |-> o] \in S[loc.seg].recs
    /\ loc.off + loc.len =< S[loc.seg].synced

\* A flushed object has a fsync'd entry that leads to its fsync'd record.
DurableOnDisk ==
    \A o \in durable :
        \E i \in DOMAIN epi : epi[i].hash = o /\ 2 * i =< epiSynced /\ OnDisk(segs, o, epi[i].loc)

\* An object written since the last flush has an entry that leads to its
\* record; both are fsync'd already, or will be because the store is dirty and
\* the record is in the current segment.
WroteLocated ==
    \A o \in wrote :
        \E i \in DOMAIN epi :
            /\ epi[i].hash = o
            /\ Located(segs, curSeg, buf, o, epi[i].loc)
            /\ dirty \/ 2 * i =< epiSynced
            /\ (dirty /\ epi[i].loc.seg = curSeg) \/ OnDisk(segs, o, epi[i].loc)

\* The cache holds the right payload for every object written or flushed.
CacheTrue ==
    \A i \in DOMAIN cache : cache[i].key \in durable \cup wrote => cache[i].val = cache[i].key

CrashInv == TypeOK /\ Shape /\ DurableOnDisk /\ WroteLocated /\ CacheTrue

\* Without crashes every entry leads to its object, cached or not.
EntriesLocated == \A i \in DOMAIN epi : Located(segs, curSeg, buf, epi[i].hash, epi[i].loc)

CacheExact == \A i \in DOMAIN cache : cache[i].val = cache[i].key

AckedIndexed ==
    \A o \in pending \cup promised : \E i \in DOMAIN epi : epi[i].hash = o

CleanInv == TypeOK /\ Shape /\ EntriesLocated /\ CacheExact /\ AckedIndexed

-----------------------------------------------------------------------------
(* The inductive invariant behind the properties of IoErrorSpec *)

\* Every file is well formed and the buffer continues the file it belongs to.
WriterShape ==
    /\ \A s \in SegIds : FileOK(segs[s], {}, 0)
    /\ FileOK(segs[fileSeg], buf, bufLen)

\* After a rotation that could not open its file, current_file is a segment
\* before the current one.  Its buffer still continues it, there is no file
\* behind the current segment, and only segments before that one are mapped.
IoShape ==
    /\ WriterShape
    /\ fileSeg =< curSeg
    /\ up => segs[fileSeg].exists /\ \A s \in SegIds : s > curSeg => ~segs[s].exists
    /\ \A s \in maps : s < curSeg

Bounded == Cardinality(maps) =< mmapCap /\ Len(cache) =< cacheCap

IoInv == TypeOK /\ IoShape /\ Bounded /\ (ioErrors = 0 => CleanInv)

-----------------------------------------------------------------------------
(* What the refinement of DurableStore needs besides CrashInv *)

\* The length of an entry is that of its object's record.
EntryLengths == \A i \in DOMAIN epi : epi[i].loc.len = RecLen[epi[i].hash]

\* A cached payload is the one that a read would return, right or wrong.
CacheCoherent ==
    \A i \in DOMAIN cache : Contains(cache[i].key) /\ ReadAt(index[cache[i].key]) = {cache[i].val}

RefInv == CrashInv /\ EntryLengths /\ CacheCoherent
=============================================================================
