------------------------------ MODULE Commits -------------------------------
(***************************************************************************)
(* Commits and HAMT nodes on their way into the stores of several threads   *)
(* of one process and back: commit_with_root, commit_with_indexes,          *)
(* persist_commit, load_commit, configure_caches and resolve_hash_ref of    *)
(* epochs-core/src/store/disk.rs.  Every thread has a repository of its     *)
(* own; the timestamp counter is shared.  The content-addressed store below *)
(* is CasStore without faults: a map from hashes to typed payloads.         *)
(***************************************************************************)
EXTENDS Timestamps, Codec, LruMap

CONSTANTS
    HashSpace,    \* the hashes that payloads may have
    RootInputs,   \* [count, message]: what commit_with_root is called with
    IndexInputs,  \* [count, message, index_roots]: ... and commit_with_indexes
    Nodes,        \* the HAMT nodes that are stored
    Legacy,       \* a commit that an old version wrote into every repository
    CommitCaps,   \* the arguments of configure_caches
    COMMIT_CACHE_CAP,
    MaxObjects    \* bound on the objects of one behaviour

\* The root of the document is any stored hash; here it is the empty one.
Commit(parents, time, msg, idx) ==
    [parents |-> parents, root_hamt |-> ZERO, timestamp |-> time, message |-> msg,
     index_roots |-> idx]

Repeated(k, h) == [j \in 1..k |-> h]

\* The numbers that next_timestamp and now_millis can return.
Times == UNION {0 .. c + MaxCalls : c \in Clock}

ASSUME CommitsAssumption ==
    /\ HashSpace \subseteq Hash \ {ZERO} /\ HashSpace # {}
    /\ \A i \in RootInputs \cup IndexInputs : i.count \in Nat /\ i.message \in Text
    /\ \A i \in IndexInputs : IsIndexRoots(i.index_roots)
    /\ Nodes \subseteq Node
    /\ Legacy = Commit(Legacy.parents, Legacy.timestamp, Legacy.message, <<>>)
    /\ Legacy.parents \in Seq(Hash) /\ Legacy.message \in Text /\ Legacy.timestamp \in Nat
    /\ FitsU(Legacy.timestamp, 8)
    /\ \A n \in Times : FitsU(n, 8)  \* no u64 of milliseconds overflows
    /\ CommitCaps \subseteq Nat /\ COMMIT_CACHE_CAP \in Nat
    /\ MaxObjects =< Cardinality(HashSpace)

VARIABLES
    hashOf,    \* the hash of every payload seen so far
    cas,       \* cas[t]: hash -> [type, payload]
    ccache, ccap,  \* commit_cache
    args,      \* the arguments of the call of each thread
    made       \* made[t]: what was stored under a hash the caller was given

storeVars == <<hashOf, cas, ccache, ccap, made>>
vars      == <<tsVars, storeVars, args>>

NoArgs == [parents |-> <<>>, message |-> <<>>]

-----------------------------------------------------------------------------
(* The store *)

Stored(t, h) == h \in DOMAIN cas[t]

\* CasStore::put hashes the payload alone: a payload that is there already
\* keeps the type it was first stored with.
Put(t, type, payload, h) ==
    /\ IF payload \in DOMAIN hashOf THEN h = hashOf[payload] ELSE h \notin Range(hashOf)
    /\ hashOf' = [p \in DOMAIN hashOf \cup {payload} |-> IF p = payload THEN h ELSE hashOf[p]]
    /\ cas' = [cas EXCEPT ![t] = [x \in DOMAIN @ \cup {h} |->
                   IF x \in DOMAIN @ THEN @[x] ELSE [type |-> type, payload |-> payload]]]

Remember(t, h, type, val) ==
    made' = [made EXCEPT ![t] = [x \in DOMAIN @ \cup {h} |->
                 IF x = h THEN [type |-> type, val |-> val] ELSE @[x]]]

Decode(t, h) ==
    IF cas[t][h].type = "commit" THEN DecodePayload(cas[t][h].payload) ELSE NotACommit

\* load_commit: the cached commit, or the decoded record.
LoadCommit(t, h) ==
    IF LruHas(ccache[t], h) THEN [ok |-> TRUE, commit |-> LruGet(ccache[t], h)] ELSE Decode(t, h)

GetCommit(t, h) ==
    /\ Stored(t, h)
    /\ LET r == LoadCommit(t, h)
       IN  ccache' = IF r.ok THEN [ccache EXCEPT ![t] = LruInsert(@, ccap[t], h, r.commit)]
                             ELSE ccache
    /\ UNCHANGED <<tsVars, hashOf, cas, ccap, made, args>>

-----------------------------------------------------------------------------
(* Commits *)

\* What callers pass as parents: k times a hash that the store contains (a
\* parent it does not contain is refused).
ParentLists(t, k) == {Repeated(k, h) : h \in DOMAIN cas[t]}

\* persist_commit; what is cached is the commit, not what its payload decodes to.
PersistCommit(t, c) ==
    \E h \in HashSpace :
        /\ Put(t, "commit", EncodePayload(c), h)
        /\ ccache' = [ccache EXCEPT ![t] = LruInsert(@, ccap[t], h, c)]
        /\ Remember(t, h, "commit", c)

\* commit_with_root, up to next_timestamp's first step ...
CommitWithRoot(t, parents, msg) ==
    /\ Cardinality(DOMAIN hashOf) < MaxObjects
    /\ FetchAdd(t)
    /\ args' = [args EXCEPT ![t] = [parents |-> parents, message |-> msg]]
    /\ UNCHANGED storeVars

\* ... through it ...
NextTimestamp(t) ==
    /\ ReadClock(t) \/ StoreNext(t)
    /\ UNCHANGED <<storeVars, args>>

\* ... and from it to the end.
CommitStamped(t) ==
    /\ Done(t)
    /\ Cardinality(DOMAIN hashOf) < MaxObjects
    /\ PersistCommit(t, Commit(args[t].parents, call[t].n, args[t].message, <<>>))
    /\ args' = [args EXCEPT ![t] = NoArgs]
    /\ UNCHANGED ccap

\* commit_with_indexes takes the clock itself.
CommitWithIndexes(t, parents, msg, idx) ==
    /\ call[t].pc = "idle"
    /\ Cardinality(DOMAIN hashOf) < MaxObjects
    /\ PersistCommit(t, Commit(parents, clock, msg, idx))
    /\ UNCHANGED <<tsVars, args, ccap>>

\* persist_leaf and persist_bitmap of the HAMT.
StoreNode(t, n) ==
    /\ call[t].pc = "idle"
    /\ Cardinality(DOMAIN hashOf) < MaxObjects
    /\ \E h \in HashSpace : Put(t, n.type, EncodeNode(n), h) /\ Remember(t, h, n.type, n)
    /\ UNCHANGED <<tsVars, args, ccache, ccap>>

\* configure_caches starts an empty commit cache.
ConfigureCaches(t, cap) ==
    /\ call[t].pc = "idle"
    /\ ccache' = [ccache EXCEPT ![t] = <<>>]
    /\ ccap' = [ccap EXCEPT ![t] = LruCap(cap)]
    /\ UNCHANGED <<tsVars, hashOf, cas, made, args>>

-----------------------------------------------------------------------------
(* Hash prefixes *)

\* find_by_prefix
FindByPrefix(t, hex) == {h \in DOMAIN cas[t] : IsPrefix(hex, h)}

NoMatch == <<>>

\* Mutant: the first match in hash order is as good as any.
ResolveFirst(t, hex) ==
    LET m == FindByPrefix(t, hex)
    IN  IF m = {} THEN NoMatch ELSE CHOOSE h \in m : \A g \in m : g = h \/ BytesLess(h, g)

\* resolve_hash_ref: a full hash that is stored, or a prefix of exactly one.
ResolveHashRef(t, hex) ==
    IF Len(hex) = HashLen
    THEN IF Stored(t, hex) THEN hex ELSE NoMatch
    ELSE LET m == FindByPrefix(t, hex)
         IN  IF Cardinality(m) = 1 THEN CHOOSE h \in m : TRUE ELSE NoMatch

-----------------------------------------------------------------------------
LegacyHash == CHOOSE h \in HashSpace : TRUE

Init ==
    /\ TsInit
    /\ hashOf = [p \in {EncodePayloadV1(Legacy)} |-> LegacyHash]
    /\ cas = [t \in Thread |->
                [h \in {LegacyHash} |-> [type |-> "commit", payload |-> EncodePayloadV1(Legacy)]]]
    /\ ccache = [t \in Thread |-> <<>>]
    /\ ccap = [t \in Thread |-> LruCap(COMMIT_CACHE_CAP)]
    /\ args = [t \in Thread |-> NoArgs]
    /\ made = [t \in Thread |-> [h \in {LegacyHash} |-> [type |-> "commit", val |-> Legacy]]]

Next ==
    \/ \E t \in Thread :
        \/ \E i \in RootInputs : \E p \in ParentLists(t, i.count) : CommitWithRoot(t, p, i.message)
        \/ \E i \in IndexInputs : \E p \in ParentLists(t, i.count) :
              CommitWithIndexes(t, p, i.message, i.index_roots)
        \/ NextTimestamp(t)
        \/ CommitStamped(t)
        \/ \E n \in Nodes : StoreNode(t, n)
        \/ \E h \in HashSpace : GetCommit(t, h)
        \/ \E c \in CommitCaps : ConfigureCaches(t, c)
    \/ Tick /\ UNCHANGED <<storeVars, args>>

Spec == Init /\ [][Next]_vars

-----------------------------------------------------------------------------
(* Properties *)

\* The commits that calls of commit_with_root and of commit_with_indexes can make.
RootCommits ==
    {Commit(Repeated(i.count, h), n, i.message, <<>>) :
        i \in RootInputs, h \in HashSpace, n \in Times}

IndexCommits ==
    {Commit(Repeated(i.count, h), n, i.message, i.index_roots) :
        i \in IndexInputs, h \in HashSpace, n \in Times}

CommitsAskedFor == RootCommits \cup IndexCommits

\* The type of a record is not part of its hash, so a node whose bytes are those
\* of a commit, or of a node of the other type, would be taken for it.  Here no
\* two records of different types have the same bytes.
TypesApart ==
    \A n \in Nodes :
        /\ EncodeNode(n) # EncodePayloadV1(Legacy)
        /\ \A c \in CommitsAskedFor : EncodeNode(n) # EncodePayload(c)
        /\ \A m \in Nodes : EncodeNode(n) = EncodeNode(m) => n.type = m.type

\* "commit objects are immutable", and a record is read as what it was stored
\* as: whatever fits the widths of its fields is loaded as it was stored, from
\* the cache, after an eviction, and for a commit of version 1; a node is never
\* loaded as a commit.
LoadsAsMade ==
    \A t \in Thread : \A h \in DOMAIN made[t] :
        LET x == made[t][h]
        IN  IF x.type = "commit"
            THEN FitsCommit(x.val) => LoadCommit(t, h) = [ok |-> TRUE, commit |-> x.val]
            ELSE /\ FitsNode(x.val) => DecodeNode(cas[t][h].type, cas[t][h].payload)
                                         = [ok |-> TRUE, node |-> x.val]
                 /\ ~LoadCommit(t, h).ok

\* "Resolve a full hash or unambiguous hex prefix": a prefix that once named an
\* object never names another one later; it may only become ambiguous.
PrefixesAreStable ==
    [][\A t \in Thread, h \in HashSpace : \A k \in 0..HashLen :
          LET hex == SubSeq(h, 1, k)
          IN  ResolveHashRef(t, hex) # NoMatch =>
                  ResolveHashRef(t, hex)' \in {ResolveHashRef(t, hex), NoMatch}]_vars
=============================================================================
