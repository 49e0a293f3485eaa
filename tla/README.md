# Verification of Epochs

TLA+ models of [epochs](../src/README.md), a versioned document store: a
content-addressed log on disk, persistent hash tries over it, a commit graph
with branches, the EpochQL language and a TCP server. The models are
translated from the Rust source; `PROJECT.json` maps every definition to its
lines. TLC checks small instances, TLAPS proves theorems for all of them.

## 1. The system

| Part | Source | State | Operations |
|---|---|---|---|
| Content-addressed store (CAS) | `epochs-core/src/cas` | segment files, `index.epi`, index in memory, `BufWriter`, `dirty`, payload cache, memory maps | `open`, `put`, `flush`, `get`, drop, `configure_caches` |
| Bounded cache | `epochs-core/src/cache.rs` | keys in insertion order, values | `new`, `get`, `insert` |
| Persistent HAMT | `epochs-core/src/hamt` | nodes in the CAS, a root hash | `insert`, `remove`, `get`, `leaf_hash`, `entries`, `apply_ops` |
| Refs and HEAD | `epochs-core/src/repo/manifest.rs` | one file per branch, `HEAD`, the HEAD branch in memory | `init`, `open`, `write_branch`, `read_branch`, `delete_branch`, `set_head`, `list_branches` |
| DiskStore | `epochs-core/src/store` | the CAS, the repo, a commit cache, the fsync counter, a static timestamp counter | `init`, `open`, `commit`, branches, `set_fsync_every`, `flush`, `resolve_hash_ref`, `configure_caches` |
| Commit and codec | `epochs-core/src/commit.rs`, `codec`, `hamt/node.rs` | a pool of encoders per thread | `encode`, `decode` of commits and nodes |
| Graph algorithms | `epochs-core/src/dag` | none | `is_ancestor`, `merge_base`, `ancestors_within_depth` |
| EpochQL engine | `epochql/src/exec` | none between statements | COMMIT, BRANCH, CHECKOUT, MERGE, DIFF, MATCH, TRAVERSE |
| Schema | `epochql/src/schema` | `schema.lock`, `schema.state`, index roots in commits | DDL and its parser, `migrate`, index maintenance |
| Lexer, parser | `epochql/src/lexer.rs`, `parser.rs` | position in the text, position in the tokens | text to statements |
| EPX server | `epochs-server/src` | one store behind a mutex | `hello`, `query`, `refs`, `get` |
| CLI | `epochs-cli/src` | none | the same calls, one per process |

The server (or the CLI) runs EpochQL scripts. A COMMIT reads HEAD, loads the
base commit, writes HAMT nodes and index tries through the CAS, stores the
commit, which flushes the CAS every `fsync_every` commits, and overwrites the
branch file. Nothing else synchronises the parts: what survives a crash depends
on the order of these writes and on which of them is buffered.

What is hard:

- **Buffering and ordering.** A record goes to a `BufWriter`, its index entry to
  the file at once, the branch file right after. Reads go to the cache, to a
  memory map or to a file that may lag behind its writer.
- **Crashes.** A kill loses the buffer and keeps the index entries; a power loss
  also loses what was not fsync'd; a call that writes several files is cut in
  two. Recovery is what `open` makes of the files: there is no log.
- **Failing I/O.** `?` leaves a function between two assignments that belong
  together.
- **Long legal sequences.** HAMT shapes after many inserts and removals;
  branches created, moved, checked out and deleted in any order.
- **Interleaving of clients.** Clients of a server share HEAD, and a script is
  not a transaction. Threads share the timestamp counter.
- **Conversions.** Lengths are cut to the width of their field; spans are counted
  in bytes and positions in characters; semicolons are optional and keywords may
  be names; values are stored as text and compared with typed literals.

What makes each part correct: the CAS returns what was put, and after a flush
also after a crash; a HAMT is the map its calls describe, and equal maps reached
by a call that changes nothing have the same root; HEAD is usable, branches keep
their history and name commits that can be read; the registry is what the applied
migrations describe and an index agrees with the document of its commit; a walk
over the graph returns what its definition says; a commit is loaded as it was
made and its timestamp is later than those before it; a source means the
statements it spells, and what a statement stored is found again; the server's
scripts are serial, its answers true and in order, and no client can keep another
one waiting.

## 2. Modules

| Module | Models | Used by |
|---|---|---|
| `LruMap` | the bounded cache, as operators | `CasStore`, `Commits` |
| `CasStore` | the CAS with crashes and failing I/O | `MCCasStore`, `CasStoreProofs` |
| `DurableStore` | what the CAS promises, in four variables | `CasStore` (refinement) |
| `CasStoreProofs` | theorems about `CasStore` with kills and power losses and with failing I/O calls; `CasStore` implements `DurableStore` | |
| `Hamt` | the HAMT against a plain map: insert, remove, get, leaf_hash | `HamtEntries`, `HamtProofs` |
| `HamtEntries` | `entries`, the walk over a whole HAMT | `MCHamt` |
| `HamtProofs` | theorems about `Hamt` | |
| `DiskStore` | refs, HEAD, commits, fsync policy, version statements | `MCDiskStore`, `DiskStoreProofs` |
| `DiskStoreProofs` | theorems about `DiskStore` | |
| `Timestamps` | `next_timestamp`, shared by threads | `Commits` |
| `Codec` | bytes of commits and HAMT nodes, encoder and decoder, as operators | `Commits` |
| `Commits` | commits and nodes into the stores of several threads and back | `MCCommits`, `CommitsProofs` |
| `CommitsProofs` | theorems about `Timestamps` and `Commits` | |
| `Schema` | migrations, registry, secondary indexes, the part of COMMIT that keeps them | `MCSchema`, `SchemaProofs` |
| `SchemaProofs` | theorems about `Schema` | |
| `DagQuery` | the walks behind TRAVERSE and MATCH | `MCDagQuery`, `DagQueryProofs` |
| `DagQueryProofs` | theorems about `DagQuery` | |
| `Lexer` | the tokenizer | `Parser`, `LexerProofs` |
| `LexerProofs` | theorem about `Lexer` | |
| `Parser` | the parser of scripts | `Ddl`, `Exec` |
| `Ddl` | the parser of migrations | `Language` |
| `Exec` | values, expressions, WHERE, SELECT, COMMIT, DIFF | `Language` |
| `Language` | source text to effects, `epochs commit --set`, and a printer as reference | `MCLanguage` |
| `Server` | connections, the mutex, scripts, answers, shutdown | `MCServer`, `ServerProofs` |
| `ServerProofs` | theorems about `Server` | |

### CasStore

A file is its length, its fsync'd length and the set of complete records with
their byte offsets: offsets, buffer spills (`SegsAfterWrite`), rotation at
`SEGMENT_MAX_BYTES` and the location in an index entry are all in bytes, as in
the code. A payload, its hash and its record are one value, so a read can return
the wrong object and the model sees it (`DecodeAt` accepts any intact record that
starts at the entry's offset, as `decode_record` does).

| Action | Code |
|---|---|
| `Open` | `CasStore::open`, `Index::open`, `find_latest_segment`, `open_or_create_segment` |
| `PutDedup`, `PutInPlace`, `PutRotating`, `PutOverflow` | `CasStore::put` by its branches, `ensure_segment_capacity`, `rotate_segment`, `Index::insert` |
| `GetHit`, `GetMiss` | `get_payload`, `read_record_bytes`, `ensure_mmap` |
| `Flush`, `Drop` | `CasStore::flush`, `Drop for CasStore` |
| `ConfigureCaches` | `set_object_cache_cap`, `set_mmap_cap` |
| `Kill`, `KillBeforeInsert`, `KillAfterRotate` | the process dies between two calls, or inside `put` |
| `PowerLoss` | bytes that were not fsync'd are cut from the end of each file, of the index between two entries |
| `PutInsertFails`, `PutRotateFails`, `FlushSyncFails` | an I/O call returns an error and the process goes on |

Three specifications share these actions: `CleanSpec` (no crash, no error),
`CrashSpec` (kills and power losses that leave whole index entries and segment
headers) and `IoErrorSpec`. `pending`, `wrote`,
`promised` and `durable` record what callers were told; no action reads them.

`DurableStore` is the abstract specification. Its state is whether the store is
open, the objects it answers for (`good`), the objects written since the last
flush and those flushed. While the store is open nothing leaves `good`; `Open`
may bring back more than was flushed but never less. `CasStore` implements it
under `CrashSpec` with `open <- up` and `good <- Good`, the objects that are in
the index and that `get` returns as themselves (`ImplementsDurableStore`). A `put`
that finds its object known, every read, a reconfiguration and a rotation are
stuttering steps or a `Store`; a kill and a power loss are `Crash`.

### Hamt

A node is a record and stands for its hash; the 5-bit chunks of a key's hash are a
sequence. The four recursive functions of `tree.rs` that take a key
(`insert_internal`, `remove_internal`, `get_internal`, `leaf_hash_internal`) make
one call to themselves, for the child at the key's chunk, so each goes down one path
and, if it writes, copies that path on the way back. The model says this directly:
`NodeAt` is the node at a depth of the path, `Depth` and `PathEnd` its end,
`InsertHere` and `RemoveInternal` say what becomes of the end, and `CopyPath` puts it
back under the copied nodes, dropping those left without children (`WithChild`). In
this form nothing is recursive over trees, and the proofs argue about depths.
`ExpandLeafCollision` is the call chain of `expand_leaf_collision`, which goes on for
larger depths until the chunks differ (`SplitDepth`) and returns the node built
there. An insert for which no later chunk differs would call itself for ever; it does
not return, so it is not a step (`InsertReturns`; in the instance of the runs every
insert returns). `Entries`, in `HamtEntries`, is recursive as `collect_entries` is.

The state is one root, beside the map the calls should have built and whether an
insert met another key's leaf with an equal chunk.

### DiskStore

Calls run one at a time, but their file writes are separate steps: `op` holds the
call in progress, and a kill can come between any two steps. `fs::write` is two
steps (truncate, write). Commits are numbered in creation order; a root stands for
its whole tree, and a commit has one for its documents and one for its index tries.
The CAS is reduced to what `CasStore` says of it: entries reach the file at once,
records wait in a buffer, a flush makes both durable. An entry whose record was lost
stays an entry: `put` takes the object for stored (`Put`), a new tree that shares
nodes with a lost one is not written whole (`PutOnLost`), and `get` returns an error
or whatever record has come to lie at the offset (`Gets`), since no hash is compared.
So COMMIT after a crash can publish documents that are not whole, as in the code:
documents are read back before the commit is made (`ReadsTree`), index tries are not.
Each commit records whether its trees were whole when it was made.

| Action | Code |
|---|---|
| `Open`, `InitStart`, `InitHead`, `InitGenesis` | `open_or_init`, `DiskStore::open`/`init`, `Repo::init`, `write_genesis` |
| `ExecCommit`, `UpdateIndexes` | `exec_commit` up to the new documents; `update_indexes_for_commit` and the check of the parents |
| `CmdCommit` | `epochs commit` without `--set` up to the commit |
| `PersistCommit`, `FlushCommit` | `persist_commit`: the put, and the flush every `fsync_every` commits |
| `CreateBranch`, `DeleteBranch`, `CheckoutBranch`, `Merge` | the EpochQL statements and the `DiskStore` and `Repo` calls below them |
| `RefTruncate`, `RefWrite`, `HeadTruncate`, `HeadWrite` | `write_branch`, `set_head` |
| `SetFsyncEvery`, `Flush`, `Close` | `set_fsync_every`, `flush`, drop |
| `Kill`, `PowerLoss` | the process dies; ref files and HEAD, which are never fsync'd, then hold something they once held, or nothing |

A call that fails before it changes anything is a stuttering step.

### Timestamps, Codec and Commits

`FetchAdd`, `ReadClock` and `StoreNext` are the three atomic steps of
`next_timestamp`; `issued` records what was returned and, for each call, how many
calls had returned when it began. The clock may be set back between two steps.

`Codec` writes and reads payloads byte by byte. A byte has `Base` values, so with
a small `Base` the fields that count parents (one byte), messages and index roots
(two bytes) overflow with short inputs: `WriteU` truncates as `as u8` does.
`DecodePayload` reads both versions of a commit, fails where a `?` returns and
ignores what is left. `EncodePayloadV1` is the format of an old version, as the
decoder expects it.

In `Commits` every thread has a repository of its own; a payload is given any
hash that is free, and the same hash ever after. `CommitWithRoot`,
`NextTimestamp` and `CommitStamped` are `commit_with_root` around the steps of the
timestamp, `CommitWithIndexes` takes the clock itself. `PersistCommit` caches the
commit it was given, `GetCommit` what it decoded, as the code does. The fsync
policy of `persist_commit` is the subject of `DiskStore`.

### Schema

A migration file is its sequence of statements, or one that does not parse.
`Migrate` is `migrate` up to its first write; the writes of `schema.lock` and
`schema.state` follow as steps of their own (`LockTruncate` to `StateWrite`), with
`Kill` between them. `ToStateFile` and `Load` are the two directions of the
registry's format, line by line. They are not inverses: `to_state_file` writes names
and paths as they are, and `parse` splits a line at white space. `Words` gives the
words of each name and path: a COLLECTION is read back under its first word, a KEY or
an INDEX of several words makes the file unloadable (`Accepts`, `Loads`), and an INDEX
goes to the part of its collection's name before the first dot (`Base`). While
`schema.state` does not load, `Migrate` and COMMIT fail. `ExecCommit` loads the registry anew and runs
`UpdateIndexes` on the roots of the base commit, which may be any commit;
`CmdCommit` is `epochs commit` without `--set`, which writes no index roots. A
document is a flat map from paths to stored bytes, a trie the map it stands for.

### DagQuery

A behaviour picks a graph, the branch tips, one walk and its arguments; every
turn of the walk's loop is a step. `queue`, `visited` and `found` are the local
variables of the Rust function. `CollectStep`, `MergeBaseStep`,
`WithinDepthStep`, `ShortestPathStep` and `ExpandEdgeStep` follow their functions;
`MatchStep` extends the bindings by one edge and takes the ends of that edge from
the definition that `expand_edge` is checked against. Orders that come from a
`HashSet` are a choice. The properties asked of a node are the set of commits
that have them.

### Lexer, Parser, Ddl, Exec and Language

A source is a sequence of symbols: characters, or runs of letters that no rule
looks into, which have several bytes and one position. One turn of the loop of
`tokenize`, of `parse_script` or `parse_migration`, and of `Engine::execute` is a
step. A parser is an operator from the index of a token to a tree and the index
of the next token, one per function of `parser.rs` and `ddl.rs` and with the same
lookahead; `Then` is the `?` of the code. Keywords that stand for names are cut
out of the source by their byte span, as in `expect_ident_or_keyword_as_ident`.

`Exec` has the values: `ToStorageBytes` and `FromBytes` make texts of them,
`ValuesEq` compares them with the rules for numbers and short hashes, `EvalExpr`,
`BindsNode`, `ExecMatch` and `ExecContext` filter and project, `Leaves` flattens a
payload, `DiffLines` compares two documents. It knows one branch for HEAD, and
patterns of one node: the other statements and longer patterns are in `DiskStore`,
`Server` and `DagQuery`.

`Language` adds `CommitScript`, the script that `epochs commit --set` builds, and
the reference: a printer (`Words`, `Spell`, `Script`) that writes a statement with
as few parentheses, semicolons and blanks as LANGUAGE.md allows, or with all of
them. Each job is a source with the statements it was printed from. These modules go
down to symbols where the others do not go into their data, because spans in bytes,
escapes, comments, numbers next to dots and keywords cut out of the source by their
span are what `SpansTileSource`, `CommitIsVerbatim` and `SourceMeansItsStatements` are
about.

### Server

A connection is a task with a program counter (`conn`): it reads a frame, waits
for the mutex (`queue`, `holder`), executes statement by statement (`Statement`),
drops the guard and writes the answer into a socket with room for one. `store` is
HEAD, the tips and the commits; `Exec` is `execute_statement` on them. An answer is
an id, ok and, of a script that succeeded, its results; an error holds a text, and
nothing in it says which statement failed (`Err`). To a client that is gone a frame
may be written without an error and lost, or the write fails and the connection ends
(`WriteFrame`).

| Action | Code |
|---|---|
| `Accept` | `serve_listener` |
| `ReadFrame`, `ReadEof` | `read_frame`, `from_slice`, `dispatch` up to the lock |
| `Acquire` | `state.store.lock().await` (tokio's mutex is first come, first served) |
| `Statement` | `run_query`, `Engine::execute` |
| `ListBranches`, `ReadTips`, `GetObject` | `list_branch_tips`, `get_cas_object` |
| `WriteFrame` | `write_frame` |
| `Receive`, `Leave` | the client reads an answer, or goes |
| `Shutdown` | `shutdown_signal`: tasks are dropped where they wait, a script in progress runs to its next await |

## 3. Runs

| Run | Shows |
|---|---|
| `cas_io` | What was put reads back as itself through buffering, spills, rotation, eviction, maps and reopening; every entry leads to its own object; only sealed segments are mapped and they never change; caches stay within bounds. One I/O call may fail: it never damages an object that is readable. Segment ids run out in this instance. |
| `cas_crash` | The CAS implements `DurableStore` through two kills or power losses: an object whose `put` wrote a record is readable while the store is open and after every crash once flushed. |
| `hamt_map` | Lookups and `entries` return the map the calls built, as long as no two keys meet at a leaf with an equal chunk; a call that leaves the map alone leaves the root alone; on the path of a key `children[idx]` is always in range. |
| `disk` | A kill at any step, or a power loss, with a default branch other than `main`, nested names (`feature`, `feature/x`) and two trees for documents and indexes: HEAD never names a missing branch; COMMIT keeps the history of its branch, and so does MERGE unless its walk meets a lost record; a kill leaves at most the ref it was writing without a hash; without a crash HEAD is usable between calls; as long as every commit was fsync'd, each commit that a ref leads to is found by its hash, and its documents and index tries are whole if they were when it was made, as they always are before the first crash. |
| `commits` | What fits its fields is loaded as it was made, from the cache and from the record, in both versions; a node is never loaded as a commit; timestamps grow whichever thread comes first; a hash prefix that named an object never names another. |
| `schema_index` | Migrations applied in any order, taken back, failing half way, with a dotted name and a name of two words: no file is applied twice, and while the applied files have plain names `schema.state` loads as what they describe. Whatever commits a commit descends from and whenever its indexes were created, dropped and created again, a lookup returns the key of its document exactly for the value it has. |
| `query_walks` | On every history of four commits: ancestors, ancestors within a depth in order of distance, shortest paths, ends of hop ranges and MATCH bindings are what their definitions say, and every walk ends. |
| `language` | Every text of up to four characters out of those the lexer tells apart is tiled by its tokens. Scripts and migrations are read as the statements they were printed from, every kind of statement behind every other, and every keyword as the name of a branch, a variable and a label; behind BRANCH and TAG in a target every keyword is refused. All loops end. The arguments of `epochs commit` are stored to the character. What a COMMIT put is found by a filter, MATCH and USE agree, and DIFF lists exactly what changed. |
| `server` | No other client's statement comes between two of a script; an answer ok names exactly the commits that were made, and after an error exactly the COMMITs before some statement were; answers are in order; `refs` never fails; every request is handled, whatever other clients do. |

and three that find what the code does against what it says (see 5):
`cas_kill_alias`, `hamt_collision`, `schema_kill`.

**Bounds.** CAS: three or four objects of two lengths; a segment holds its header
and two short records or a long one, the buffer one short record, and a long
record bypasses it, so spills, bypasses, rotations, three segments and the end of
the ids all happen; capacities are below the number of objects and segments. Two
crashes are needed for a crash to hit what the recovery from another left behind.
HAMT: four keys that share no chunk, the first, or the first two, three levels,
two values. DiskStore: `BoundedSpec` has two parts. For refs and HEAD: one tree,
kills, and either nested names or a third commit, which allows a fork, a fast-forward
and a second parent. For durability: two trees, so that documents and index tries
differ and a new tree can share nodes with a lost one, two commits and two branches,
power losses, and kills also in batches of fsync. One crash, after which calls go on. Commits: four values to a byte, so that 3 parents and 15 bytes of
message fit and 4 and 16 do not; four hashes, two pairs of which share their first
byte; a commit cache of one entry; three calls in two threads, the fewest in which
one call is overtaken by another that began later. Language: texts of four
characters reach every pair of lookahead behind another token; expressions of
three levels over all operators decide precedence and associativity; pairs of
statements decide where a statement ends; values of three characters hold an
escaped quote behind a backslash; `MaxInt` and `MaxU32` are 30 and 20, with
numbers on both sides. Schema: four files with plain names create, drop and recreate an
index, use a composite key and depend on one another; two paths and two values, so
that a value changes, returns and is shared; three commits after that of `init`, so
that an index is missed by one commit and needed two later. Four more files have a
dotted collection, a collection `box 2` that is read back as `box`, an index on it that
makes `schema.state` unloadable, and a syntax error; with them behaviours are shorter
(`Bound`). DagQuery: four commits with up to two
parents, in any order and repeated, are all shapes in which a commit is met at two
distances; `MaxHops` (64 in the code) is 2, below the longest path. Server: two
connections, one of them with two frames in its pipeline, five scripts that move,
delete and merge the branches the other one uses, and the other requests.
`MaxCalls`, `MaxObjects`, `MaxCommits`, `MaxCrashes`, `MaxIoErrors`, `MaxKills` bound the behaviours and are
in the guards.

**Deadlock** is checked except in `query_walks`, where a walk ends, and `server`,
where clients may have nothing more to ask.

**Fairness.** `query_walks`: weak fairness of the loop, which nothing interrupts.
`server`: weak fairness of every task's own steps (`Work`), since tokio polls each
task that is ready and its mutex serves waiters in order. Nothing is assumed of
clients: `Receive` and `WriteFrame`, which may wait for a client for ever, have no
fairness, nor has `Shutdown`. `language` states no fairness: that every source gets
an answer is `EndsInTime`, a bound on the turns of the loops, together with the
deadlock check (there is always a next turn until the answer is given). The other
parts are sequential calls, and no liveness is stated of them.

## 4. Proofs

`CasStoreProofs` proves, from `CasAssumption` alone (positive record, header and
buffer lengths; natural numbers elsewhere), for every set of objects, every
segment, buffer and cache size and any number of crashes:

- `TypeCorrect`: `CrashSpec => []TypeOK`;
- `CrashInvariant`: `CrashSpec => []CrashInv`;
- `Durability`: `CrashSpec => []DurableReadable`.

`DurableReadable` is not inductive: it speaks of what `get` returns, and says
nothing of the buffer, of closed stores or of what a crash may cut off.
`CrashInv` adds:

- `Shape`: records lie inside their file and do not share offsets; the writer's
  offset is the file's length plus the buffer; no segment lies behind the current
  one; `index.epi` has one whole entry for an object, and the index in memory is
  what a reopen would load. Without the offset equation a new record could be
  indexed at bytes that belong to another.
- `DurableOnDisk`: a flushed object has a fsync'd entry that leads to a record in
  the fsync'd part of its file, so no cut can remove either.
- `WroteLocated`: an object written since the last flush has an entry that leads
  to its record in the file or the buffer, and either both are fsync'd (a rotation
  flushed them) or the store is dirty and the next flush will do it. This is what
  makes a flush establish `DurableOnDisk`.
- `CacheTrue`: the cache is right about these objects. (About others it may be
  wrong, see `cas_kill_alias`; the invariant must not claim more.)

The proof has a lemma for each operator on files and on the cache, and one lemma
per action and conjunct. The candidates were checked as invariants by TLC before
they were proved.

`CommitsProofs` first proves of `Timestamps`, from `ClockAssumption` (the clock shows more
milliseconds than calls are made), for any set of threads and any number of calls:

- `TimestampInvariant`: `TsSpec => []TsInv`;
- `TimestampsMonotonic`: `TsSpec => []TimestampsGrow`.

`TimestampsGrow` compares timestamps that were given and says nothing of the
counter, so it is not inductive. `CounterInv` adds that the counter is above
every timestamp. `RaceInv` describes the one exception to a growing counter, the
first call, which found 0 and will set the counter to the clock: there is at most
one such call, it began before any call returned, and until it is done the counter
is one more than the number of calls that returned. The counter is therefore still
below the clock when it is set, and setting it never takes it back.

`CasStoreProofs` then proves, again from `CasAssumption`, for every behaviour in
which any number of I/O calls may fail:

- `IoInvariant`: `IoErrorSpec => []IoInv`;
- `IoTypeCorrect`, `AckedObjectsReadable`, `EntriesAlwaysResolve`,
  `MapsStaySealed`: `IoErrorSpec => []P` for `TypeOK`, `AckedReadable`,
  `EntriesResolve` and `MapsSealedAndBounded`;
- `SealedNeverChange` and `GoodEntriesKept`: the action properties
  `SealedImmutable` and `GoodEntriesStayGood`.

A failed rotation leaves `current_file` a segment before the current one, so the
`Shape` of the crash invariant does not survive it. `IoShape` is what does: every
file is well formed, the buffer continues the file it belongs to, no file lies
behind the current segment and only segments before it are mapped. While no call
has failed `CleanInv` holds besides: every entry of `index.epi` leads to its
object, the cache is exact and what was acknowledged has an entry.
`GoodEntriesKept` follows from `IoShape`: a call only adds bytes, and what reads see
of a segment (`SegView`) only grows.

`CasStoreProofs` also proves `StoreImplementsDurableStore`:
`CrashSpec => ImplementsDurableStore`, from `RefInvariant`: `CrashSpec => []RefInv`.
`RefInv` is `CrashInv`, `EntryLengths` (an entry has the length of its object's
record) and `CacheCoherent` (a cached payload is what a read would return, even
the wrong one after a kill). With the cache out of the way the objects that the
store answers for depend on entries and records only, and each action is shown to
be a step of `DurableStore` or a stutter: no object becomes readable but the one
that is put (a new record has the offset of no other), none becomes unreadable
while the store is open, and after a crash `Open` finds what was flushed.

`DiskStoreProofs` proves, from `DiskAssumption`, for any branch names and nesting,
any number of commits, roots and crashes:

- `DiskInvariant`: `CrashSpec => []DiskInv`;
- `DiskTypeCorrect`, `HeadStaysUsable`, `PublishingKeepsHistory`, `HeadExists`,
  `RefsStayReadable`, `TornRefsCounted`: `CrashSpec => []P` for `TypeOK`,
  `HeadUsable`, `PublishKeepsHistory`, `HeadNeverDangles`, `RefsReadable` and
  `RefsTornByKills`.

`DiskInv` adds to the properties: `History` (parents are older than their
children, so the walk is what its recursive definition says; everything a ref ever
held is known), `StoreInStep` (before the first crash every entry has its record
and every commit its trees), `OpInStep` (what each step of a call may rely on: the ref exists
before HEAD is written, the object is in the index before the ref is),
`HeadInStep` (HEAD in memory is HEAD on disk but while it is being written) and
`SolidRefs` (what a ref was given, or is about to be given, is on disk with its
whole history and with the trees that were whole when their commit was made). The
last is the point of `RefsReadable`: a power
loss may bring back any older content of a ref file, so the invariant must hold of
everything a ref ever held, not of what it holds.

`CommitsProofs` proves, from `ClockAssumption`, `CodecAssumption` and
`CommitsAssumption` (arguments of the types of the code, and a clock whose
milliseconds fit a `u64`):

- `CommitTimestampsGrow`, since a step of the stores is a step of `next_timestamp`
  or leaves it alone (with `TimestampsMonotonic`);
- `PrefixesStayStable`, the action property `PrefixesAreStable`, since nothing leaves
  a store (`StoresInv`);
- `CommitRoundTrip`: a commit that fits its length fields is decoded as it was
  encoded, for any number of values of a byte and any length of a hash;
- `RecordsLoadAsMade`: `TypesApart` implies `Spec => []LoadsAsMade`.

The loops of the codec (bytes of a number, parts of a buffer, hashes, index roots)
are recursive functions, and what they compute is proved by induction along their
runs. `At(buf, pos, s)` says that bytes lie at a place of a buffer; a concatenation
lies where its parts lie one behind the other (`AtConcat`), and a decoder at the
place of something written reads it and stops behind it (`ReadSliceOK`, `ReadUOK`,
`ReadTextOK`, `ReadHashesOK`, `ReadIndexRootsOK`). A field is read as it was written
because `FitsU` says that nothing was cut off (`FromLeOfWriteU`), and the map of index
roots is rebuilt whatever the order of its keys, once a finite set of keys is known to
have one order that is sorted (`SortedKeysFacts`).

`LoadInv` then says of every record that it has the bytes of what was made under its
hash and the type it was made with (`RecordsInv`), of every entry of the commit cache
that it is the commit that was made, if that fits (`CacheInv`: the cache holds the
commit and not what its bytes decode to, and the two differ when it does not fit), and
of every call under way what it was called with (`ArgsInv`). The hypothesis
`TypesApart` (no node has the bytes of a commit that can be made, or of a node of the
other type) cannot be dropped: `put` hashes the payload alone, and a payload that is
there already keeps its first type. The instance of `commits` satisfies it; `MCCommits`
has TLC evaluate it.

`ServerProofs` proves, from `ServerAssumption` (a finite set of branch names, frames
of the kinds that `dispatch` knows), for any number of clients, frames and
statements:

- `ServerInvariant`: `Spec => []ServerInv`;
- `ServerTypeCorrect`, `AnswersComeInOrder`, `ScriptsRunSerially`,
  `AnswersAreTrue`, `RefsNeverFails`: `Spec => []P` for `TypeOK`, `AnswersInOrder`,
  `ScriptsAreSerial`, `AnswersTellTheTruth` and `RefsAlwaysAnswer`.

`ServerInv` ties the tasks to the mutex (`Mutex`), the number of answers to the
number of frames read (`InStep`), every commit to a frame that was read (`TagsOK`)
and the script in progress to the store: its commits are the last ones, its results
name them, and HEAD is at the last one if the last statement was a COMMIT
(`ScriptInStep`). A task that holds the guard is the only one that changes the
store, so what another task relies on is not disturbed.

`DagQueryProofs` proves, from `DagAssumption` and `HopAssumption` (parents are older
than their children; hop bounds are numbers), for every history, every set of tips,
depth, edge and pattern:

- `WalksInvariant`: `Spec => []DagInv`;
- `AncestorWalks`, `ShortestPaths`, `EdgeExpansion`, `Matches`: `Spec => []P` for
  `AncestorWalksAreExact`, `ShortestPathIsShortest`, `EdgeEndsAreExact` and
  `MatchIsExact`;
- `MergeBase`: `Spec => []MergeBaseIsCommon`, what `merge_base` computes, which is less
  than its comment says (section 5).

The properties speak of a walk that has ended, `DagInv` also of one that runs.
`merge_base`, `ancestors_within_depth` and `shortest_commit_path` share `Bfs`: the
queue is in the order of the distances, which span two values at most; each queued
commit is at the distance that the queue says; every commit nearer than the front
has been seen; what was seen is queued, has had its successors seen or is beyond the
limit. `BfsStart`, `BfsStep` and `BfsEnd` are proved once, of the sequences of
commits and of distances that each queue stands for. `expand_edge` may meet a commit
at several depths, so its invariant (`ExpandEdgeLoop`) is about pairs of a commit
and a depth; `MatchLoop` says that after k edges the bindings are exactly the
assignments to the first k + 1 variables under which these edges hold.

What a walk of d steps reaches is defined by recursion on d (`Walk`), as is what a
loop over parents queues (`New`). Such functions are within reach: from the least
member of a set of numbers (`LeastNumber`) follow induction, stated for sets of
numbers (`Induction`), and that a recursion defines its function (`Recursion`).

`SchemaProofs` proves, from `SchemaAssumption` (the types of the constants; `None`
is no value), for any collections, paths, values, migration files and numbers of
commits, without kills:

- `MigrationsInvariant`: `Spec => []MigrationInv`;
- `StateFollowsLock`: `Spec => []StateMatchesLock`;
- `LookupsExact`: `Spec => []IndexesExact`, if no two indexes that migrations create
  have one name (`DistinctNames`) and no collection has a name of several words
  (`Whole`).

`StateMatchesLock` itself says of which migrations it speaks: those whose applied
files are plain (`PlainFile`), since of others it is false: section 5 says what dots
and blanks do. The hypotheses of `LookupsExact` are about the repository's migrations,
not about its behaviour: section 5 says what shared slugs do. The instance of
`schema_index` has a name of two words, of which TLC finds the same.

Every loop of the code (`to_state_file`, `parse`, `apply_statements`, `migrate`,
`update_indexes_for_commit`) is a recursive function, and the sequence of its
intermediate results is its run; what is said of a loop is proved by induction along
the run. Two facts carry `StateFollowsLock`. What `to_state_file` writes of a registry
with plain names `parse` accepts and reads back, with keys and indexes in their order
(`RoundTrip`, `ReadBack`); and applying one
list of files after another is applying both in a row (`ApplyFilesConcat`), so the
pending files of a migration extend what the lock describes. `StateMatchesLock` says
nothing while a migration writes; `MigrationInv` follows the lock and the registry
that will be there when it is done (`LockNow`, `RegistryNow`) through the four writes.
Of a file with other names it says only that the registry is well formed if the file
loads (`FilesOK`), which is all that `LookupsExact` needs.

`IndexesExact` speaks of the indexes of the schema a commit was made under. That is
not inductive: an index may be dropped and created again, and the root a commit keeps
of it must still be right. `CommitsOK` says of every root of every commit, whatever
the schema was, that it has the one entry of its document under the keys of the
registry now. Keys are never changed and collections never removed (`KeysKept`), and
a root is right or wrong by the keys of one collection, so a migration disturbs
nothing; and a COMMIT, index by index, makes each root right for the new document and
leaves the others right for the old or the new one (`Mixed`, `Advance`).

`HamtProofs` proves, from `HamtAssumption` (chunks are natural numbers, every key has
at least one, `NoVal` is not a value), for any set of keys, any hash function and any
width of a node:

- `ReadsAreTheMap`: `Spec => []ReadsMatchMap`;
- `NoChangeNoNewRoot`: `Spec => SameMapSameRoot`.

`ReadsMatchMap` speaks of `Get` and of the number of children, and that is not enough
for the next step: `CopyPath` looks at the order of the children and at whether they
are there at all. `HamtInv` says that the path of every key ends (`Ends`), through
nodes whose children are a sequence of nodes, one for each bit (`NodeOK`), and, unless
an insert met another key's leaf with an equal chunk, at what the map has for the key
(`Reads`). The argument is about one node at a time. `Becomes(n, u, k, w, b, d)` says
that with `u` in the place of `n` at depth `d` every path still ends, and, if `b`, that
`k` reads `w` and every other key reads what it did. It holds of the end of the path,
for each kind of node an insert or a remove can meet there, it is kept when the node
above is copied (a child replaced, added or taken out leaves the children of the other
branches where their bits say, `Rebuilt`), and so it holds of the root, by induction
on the depth. A call that changes nothing puts the same node back at the end, and
copying the path then gives the nodes it was copied from (`CopiedSame`).

`LexerProofs` proves, from `LexerAssumption` (a symbol in `Width` has more than one
byte; what `peek` finds at the end is no letter), for any letters, any widths of
symbols and a source of any length:

- `TokensTileSource`: `LexSpec => []SpansTileSource`.

`LexSpec` is the tokenizer alone, on any source; the run `language` checks the same
property with the parser and the engine behind it, which leave the tokens as they
are. `SpansTileSource` speaks of bytes and of the last two tokens, and a step could
start anywhere. `LexInv` says that the last token lies between two positions of the
source, that blanks and comments alone lie between it and the one before, and that it
ends where the lexer stands (`LastToken`). Byte offsets grow from each position to the
next (`OffsetsGrow`), because every symbol has a byte; so a byte span leads back to
its positions, and `Slice` cuts out what was read. `Skip` and `LexString` refer to
their own values at later positions only, and what they compute is proved by induction on the
distance to the end of the source.

The inductive invariants, `LexInv` excepted, were checked by TLC on the instances of
the runs before they were proved.

Only model-checked: `EntriesMatchMap` of `HamtEntries`, and everything about
`Parser`, `Ddl`, `Exec` and `Language`, whose operators are recursive over trees; and the liveness properties `Terminates` and `EveryRequestIsHandled`.

## 5. Findings

- `cas_kill_alias`: after a kill the index may hold an entry whose record was lost
  with the buffer. The bytes it names can be given to another object of the same
  length; `get`, documented to verify, returns that object's payload.
- `hamt_collision`: `expand_leaf_collision` drops the node of the current depth
  when two keys have an equal chunk there; neither key is found afterwards.
- `schema_kill`: `migrate` writes `schema.lock` before `schema.state`. A kill in
  between marks migrations as applied that are not in the registry, and every
  later `migrate` skips them.

Observations made while modelling, without a run:

- CAS: a `put` of an object whose entry survived a kill without its record is taken
  for a duplicate; it is acknowledged, and a flush makes nothing durable, although
  `store.rs:109` promises it. A power loss inside a 44-byte index entry leaves its rest in the file and later entries are read out of
  step. A `put` that fails in `Index::insert` leaves `current_offset` behind the
  file, and the next object is indexed at the bytes of the failed one
  (`PutInsertFails`). A kill between the creation of a segment and its header
  leaves a store that cannot be opened.
- Refs: with `fsync_every` above 1 the branch file is ahead of the buffer, and a
  kill (not only a power loss) leaves the branch at a commit that cannot be read.
  `set_head` accepts a directory (`feature` when only `feature/x` exists) and
  `list_branches` skips nested names (`RefExists`). Branches and second parents may
  be any object of the index (`Resolves`). A kill inside `init` leaves a repository
  without branches.
- Graph: `merge_base(a, b)` measures the distance from `b` only. With a commit
  `b = COMMIT ... PARENTS [r, a]` and `a` a child of `r` it returns `r`, although `a`
  itself is an ancestor of `b`; `algorithms.rs:9` and `ast.rs:144` speak of the nearest
  common ancestor of the two. What it does return is the theorem `MergeBase`. No run
  checks a property of it, so that nothing here passes for what the comments claim.
  ANCESTOR and DESCENDANT edges end silently after 64
  hops.
- Schema: `CREATE INDEX ON c PATH "a b" TYPE STRING` is within the grammar of
  MIGRATIONS.md and is applied, and `schema.state` then cannot be loaded by any later
  `migrate` or COMMIT. Two paths with one slug (`a.b` and `a_b`) share an index name, so only
  one of them can be created, and dropping one and creating the other keeps old
  entries. The indexes of a collection with a dot in its name are read back from
  `schema.state` as those of another collection, and a collection with a blank under
  its first word. `epochs commit` without `--set` drops the
  index roots. The parts of a composite key are joined by a byte that values may
  contain.
- Commits: a commit whose parents or message exceed their fields comes out of the
  cache as it was made and out of the record as something else, or as an error. The
  type of a record is not part of its hash. While the first call of
  `next_timestamp` is on its way to the clock, other threads get 1, 2, 3, where
  `commit.rs:29` speaks of milliseconds.
- Language: Bool, Float and Null literals never equal what was stored of them, a
  stored `false` is true in a filter, and `MATCH (n {a: 1})` never matches a number,
  because properties of a pattern are compared as values and stored ones are texts.
  `hash`, `message`, `timestamp` and `root_hamt` hide document keys of these names.
  Leaves of nested maps are stored as `a.b` and cannot be named by `n.a.b`. A
  document can hold `a` and `a.b`. Patterns separated by commas give the union of
  their rows; TRAVERSE behind MATCH is ignored. `PARENTS []` panics
  (`engine.rs:621`). `(a)--(b)` is a comment. `i64::MIN` cannot be written.
  `CREATE BRANCH path` parses and `CHECKOUT BRANCH path` does not: behind BRANCH and
  TAG in a target `parse_target_ref` refuses every keyword, where LANGUAGE.md:97 and
  `parser.rs:835` promise them as names (`SourceMeansItsStatements` has them all as
  refused). `--set` with a
  key that is no identifier does not parse.
- Server: HEAD belongs to all clients, so CHECKOUT and COMMIT in two requests can
  be separated by another client's CHECKOUT. An error answer does not say how many
  statements of its script stay done. A request whose answer was lost cannot
  be told from a new one. `USE BRANCH b` does not direct a later COMMIT to `b`, as
  the first example of `epochql/docs/LANGUAGE.md` suggests.

## 6. Limits

- Hashes do not collide, and commits have different hashes (they carry a
  timestamp).
- A power loss cuts the end of a file; it does not reorder or corrupt blocks.
  Directory entries are durable.
- One process uses a repository at a time. The code takes no lock on it.
- Migrations run while no COMMIT does; a COMMIT of a running server may otherwise
  read a truncated `schema.state`.
- The server's store does not fail; crashes are the subject of `DiskStore`.
- Liveness under fairness, `ENABLED` and what recursive operators and folds
  compute for every input stay with TLC. Induction over numbers, along the run of a
  loop, is used.
- Not modelled: the in-memory store (a map for tests); the benchmarks, which
  measure this store and others; error messages, column labels and the other
  formatting of answers; logging; `hashes` and `read_rest`, which nothing calls.
- In `DiskStore` a read through an entry without its record may return any record of
  the store, or fail; which ones the offset and the length allow is in `CasStore`.
- In `Schema` names have no white space at their ends and none of their words is
  PATH, TYPE or a type; names of migration files have no white space at their ends and
  do not begin with `#`, where `read_lock` would trim or skip them.
- Floats are compared exactly; `engine.rs:894` allows a difference of
  `f64::EPSILON`, which no two literals of the runs have.
- The blanks of `Lexer` are the four of ASCII that scripts have; `char::is_whitespace`
  knows more.
- `Exec` executes queries of one node, without TRAVERSE, and the statements COMMIT,
  CREATE BRANCH and DIFF.

## 7. Plan

All components that change state are modelled, and the safety properties of the
CAS, the refs, the server, the timestamps, the commits and their codec, the HAMT's
lookups, the graph walks, the migrations, the indexes and the tokenizer are proved.
What remains:

1. `HamtEntries`: that `entries` lists exactly the leaves lookups find needs an
   induction over trees.
2. `Parser` and `Exec`: the same for syntax trees and expressions.
