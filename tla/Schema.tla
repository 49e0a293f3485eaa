------------------------------- MODULE Schema -------------------------------
(***************************************************************************)
(* Collections, migrations and secondary indexes: epochql/src/schema, and   *)
(* the part of COMMIT that maintains them (epochql/src/exec/engine.rs).     *)
(*                                                                          *)
(* A migration file is the sequence of its statements.  Migrations run in a *)
(* process of their own, which rewrites schema.lock and schema.state one    *)
(* after the other; a COMMIT loads schema.state anew.  Documents are flat   *)
(* maps from paths to stored bytes, which is what COMMIT makes of nested    *)
(* payloads; a trie is the map it stands for.                               *)
(***************************************************************************)
EXTENDS Integers, Sequences, FiniteSets, SequencesExt, Functions

CONSTANTS
    CollSeq,     \* the collection names, sorted
    Base,        \* Base[c]: the part of the name c before its first dot
    Path,        \* field paths
    Slug,        \* Slug[p]: p with its dots replaced by underscores
    Words,       \* Words[x]: the words that white space divides the name or path x into
    Id,          \* the path "id"
    Val,         \* stored values
    Migration,   \* Migration[f]: the statements of the f-th file in name order
    MaxCommits,  \* bound on the commits of one behaviour
    MaxKills     \* bound on the kills of one behaviour

Coll == ToSet(CollSeq)
File == DOMAIN Migration

None  == "none"   \* no value
NoKey == <<>>     \* no primary key: a key has at least one field
NoFun == [x \in {} |-> None]

\* DdlStatement; a file that does not parse is garbage.
Statement ==
    [kind : {"collection"}, coll : Coll, key : Seq(Path)]
    \cup [kind : {"index", "drop"}, coll : Coll, path : Path]
    \cup [kind : {"garbage"}]

ASSUME SchemaAssumption ==
    /\ CollSeq \in Seq(Coll)
    /\ Base \in [Coll -> Coll]
    /\ DOMAIN Slug = Path
    /\ DOMAIN Words = Coll \cup Path
    /\ \A x \in Coll \cup Path : Len(Words[x]) = 1 => Words[x] = <<x>>
    /\ \A c \in Coll : Len(Words[c]) \in Nat /\ (Words[c] # <<>> => Words[c][1] \in Coll)
    /\ Id \in Path
    /\ None \notin Val
    /\ Migration \in Seq(Seq(Statement))
    /\ MaxCommits \in Nat /\ MaxKills \in Nat

VARIABLES
    files,    \* the files in migrations/
    lock,     \* schema.lock: the files applied, in the order of their lines
    state,    \* schema.state: its lines
    mig,      \* the migration that is running
    commits,  \* the commits, in the order they were created
    kills

vars == <<files, lock, state, mig, commits, kills>>

-----------------------------------------------------------------------------
(* The registry: a function from the collections there are to their primary   *)
(* keys and indexes                                                           *)

\* index_name_for
IndexName(c, p) == <<c, Slug[p]>>

Collection(key, indexes) == [key |-> key, indexes |-> indexes]
IndexDef(name, path)     == [name |-> name, path |-> path]

\* BTreeMap::insert and remove.
With(f, x, y) == [z \in DOMAIN f \cup {x} |-> IF z = x THEN y ELSE f[z]]
Without(f, x) == [z \in DOMAIN f \ {x} |-> f[z]]

\* Vec::retain: the elements of s that are in S, in their order.
Retain(s, S) ==
    LET kept[n \in 0..Len(s)] ==
            IF n = 0 THEN <<>>
            ELSE IF s[n] \in S THEN Append(kept[n - 1], s[n]) ELSE kept[n - 1]
    IN  kept[Len(s)]

\* SchemaRegistry::to_state_file
CollectionLines(c, reg) ==
    IF c \notin DOMAIN reg THEN <<>>
    ELSE <<[dir |-> "COLLECTION", name |-> c]>>
         \o [i \in DOMAIN reg[c].key |-> [dir |-> "KEY", path |-> reg[c].key[i]]]
         \o [i \in DOMAIN reg[c].indexes |->
                [dir |-> "INDEX", name |-> reg[c].indexes[i].name, path |-> reg[c].indexes[i].path]]

ToStateFile(reg) ==
    LET out[n \in 0..Len(CollSeq)] ==
            IF n = 0 THEN <<>> ELSE out[n - 1] \o CollectionLines(CollSeq[n], reg)
    IN  out[Len(CollSeq)]

\* parse takes the words of a line by their places: a COLLECTION is named by the
\* first word of its name, and a KEY or an INDEX whose name or path is not one
\* word has something else where its type, PATH or TYPE is looked for, which is
\* an error.  The name of an index is one word if its collection and its path are.
\* (Names begin and end with other than white space, and none of their words is
\* PATH, TYPE or a type.)
Accepts(line) ==
    CASE line.dir = "COLLECTION" -> Words[line.name] # <<>>
      [] line.dir = "KEY"        -> Len(Words[line.path]) = 1
      [] line.dir = "INDEX"      -> Len(Words[line.name[1]]) =< 1 /\ Len(Words[line.path]) = 1

\* Whether SchemaRegistry::load succeeds.
Loads(lines) == \A n \in DOMAIN lines : Accepts(lines[n])

\* One line of SchemaRegistry::parse, if it is accepted.  A KEY belongs to the
\* collection above it, an INDEX to the collection its name begins with, which is
\* made up if it is not there.
ParseLine(p, line) ==
    CASE line.dir = "COLLECTION" ->
            LET name == Words[line.name][1]
            IN  [reg |-> With(p.reg, name, Collection(<<>>, <<>>)), current |-> name]
      [] line.dir = "KEY" ->
            [p EXCEPT !.reg[p.current].key = Append(@, line.path)]
      [] line.dir = "INDEX" ->
            LET c   == Base[line.name[1]]
                old == IF c \in DOMAIN p.reg THEN p.reg[c] ELSE Collection(<<>>, <<>>)
            IN  [p EXCEPT !.reg = With(p.reg, c,
                    [old EXCEPT !.indexes = Append(@, IndexDef(line.name, line.path))])]

\* The loop of SchemaRegistry::parse, from p on.
Parse(p, lines) ==
    LET after[n \in 0..Len(lines)] == IF n = 0 THEN p ELSE ParseLine(after[n - 1], lines[n])
    IN  after[Len(lines)]

\* SchemaRegistry::load of a file that it accepts.
Load(lines) == Parse([reg |-> NoFun, current |-> None], lines).reg

AllIndexes(reg) == UNION {ToSet(reg[c].indexes) : c \in DOMAIN reg}

-----------------------------------------------------------------------------
(* migrate *)

Failed(s)   == [s EXCEPT !.ok = FALSE]
Put(s, c, r) == [s EXCEPT !.reg = With(s.reg, c, r)]

CreateCollection(s, st) ==
    IF st.coll \in DOMAIN s.reg THEN Failed(s) ELSE Put(s, st.coll, Collection(st.key, <<>>))

CreateIndex(s, st) ==
    LET name == IndexName(st.coll, st.path)
    IN  IF \/ st.coll \notin DOMAIN s.reg
           \/ \E i \in DOMAIN s.reg[st.coll].indexes : s.reg[st.coll].indexes[i].name = name
        THEN Failed(s)
        ELSE Put(s, st.coll, [s.reg[st.coll] EXCEPT !.indexes = Append(@, IndexDef(name, st.path))])

\* Removes by name or by path.
DropIndex(s, st) ==
    IF st.coll \notin DOMAIN s.reg THEN Failed(s)
    ELSE LET old  == s.reg[st.coll].indexes
             kept == Retain(old, {i \in ToSet(old) : /\ i.name # IndexName(st.coll, st.path)
                                                     /\ i.path # st.path})
         IN  IF Len(kept) = Len(old) THEN Failed(s)
             ELSE Put(s, st.coll, [s.reg[st.coll] EXCEPT !.indexes = kept])

\* apply_statements, one statement.
ApplyStatement(s, st) ==
    IF ~s.ok THEN s
    ELSE CASE st.kind = "collection" -> CreateCollection(s, st)
           [] st.kind = "index"      -> CreateIndex(s, st)
           [] st.kind = "drop"       -> DropIndex(s, st)
           [] st.kind = "garbage"    -> Failed(s)

\* The files in name order that schema.lock does not have.
PendingFiles(fs, lk) ==
    Retain([f \in File |-> f], fs \ ToSet(lk))

ApplyStatements(s, stmts) ==
    LET after[n \in 0..Len(stmts)] == IF n = 0 THEN s ELSE ApplyStatement(after[n - 1], stmts[n])
    IN  after[Len(stmts)]

ApplyFiles(reg, fs) ==
    LET after[n \in 0..Len(fs)] ==
            IF n = 0 THEN [ok |-> TRUE, reg |-> reg]
            ELSE ApplyStatements(after[n - 1], Migration[fs[n]])
    IN  after[Len(fs)]

Running(pc, lk, st) == [pc |-> pc, lock |-> lk, state |-> st]
Idle == Running("idle", <<>>, <<>>)

\* Mutant: schema.lock is given the new files only.
MigrateForgetting ==
    /\ mig = Idle /\ Loads(state)
    /\ LET new == PendingFiles(files, lock)
           res == ApplyFiles(Load(state), new)
       IN  /\ res.ok
           /\ mig' = Running("lock", new, ToStateFile(res.reg))
    /\ UNCHANGED <<files, lock, state, commits, kills>>

\* migrate up to the first write; a schema.state that does not load and a
\* statement that fails end it there.
Migrate ==
    /\ mig = Idle /\ Loads(state)
    /\ LET new == PendingFiles(files, lock)
           res == ApplyFiles(Load(state), new)
       IN  /\ res.ok
           /\ mig' = Running("lock", lock \o new, ToStateFile(res.reg))
    /\ UNCHANGED <<files, lock, state, commits, kills>>

\* write_lock, then SchemaRegistry::save: each truncates its file and writes it.
LockTruncate ==
    /\ mig.pc = "lock"
    /\ lock' = <<>>
    /\ mig' = [mig EXCEPT !.pc = "lockdata"]
    /\ UNCHANGED <<files, state, commits, kills>>

LockWrite ==
    /\ mig.pc = "lockdata"
    /\ lock' = mig.lock
    /\ mig' = [mig EXCEPT !.pc = "state"]
    /\ UNCHANGED <<files, state, commits, kills>>

StateTruncate ==
    /\ mig.pc = "state"
    /\ state' = <<>>
    /\ mig' = [mig EXCEPT !.pc = "statedata"]
    /\ UNCHANGED <<files, lock, commits, kills>>

StateWrite ==
    /\ mig.pc = "statedata"
    /\ state' = mig.state
    /\ mig' = Idle
    /\ UNCHANGED <<files, lock, commits, kills>>

\* The migrating process is killed.
Kill ==
    /\ mig # Idle /\ kills < MaxKills
    /\ mig' = Idle
    /\ kills' = kills + 1
    /\ UNCHANGED <<files, lock, state, commits>>

\* Users add files, in any order, and take back one that was not applied.
AddFile(f) ==
    /\ mig = Idle /\ f \notin files
    /\ files' = files \cup {f}
    /\ UNCHANGED <<lock, state, mig, commits, kills>>

RemoveFile(f) ==
    /\ mig = Idle /\ f \in files /\ f \notin ToSet(lock)
    /\ files' = files \ {f}
    /\ UNCHANGED <<lock, state, mig, commits, kills>>

-----------------------------------------------------------------------------
(* Indexes *)

\* extract_path of a flat document.
Extract(doc, p) == IF p \in DOMAIN doc THEN doc[p] ELSE None

\* primary_key_bytes: every key field, or "id" for a collection without a key.
PrimaryKey(c, doc) ==
    LET key == IF c.key = <<>> THEN <<Id>> ELSE c.key
    IN  IF \E i \in DOMAIN key : Extract(doc, key[i]) = None THEN NoKey
        ELSE [i \in DOMAIN key |-> Extract(doc, key[i])]

Trie(roots, name) == IF name \in DOMAIN roots THEN roots[name] ELSE NoFun

\* index_remove and what update_indexes_for_commit makes of its result: an empty
\* trie has no root.
RemoveEntry(roots, name, v) ==
    LET t == Without(Trie(roots, name), v)
    IN  IF DOMAIN t = {} THEN Without(roots, name) ELSE With(roots, name, t)

\* index_put
PutEntry(roots, name, v, pk) == With(roots, name, With(Trie(roots, name), v, pk))

\* Mutant: the entry of the old value stays.
UpdateWithoutRemoval(roots, idx, pk, old, new) ==
    IF pk # NoKey /\ Extract(new, idx.path) # None
    THEN PutEntry(roots, idx.name, Extract(new, idx.path), pk)
    ELSE roots

\* One index of update_indexes_for_commit.
UpdateIndex(roots, idx, pk, old, new) ==
    LET oldVal  == Extract(old, idx.path)
        newVal  == Extract(new, idx.path)
        removed == IF oldVal # None /\ pk # NoKey /\ oldVal # newVal
                   THEN RemoveEntry(roots, idx.name, oldVal)
                   ELSE roots
    IN  IF newVal # None /\ pk # NoKey THEN PutEntry(removed, idx.name, newVal, pk) ELSE removed

UpdateCollection(roots, c, old, new) ==
    LET pk == IF PrimaryKey(c, new) # NoKey THEN PrimaryKey(c, new) ELSE PrimaryKey(c, old)
        after[n \in 0..Len(c.indexes)] ==
            IF n = 0 THEN roots ELSE UpdateIndex(after[n - 1], c.indexes[n], pk, old, new)
    IN  after[Len(c.indexes)]

\* update_indexes_for_commit: without collections the roots are inherited as
\* they are; otherwise those of dropped indexes go.
UpdateIndexes(reg, old, new, roots) ==
    IF DOMAIN reg = {} THEN roots
    ELSE LET after[n \in 0..Len(CollSeq)] ==
                 IF n = 0 THEN roots
                 ELSE IF CollSeq[n] \in DOMAIN reg
                      THEN UpdateCollection(after[n - 1], reg[CollSeq[n]], old, new)
                      ELSE after[n - 1]
             updated == after[Len(CollSeq)]
             live    == {i.name : i \in AllIndexes(reg)}
         IN  Restrict(updated, DOMAIN updated \cap live)

\* lookup_index
LookupIndex(roots, idx, v) ==
    IF idx.name \in DOMAIN roots /\ v \in DOMAIN roots[idx.name] THEN roots[idx.name][v] ELSE NoKey

-----------------------------------------------------------------------------
(* COMMIT *)

CommitRec(doc, roots, reg, indexed) ==
    [doc |-> doc, roots |-> roots, reg |-> reg, indexed |-> indexed]

\* COMMIT with a payload on top of any commit: HEAD's, or the first of PARENTS.
\* It fails if schema.state does not load.
ExecCommit(b, payload) ==
    /\ mig = Idle /\ Loads(state) /\ Len(commits) < MaxCommits
    /\ LET base == commits[b]
           new  == [p \in DOMAIN base.doc \cup DOMAIN payload |->
                        IF p \in DOMAIN payload THEN payload[p] ELSE base.doc[p]]
           reg  == Load(state)
       IN  commits' = Append(commits,
               CommitRec(new, UpdateIndexes(reg, base.doc, new, base.roots), reg, TRUE))
    /\ UNCHANGED <<files, lock, state, mig, kills>>

\* `epochs commit` without --set: the documents of the parent, no index roots.
CmdCommit(b) ==
    /\ mig = Idle /\ Len(commits) < MaxCommits
    /\ commits' = Append(commits, CommitRec(commits[b].doc, NoFun, NoFun, FALSE))
    /\ UNCHANGED <<files, lock, state, mig, kills>>

Payloads == UNION {[ps -> Val] : ps \in (SUBSET Path) \ {{}}}

-----------------------------------------------------------------------------
Init ==
    /\ files = {} /\ lock = <<>> /\ state = <<>>
    /\ mig = Idle
    /\ commits = <<CommitRec(NoFun, NoFun, NoFun, FALSE)>>
    /\ kills = 0

Next ==
    \/ \E f \in File : AddFile(f) \/ RemoveFile(f)
    \/ Migrate \/ LockTruncate \/ LockWrite \/ StateTruncate \/ StateWrite
    \/ \E b \in DOMAIN commits : CmdCommit(b) \/ \E payload \in Payloads : ExecCommit(b, payload)

KillNext == Next \/ Kill

Spec     == Init /\ [][Next]_vars
KillSpec == Init /\ [][KillNext]_vars

-----------------------------------------------------------------------------
(* Properties *)

\* The names of the statement are read back from schema.state as they were
\* written: they are single words, and the collection of an index has no dot.
PlainStatement(st) ==
    /\ st.kind = "collection" =>
        Len(Words[st.coll]) = 1 /\ \A i \in DOMAIN st.key : Len(Words[st.key[i]]) = 1
    /\ st.kind = "index" => Base[st.coll] = st.coll /\ Len(Words[st.path]) = 1

PlainFile(f) == \A n \in DOMAIN Migration[f] : PlainStatement(Migration[f][n])

\* MIGRATIONS.md: schema.lock is the "applied migration filenames" and
\* schema.state the "generated registry".  Between migrations no file is in
\* schema.lock twice, and as long as the applied files are plain, schema.state
\* loads and the registry loaded from it is the one that the files of schema.lock
\* describe, applied in that order to an empty registry.
StateMatchesLock ==
    mig = Idle =>
        /\ IsInjective(lock)
        /\ (\A f \in ToSet(lock) : PlainFile(f)) =>
            Loads(state) /\ ApplyFiles(NoFun, lock) = [ok |-> TRUE, reg |-> Load(state)]

\* "Diffs old vs new document maps ... and writes updated index_roots": a lookup
\* in a commit made by COMMIT returns the primary key of its document exactly for
\* the value the document has, in every index of the schema the commit was made
\* under, and there are no roots of other indexes.  This holds whatever commits,
\* with or without indexes, it descends from and whenever its indexes were
\* created, dropped or created again.
IndexesExact ==
    \A i \in DOMAIN commits : commits[i].indexed =>
        LET c == commits[i]
        IN  /\ DOMAIN c.roots \subseteq {x.name : x \in AllIndexes(c.reg)}
            /\ \A coll \in DOMAIN c.reg : \A x \in ToSet(c.reg[coll].indexes) : \A v \in Val :
                LookupIndex(c.roots, x, v) =
                    IF Extract(c.doc, x.path) = v THEN PrimaryKey(c.reg[coll], c.doc) ELSE NoKey
=============================================================================
