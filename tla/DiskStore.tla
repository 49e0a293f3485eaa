------------------------------ MODULE DiskStore ------------------------------
(***************************************************************************)
(* A repository on disk, as DiskStore (epochs-core/src/store/disk.rs), Repo *)
(* (epochs-core/src/repo/manifest.rs) and the version statements of EpochQL *)
(* (epochql/src/exec/engine.rs) drive it: branch files under refs/heads, the*)
(* HEAD file, commits in the content-addressed store, and the fsync policy. *)
(*                                                                          *)
(* One call runs at a time (the server holds a mutex around a script, the   *)
(* CLI is one process), but a call writes several files, and the process    *)
(* may be killed between two writes: a call that changes a ref is a         *)
(* sequence of steps, and op says which one is next.                        *)
(*                                                                          *)
(* The store below is the one of CasStore, seen through what its crash runs *)
(* show: index entries reach the file at once, records wait in a buffer, a  *)
(* flush makes both durable, and an entry whose record was lost is still an *)
(* entry: put takes the object for stored, and get returns whatever record  *)
(* lies where the entry points.  A HAMT root stands for its whole tree, and *)
(* the tree of a commit's indexes for all of them.                          *)
(***************************************************************************)
EXTENDS Integers, Sequences, FiniteSets, SequencesExt

CONSTANTS
    Name,          \* branch names
    Main,          \* the name "main" that Repo::init writes into HEAD
    DefaultBranch, \* the branch given to init
    Under,         \* Under[n]: the name n is nested in ("feature" for "feature/foo")
    NumRoots,      \* how many different trees there are, of documents and of indexes
    MaxCommits,    \* bound on the commits of one behaviour
    FsyncChoices,  \* the arguments set_fsync_every is called with
    MaxCrashes     \* bound on kills and power losses of one behaviour

NoHead == "no HEAD"    \* HEAD does not exist, or memory has no branch
Torn   == "torn"       \* HEAD was truncated and not written

ASSUME DiskAssumption ==
    /\ {Main, DefaultBranch} \subseteq Name /\ IsFiniteSet(Name)
    /\ Under \in [Name -> Name \cup {"heads"}]
    /\ {"heads", NoHead, Torn} \cap Name = {}
    /\ NumRoots \in Nat \ {0}
    /\ MaxCommits \in Nat \ {0}
    /\ FsyncChoices \subseteq Nat
    /\ MaxCrashes \in Nat

\* Objects by hash: commits are numbered from 1 in the order they are created,
\* roots of trees are negative, Hash::ZERO is 0.
Zero   == 0
Root   == -NumRoots .. -1
Obj    == Root \cup 1..MaxCommits
Target == Obj \cup {Zero}

VARIABLES
    \* files
    refs,       \* the names with a file under refs/heads
    dirs,       \* the names with a directory under refs/heads
    tip,        \* what the file of a ref holds; Zero for bytes that are no hash
    headFile,   \* the branch HEAD names
    commits,    \* the commits created, by number: parents, documents, index tries,
                \* and whether both trees were stored when it was
    index,      \* objects with an entry in the index of the store
    fresh,      \* those whose entry is not fsync'd
    recs,       \* objects whose record is fsync'd
    cached,     \* ... whose record the operating system has
    buf,        \* ... whose record is in the BufWriter
    dirty,      \* CasStore.dirty
    \* memory
    up,
    head,       \* Repo.head
    fsyncEvery, sinceFsync,
    op,         \* the call in progress and its next step
    \* what users know and did
    told,       \* commits whose hash a call returned
    published,  \* objects a ref file was ever given
    ready,      \* init has returned
    batched,    \* set_fsync_every was called with more than 1
    crashes, powerLost

files  == <<refs, dirs, tip, headFile>>
cas    == <<index, fresh, recs, cached, buf, dirty>>
memory == <<up, head, fsyncEvery, sinceFsync>>
users  == <<told, published, ready, batched>>
faults == <<crashes, powerLost>>
vars   == <<files, commits, cas, memory, op, users, faults>>

Op(pc, name, obj, trie, parents, why) ==
    [pc |-> pc, name |-> name, obj |-> obj, trie |-> trie, parents |-> parents, why |-> why]
Idle == Op("idle", Main, Zero, Zero, <<>>, "none")

Commit(parents, root, trie, whole) ==
    [parents |-> parents, root |-> root, trie |-> trie, whole |-> whole]

-----------------------------------------------------------------------------
(* The content-addressed store *)

\* Objects whose record is where a read in this process finds it.
Stored == recs \cup cached \cup ToSet(buf)

\* Objects whose entry leads to their own record.
Owned == index \cap Stored

\* What get_payload(o) may return: the record behind the entry.  When o's own
\* record was lost, that is any record which has come to lie there since, or an
\* error; that the hash is not compared is what makes this possible.
Gets(o) == IF o \in Owned THEN {o} ELSE IF o \in index THEN Stored ELSE {}

\* CasStore::put: nothing is written of an object the index has.
Put(o) ==
    /\ index' = index \cup {o}
    /\ fresh' = fresh \cup ({o} \ index)
    /\ buf' = IF o \in index THEN buf ELSE Append(buf, o)
    /\ dirty' = (dirty \/ o \notin index)
    /\ UNCHANGED <<recs, cached>>

\* A new tree that shares nodes with a tree whose records were lost: put finds
\* entries for these nodes and does not write them again.
PutOnLost(r) ==
    /\ r \notin index /\ (index \ Owned) \cap Root # {}
    /\ index' = index \cup {r}
    /\ fresh' = fresh \cup {r}
    /\ dirty' = TRUE
    /\ UNCHANGED <<recs, cached, buf>>

\* PersistentHamt::insert and remove: the nodes of the new tree are put.
PutTree(r) == Put(r) \/ PutOnLost(r)

\* load_node takes what it reads for a node of the tree if it is a node at all.
ReadsTree(r) == r = Zero \/ Gets(r) \cap Root # {}

\* CasStore::flush.
FlushAll ==
    /\ buf' = <<>>
    /\ dirty' = FALSE
    /\ IF dirty THEN /\ recs' = Stored
                     /\ cached' = {}
                     /\ fresh' = {}
                ELSE /\ cached' = cached \cup ToSet(buf)
                     /\ UNCHANGED <<recs, fresh>>
    /\ UNCHANGED index

IsCommit(o) == o \in DOMAIN commits

\* What load_commit may return.
LoadsAs(o) == Gets(o) \cap DOMAIN commits

\* Everything a walk along parents visits, from a commit and from any object.
walk[n \in DOMAIN commits] ==
    {n} \cup UNION {IF IsCommit(p) THEN walk[p] ELSE {p} : p \in ToSet(commits[n].parents)}

Reach(o) == IF IsCommit(o) THEN walk[o] ELSE {o}

\* collect_ancestors returns what the walk visits, and not the error of a load ...
Walks(o) == \A x \in Reach(o) : IsCommit(x) /\ x \in Owned

\* ... or it comes to an entry whose record was lost, and may go on anywhere.
Astray(o) == \E x \in Reach(o) : x \in index \ Owned

Wanders(a, d) == Astray(d) /\ \E c \in Stored : IsCommit(c) /\ a \in Reach(c)

\* Mutant: the arguments are swapped.
IsAncestorSwapped(a, d) == a = d \/ (Walks(a) /\ d \in Reach(a)) \/ Wanders(d, a)

\* is_ancestor returns true.
IsAncestor(a, d) == a = d \/ (Walks(d) /\ a \in Reach(d)) \/ Wanders(a, d)

-----------------------------------------------------------------------------
(* Refs *)

\* branch_ref_path(n).exists(), for a file or a directory.
RefExists(n) == n \in refs \cup dirs

\* read_branch: the file exists and holds a hash.
ReadBranch(n) == n \in refs /\ tip[n] # Zero

\* head(): there is a HEAD branch and its ref can be read.
HeadReads == head \in Name /\ ReadBranch(head)

\* What resolve_target_ref makes of HEAD, BRANCH n and COMMIT "hex".  Users name
\* commits they were told and, as resolve_hash_ref only asks the index, the
\* document roots of these commits.
HexTargets == told \cup ({commits[c].root : c \in told} \ {Zero})

Resolves(o) ==
    \/ \E n \in Name : ReadBranch(n) /\ o = tip[n]
    \/ o \in HexTargets /\ o \in index

-----------------------------------------------------------------------------
(* Opening: DiskStore::open, and open_or_init / DiskStore::init when there is *)
(* no repository yet                                                          *)

Open ==
    /\ ~up /\ headFile # NoHead
    /\ up' = TRUE
    /\ head' = IF headFile \in Name THEN headFile ELSE NoHead
    /\ fsyncEvery' = 1 /\ sinceFsync' = 0
    /\ UNCHANGED <<files, commits, cas, op, users, faults>>

\* Repo::init creates the directories and begins to write HEAD.
InitStart ==
    /\ ~up /\ headFile = NoHead
    /\ up' = TRUE
    /\ headFile' = Torn
    /\ head' = Main
    /\ fsyncEvery' = 1 /\ sinceFsync' = 0
    /\ op' = Op("init", DefaultBranch, Zero, Zero, <<>>, "genesis")
    /\ UNCHANGED <<refs, dirs, tip, commits, cas, users, faults>>

InitHead ==
    /\ op.pc = "init"
    /\ headFile' = Main
    /\ op' = [op EXCEPT !.pc = "genesis"]
    /\ UNCHANGED <<refs, dirs, tip, commits, cas, memory, users, faults>>

\* write_genesis, which flushes, then create_branch.
InitGenesis ==
    /\ op.pc = "genesis"
    /\ LET c == Len(commits) + 1
       IN  /\ commits' = Append(commits, Commit(<<>>, Zero, Zero, TRUE))
           /\ Put(c)
           /\ op' = Op("flush", op.name, c, Zero, <<>>, "genesis")
    /\ UNCHANGED <<files, memory, users, faults>>

-----------------------------------------------------------------------------
(* COMMIT *)

\* The objects that the commit's parents may be: HEAD's commit, or one or two
\* targets of a PARENTS clause.
ParentLists ==
    {<<tip[head]>>} \cup {<<p>> : p \in {o \in Obj : Resolves(o)}}
                    \cup {<<p, q>> : p, q \in {o \in Obj : Resolves(o)}}

\* exec_commit up to the new documents: HEAD is read, the base commit and its
\* documents are loaded (nothing has changed when this fails), the new documents
\* are put and read back.  Then the call may fail: schema.state does not load, or
\* a node whose record was lost cannot be read.
ExecCommit(r) ==
    /\ up /\ op = Idle /\ HeadReads /\ Len(commits) < MaxCommits
    /\ IF r = Zero THEN UNCHANGED cas ELSE PutTree(r)
    /\ \E ps \in ParentLists : \E b \in LoadsAs(ps[1]) :
        /\ ReadsTree(commits[b].root)
        /\ r = Zero => commits[b].root = Zero
        /\ \/ op' = Idle
           \/ /\ ReadsTree(r)'
              /\ op' = Op("indexes", head, r, commits[b].trie, ps,
                          IF ps = <<tip[head]>> THEN "commit" ELSE "parents")
    /\ UNCHANGED <<files, commits, memory, users, faults>>

\* update_indexes_for_commit: the tries of the base commit are kept, dropped, or
\* read and replaced by new ones, which are not read back.  commit_with_indexes
\* then fails when a parent has no entry.
UpdateIndexes ==
    /\ op.pc = "indexes"
    /\ \/ /\ \E t \in Root \cup {Zero} :
              /\ \/ t \in {op.trie, Zero} /\ UNCHANGED cas
                 \/ t \in Root /\ ReadsTree(op.trie) /\ PutTree(t)
              /\ op' = IF ToSet(op.parents) \subseteq index'
                       THEN [op EXCEPT !.pc = "persist", !.trie = t] ELSE Idle
       \/ op.trie \notin Owned \cup {Zero} /\ op' = Idle /\ UNCHANGED cas
    /\ UNCHANGED <<files, commits, memory, users, faults>>

\* `epochs commit` without --set: the parent's documents again, which are not
\* read, and no indexes; commit_with_root fails when the parent has no entry.
CmdCommit ==
    /\ up /\ op = Idle /\ HeadReads /\ Len(commits) < MaxCommits
    /\ tip[head] \in index
    /\ \E b \in LoadsAs(tip[head]) :
        op' = Op("persist", head, commits[b].root, Zero, <<tip[head]>>, "commit")
    /\ UNCHANGED <<files, commits, cas, memory, users, faults>>

\* Mutant: one commit too late.
FsyncDueLate == sinceFsync + 1 > fsyncEvery

FsyncDue == sinceFsync + 1 >= fsyncEvery

\* persist_commit puts the commit ...
PersistCommit ==
    /\ op.pc = "persist"
    /\ LET c == Len(commits) + 1
       IN  /\ commits' = Append(commits, Commit(op.parents, op.obj, op.trie,
                                                {op.obj, op.trie} \subseteq Owned \cup {Zero}))
           /\ Put(c)
           /\ op' = Op(IF FsyncDue THEN "flush" ELSE "ref", op.name, c, Zero, <<>>, op.why)
    /\ sinceFsync' = sinceFsync + 1
    /\ UNCHANGED <<files, up, head, fsyncEvery, users, faults>>

\* ... and flushes every fsync_every commits.
FlushCommit ==
    /\ op.pc = "flush"
    /\ FlushAll
    /\ sinceFsync' = 0
    /\ op' = [op EXCEPT !.pc = "ref"]
    /\ UNCHANGED <<files, commits, up, head, fsyncEvery, users, faults>>

\* write_branch: the parent directory is created, unless a file is in its way,
\* and fs::write truncates or creates the file ...
RefTruncate ==
    /\ op.pc = "ref"
    /\ LET n == op.name
           d == {Under[n]} \ {"heads"}
       IN  IF d \cap refs # {}
           THEN /\ op' = Idle
                /\ UNCHANGED <<refs, dirs, tip>>
           ELSE /\ refs' = refs \cup {n}
                /\ dirs' = dirs \cup d
                /\ tip' = [tip EXCEPT ![n] = Zero]
                /\ op' = [op EXCEPT !.pc = "refdata"]
    /\ UNCHANGED <<headFile, commits, cas, memory, users, faults>>

\* ... and writes the hash.  init goes on to set_head; every other call returns.
RefWrite ==
    /\ op.pc = "refdata"
    /\ tip' = [tip EXCEPT ![op.name] = op.obj]
    /\ published' = published \cup {op.obj}
    /\ IF op.why = "genesis"
       THEN op' = Op("head", op.name, op.obj, Zero, <<>>, "genesis") /\ UNCHANGED told
       ELSE op' = Idle /\ told' = told \cup ({op.obj} \cap DOMAIN commits)
    /\ UNCHANGED <<refs, dirs, headFile, commits, cas, memory, ready, batched, faults>>

-----------------------------------------------------------------------------
(* CREATE BRANCH, DELETE BRANCH, CHECKOUT, MERGE *)

\* create_branch: the target is in the index and the name is free.
CreateBranch(n, o) ==
    /\ up /\ op = Idle
    /\ Resolves(o) /\ o \in index
    /\ ~RefExists(n)
    /\ op' = Op("ref", n, o, Zero, <<>>, "branch")
    /\ UNCHANGED <<files, commits, cas, memory, users, faults>>

\* Mutant: the HEAD branch may be deleted.
DeletableAlways(n) == n \in refs

Deletable(n) == n # head /\ n \in refs

\* Mutant: the file is emptied and stays.
DeleteTruncates(n) ==
    /\ up /\ op = Idle
    /\ Deletable(n)
    /\ tip' = [tip EXCEPT ![n] = Zero]
    /\ UNCHANGED <<refs, dirs, headFile, commits, cas, memory, op, users, faults>>

\* delete_branch: not the HEAD branch; remove_file fails on a directory.
DeleteBranch(n) ==
    /\ up /\ op = Idle
    /\ Deletable(n)
    /\ refs' = refs \ {n}
    /\ tip' = [tip EXCEPT ![n] = Zero]
    /\ UNCHANGED <<dirs, headFile, commits, cas, memory, op, users, faults>>

\* Mutant: set_head does not look for the ref.
CheckoutUnchecked(n) ==
    /\ up /\ op = Idle
    /\ op' = Op("head", n, Zero, Zero, <<>>, "checkout")
    /\ UNCHANGED <<files, commits, cas, memory, users, faults>>

\* set_head: the path of the ref exists.
CheckoutBranch(n) ==
    /\ up /\ op = Idle
    /\ RefExists(n)
    /\ op' = Op("head", n, Zero, Zero, <<>>, "checkout")
    /\ UNCHANGED <<files, commits, cas, memory, users, faults>>

HeadTruncate ==
    /\ op.pc = "head"
    /\ headFile' = Torn
    /\ op' = [op EXCEPT !.pc = "headdata"]
    /\ UNCHANGED <<refs, dirs, tip, commits, cas, memory, users, faults>>

HeadWrite ==
    /\ op.pc = "headdata"
    /\ headFile' = op.name
    /\ head' = op.name
    /\ op' = Idle
    /\ ready' = (ready \/ op.why = "genesis")
    /\ told' = told \cup ({op.obj} \cap DOMAIN commits)
    /\ UNCHANGED <<refs, dirs, tip, commits, cas, up, fsyncEvery, sinceFsync,
                   published, batched, faults>>

\* exec_merge FAST_FORWARD of a target into a branch; INTO HEAD is the HEAD branch.
Merge(src, n) ==
    /\ up /\ op = Idle
    /\ Resolves(src) /\ ReadBranch(n)
    /\ IsAncestor(tip[n], src)
    /\ src \in index
    /\ op' = Op("ref", n, src, Zero, <<>>, "merge")
    /\ UNCHANGED <<files, commits, cas, memory, users, faults>>

-----------------------------------------------------------------------------
(* Durability *)

\* Mutant: no lower bound.
SetFsyncEveryRaw(n) ==
    /\ up /\ op = Idle /\ Len(commits) = 1
    /\ fsyncEvery' = n
    /\ batched' = (batched \/ n > 1)
    /\ UNCHANGED <<files, commits, cas, up, head, sinceFsync, op, told, published, ready, faults>>

\* Bounded to a repository that has only its genesis commit: the one caller
\* sets the policy right after init.
SetFsyncEvery(n) ==
    /\ up /\ op = Idle /\ Len(commits) = 1
    /\ fsyncEvery' = IF n < 1 THEN 1 ELSE n
    /\ batched' = (batched \/ n > 1)
    /\ UNCHANGED <<files, commits, cas, up, head, sinceFsync, op, told, published, ready, faults>>

Flush ==
    /\ up /\ op = Idle
    /\ FlushAll
    /\ sinceFsync' = 0
    /\ UNCHANGED <<files, commits, up, head, fsyncEvery, op, users, faults>>

\* The store is dropped, which flushes it.
Close ==
    /\ up /\ op = Idle
    /\ FlushAll
    /\ up' = FALSE /\ head' = NoHead
    /\ fsyncEvery' = 1 /\ sinceFsync' = 0
    /\ UNCHANGED <<files, commits, op, users, faults>>

Crash ==
    /\ crashes < MaxCrashes
    /\ crashes' = crashes + 1
    /\ up' = FALSE /\ head' = NoHead
    /\ fsyncEvery' = 1 /\ sinceFsync' = 0
    /\ op' = Idle
    /\ buf' = <<>> /\ dirty' = FALSE
    /\ UNCHANGED <<refs, dirs, commits, users>>

\* The process is killed at any step: a prefix of the buffer may have been
\* written, the index entries have.
Kill ==
    /\ up
    /\ Crash
    /\ \E k \in 0..Len(buf) : cached' = cached \cup ToSet(SubSeq(buf, 1, k))
    /\ UNCHANGED <<tip, headFile, index, fresh, recs, powerLost>>

\* The machine loses power: records and entries that were not fsync'd may be
\* gone, and HEAD and the ref files, which are never fsync'd, may hold what they
\* once held or nothing.
PowerLoss ==
    /\ Crash
    /\ powerLost' = TRUE
    /\ \E lost \in SUBSET fresh, kept \in SUBSET (cached \cup ToSet(buf)) :
        /\ index' = index \ lost
        /\ recs' = recs \cup kept
    /\ fresh' = {} /\ cached' = {}
    /\ \E held \in [refs -> {Zero} \cup published] :
        tip' = [n \in Name |-> IF n \in refs THEN held[n] ELSE tip[n]]
    /\ headFile' \in IF headFile = NoHead THEN {NoHead} ELSE Name \cup {Torn}

-----------------------------------------------------------------------------
Init ==
    /\ refs = {} /\ dirs = {}
    /\ tip = [n \in Name |-> Zero]
    /\ headFile = NoHead
    /\ commits = <<>>
    /\ index = {} /\ fresh = {} /\ recs = {} /\ cached = {} /\ buf = <<>> /\ dirty = FALSE
    /\ up = FALSE /\ head = NoHead /\ fsyncEvery = 1 /\ sinceFsync = 0
    /\ op = Idle
    /\ told = {} /\ published = {} /\ ready = FALSE /\ batched = FALSE
    /\ crashes = 0 /\ powerLost = FALSE

Next ==
    \/ Open \/ InitStart \/ InitHead \/ InitGenesis
    \/ \E r \in Root \cup {Zero} : ExecCommit(r)
    \/ UpdateIndexes \/ CmdCommit \/ PersistCommit \/ FlushCommit \/ RefTruncate \/ RefWrite
    \/ \E n \in Name, o \in Obj : CreateBranch(n, o) \/ Merge(o, n)
    \/ \E n \in Name : DeleteBranch(n) \/ CheckoutBranch(n)
    \/ HeadTruncate \/ HeadWrite
    \/ \E n \in FsyncChoices : SetFsyncEvery(n)
    \/ Flush \/ Close

KillSpec == Init /\ [][Next \/ Kill]_vars

CrashNext == Next \/ Kill \/ PowerLoss

CrashSpec == Init /\ [][CrashNext]_vars

-----------------------------------------------------------------------------
(* Properties *)

Pcs  == {"idle", "init", "genesis", "indexes", "persist", "flush", "ref", "refdata", "head", "headdata"}
Whys == {"none", "genesis", "commit", "parents", "branch", "merge", "checkout"}

TypeOK ==
    /\ refs \subseteq Name /\ dirs \subseteq Name
    /\ tip \in [Name -> Target]
    /\ headFile \in Name \cup {NoHead, Torn}
    /\ commits \in Seq([parents : Seq(Obj), root : Root \cup {Zero}, trie : Root \cup {Zero}, whole : BOOLEAN])
    /\ Len(commits) =< MaxCommits
    /\ index \subseteq Obj /\ fresh \subseteq index
    /\ recs \subseteq Obj /\ cached \subseteq Obj /\ buf \in Seq(Obj)
    /\ dirty \in BOOLEAN /\ up \in BOOLEAN /\ ready \in BOOLEAN
    /\ batched \in BOOLEAN /\ powerLost \in BOOLEAN
    /\ head \in Name \cup {NoHead}
    /\ fsyncEvery \in Nat \ {0} /\ sinceFsync \in Nat
    /\ op \in [pc : Pcs, name : Name, obj : Target, trie : Root \cup {Zero}, parents : Seq(Obj), why : Whys]
    /\ told \subseteq 1..MaxCommits /\ published \subseteq Obj
    /\ crashes \in 0..MaxCrashes

\* As long as no process was killed, HEAD names a branch that can be read and
\* whose target is stored: the next COMMIT has somewhere to go.  The branch in
\* memory is the one in the file.  The one exception is a CHECKOUT of "feature"
\* while "feature/foo" exists, where set_head finds a directory.
HeadUsable ==
    crashes = 0 /\ up /\ op = Idle =>
        /\ head \in Name /\ headFile = head
        /\ head \notin dirs => ReadBranch(head) /\ tip[head] \in index

\* A branch that COMMIT (without PARENTS) or MERGE is about to move keeps its
\* history: the old tip is an ancestor of the new one.  The one exception is a
\* MERGE that walks over a commit whose record a crash took away, where
\* is_ancestor may follow another commit's parents.
PublishKeepsHistory ==
    /\ op.pc = "ref" /\ op.why = "commit" => tip[op.name] \in Reach(op.obj)
    /\ op.pc = "ref" /\ op.why = "merge" /\ ~Astray(op.obj) => tip[op.name] \in Reach(op.obj)

\* "Delete a branch ref. Refuses to delete the current HEAD branch": whenever the
\* process is killed, a HEAD file that names a branch names one that exists.  (A
\* power loss may bring back an older HEAD, which is never fsync'd.)
HeadNeverDangles == ready /\ ~powerLost /\ headFile \in Name => RefExists(headFile)

\* With an fsync on every commit a branch is only given commits that are on disk
\* with their whole history: after any kills and power losses, every commit that a
\* ref file then leads to is found by its hash.  Its documents and index tries are
\* whole if they were when the commit was made, and they always are before
\* the first crash.  (After one, put may take a tree for stored whose records were
\* lost, and COMMIT publishes it.)
RefsReadable ==
    up /\ ~batched => \A n \in refs : tip[n] # Zero =>
        \A o \in Reach(tip[n]) \cap DOMAIN commits :
            /\ o \in Owned
            /\ crashes = 0 => commits[o].whole
            /\ commits[o].whole => {commits[o].root, commits[o].trie} \subseteq Owned \cup {Zero}

\* write_branch truncates the file of a ref before it writes it: a kill leaves at
\* most the one ref it was writing without a hash, and no other call leaves one.
RefsTornByKills ==
    ~powerLost => Cardinality({n \in refs : tip[n] = Zero})
                      =< crashes + IF op.pc = "refdata" THEN 1 ELSE 0

-----------------------------------------------------------------------------
(* The inductive invariant behind the properties *)

\* Objects that a ref may be given: document roots and commits.
Known == Root \cup DOMAIN commits

\* Parents are older than their children, so that the walk is what its recursive
\* definition says.
History ==
    /\ \A n \in DOMAIN commits : ToSet(commits[n].parents) \subseteq Root \cup 1..(n - 1)
    /\ walk = [n \in DOMAIN commits |->
                {n} \cup UNION {IF IsCommit(p) THEN walk[p] ELSE {p} : p \in ToSet(commits[n].parents)}]
    /\ published \subseteq Known
    /\ told \subseteq published \cap DOMAIN commits
    /\ \A n \in Name : tip[n] \in published \cup {Zero}

\* Entries are of trees and of commits that were created; until the first crash
\* every entry leads to its record, and every tree of a commit has one.
StoreInStep ==
    /\ index \subseteq Known
    /\ crashes = 0 => /\ index \subseteq Stored
                      /\ \A n \in DOMAIN commits :
                            commits[n].whole /\ {commits[n].root, commits[n].trie} \subseteq index \cup {Zero}
                      /\ op.pc \in {"indexes", "persist"} => {op.obj, op.trie} \subseteq index \cup {Zero}

\* What each step of a call may rely on.
OpInStep ==
    /\ ~up => op = Idle
    /\ headFile = NoHead => ~up /\ commits = <<>> /\ refs = {}
    /\ op.pc \in {"init", "genesis"} => op.why = "genesis" /\ commits = <<>>
    /\ op.why = "genesis" /\ op.pc \in {"init", "genesis", "flush", "ref"} => refs = {}
    /\ op.pc \in {"indexes", "persist"} =>
            /\ Len(commits) < MaxCommits
            /\ ToSet(op.parents) \subseteq Known /\ op.obj \in Root \cup {Zero}
            /\ op.why \in {"commit", "parents"}
            /\ op.why = "commit" => op.parents = <<tip[op.name]>>
    /\ op.pc = "flush" => op.why \in {"genesis", "commit", "parents"} /\ dirty
    /\ op.pc = "flush" /\ op.why = "commit" => tip[op.name] \in Reach(op.obj)
    /\ op.pc \in {"flush", "ref", "refdata"} => op.obj \in Known /\ op.obj \in index
    /\ op.pc \in {"refdata", "head", "headdata"} => RefExists(op.name)
    /\ op.pc = "refdata" => op.name \in refs /\ tip[op.name] = Zero
    /\ op.pc \in {"head", "headdata"} => op.obj \in published \cup {Zero}
    /\ op.why = "genesis" \/ headFile = NoHead => ~ready
    /\ op.why = "genesis" => op.pc \in {"init", "genesis", "flush", "ref", "refdata", "head", "headdata"}
    /\ op.pc = "idle" => op = Idle

\* HEAD in memory is HEAD on disk, except while it is being written; as long as
\* nothing was killed it names a branch once init is done, and every ref can be
\* read.
HeadInStep ==
    /\ up /\ op.pc \notin {"init", "headdata"} => head = IF headFile \in Name THEN headFile ELSE NoHead
    /\ op.pc = "init" => head = Main
    /\ powerLost => crashes > 0
    /\ crashes = 0 => \/ headFile = NoHead
                      \/ op.why = "genesis"
                      \/ ready /\ (op.pc = "headdata" \/ headFile \in Name)
    /\ crashes = 0 => \A n \in refs : \/ op.pc = "refdata" /\ n = op.name
                                      \/ tip[n] # Zero /\ tip[n] \in index

\* Objects that no crash takes away.
Solid == (index \ fresh) \cap recs

\* A commit is in S, and its trees are if they were stored when it was made.
KeptIn(S, x) ==
    IsCommit(x) => /\ x \in S
                   /\ commits[x].whole => {commits[x].root, commits[x].trie} \subseteq S \cup {Zero}

SolidFrom(o) == \A x \in Reach(o) : KeptIn(Solid, x)

\* What a ref was given, or is about to be given, is solid with its history; a
\* commit that was put and not flushed will be when it is.
SolidRefs ==
    ~batched =>
        /\ fsyncEvery = 1
        /\ \A o \in published : SolidFrom(o)
        /\ op.pc \in {"ref", "refdata"} => SolidFrom(op.obj)
        /\ op.pc = "flush" => \A x \in Reach(op.obj) : KeptIn(Owned, x)
        /\ op.pc \in {"indexes", "persist"} => \A p \in ToSet(op.parents) : SolidFrom(p)

DiskInv ==
    /\ TypeOK /\ History /\ StoreInStep /\ OpInStep /\ HeadInStep /\ SolidRefs
    /\ PublishKeepsHistory /\ HeadNeverDangles /\ RefsTornByKills
=============================================================================
