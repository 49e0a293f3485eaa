---------------------------- MODULE MCDiskStore -----------------------------
(* Instances of DiskStore for TLC.                                           *)
EXTENDS DiskStore

CONSTANTS main, feature, feature_x

\* Branch names side by side, and one name nested in another.  init's branch is
\* not the "main" that Repo::init writes into HEAD.
Nested == [n \in Name |-> IF n = feature_x THEN feature ELSE "heads"]

\* The behaviours that are explored: of refs and HEAD those with one tree, kills,
\* and either nested names or three commits, which is a fork, ...
Starting == IF op.pc \in {"indexes", "persist"} THEN 1 ELSE 0

PlainNames == feature \notin dirs /\ op.name # feature_x /\ headFile # feature_x

RefsBound ==
    /\ index \cup {op.obj, op.trie} \subseteq {-1, Zero} \cup DOMAIN commits
    /\ ~batched /\ ~powerLost
    /\ PlainNames \/ Len(commits) + Starting =< 2

\* ... and of what is durable those with two trees, two commits, batches of
\* fsync with kills, and power losses without batches.
DurabilityBound == PlainNames /\ Len(commits) + Starting =< 2

BeginsCommit == op = Idle /\ (op'.pc \in {"indexes", "persist"} \/ index' # index)

BoundedNext ==
    /\ \/ Next /\ (BeginsCommit => Len(commits) < 2 \/ RefsBound')
       \/ Kill
       \/ DurabilityBound /\ ~batched /\ PowerLoss
    /\ (RefsBound \/ DurabilityBound)'

BoundedSpec == Init /\ [][BoundedNext]_vars
=============================================================================
