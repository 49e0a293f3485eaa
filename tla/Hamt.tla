-------------------------------- MODULE Hamt --------------------------------
(***************************************************************************)
(* PersistentHamt of epochs-core/src/hamt/tree.rs: a hash-array mapped trie *)
(* whose nodes are objects of the content-addressed store.  A node and its  *)
(* hash are one value here (hashes do not collide), so storing a node is    *)
(* building it and loading it is looking at it.                             *)
(*                                                                          *)
(* The module keeps one root, changed by insert and remove, beside the map  *)
(* it should hold.                                                          *)
(***************************************************************************)
EXTENDS Naturals, Sequences, FiniteSets, SequencesExt

CONSTANTS
    Key,        \* the keys (byte strings)
    Val,        \* the values
    Branch,     \* the branches of a bitmap node (0..31 in the code)
    HashChunks  \* HashChunks[k]: the hash of k, cut into chunks

NoVal == "no value"

ASSUME HamtAssumption ==
    /\ Branch \subseteq Nat
    /\ HashChunks \in [Key -> Seq(Branch) \ {<<>>}]
    /\ NoVal \notin Val

VARIABLES
    root,      \* the root node, NoNode for Option::None
    model,     \* the map that the calls so far should have built
    collided   \* some insert met another key's leaf with the same chunk

vars == <<root, model, collided>>

NoNode == [tag |-> "none"]
Leaf(k, v)     == [tag |-> "leaf", key |-> k, val |-> v]
Bitmap(bs, cs) == [tag |-> "bitmap", bitmap |-> bs, children |-> cs]

\* extract_5bits
Chunk(k, depth) ==
    LET h == HashChunks[k] IN IF depth < Len(h) THEN h[depth + 1] ELSE Last(h)

\* child_index: the number of branches below this one.
ChildIndex(bitmap, branch) == Cardinality({b \in bitmap : b < branch})

\* The place of a branch in a sequence of children, which starts at 1.
Place(n, branch) == ChildIndex(n.bitmap, branch) + 1

-----------------------------------------------------------------------------
(* The path of a key.  insert_internal, remove_internal, get_internal and     *)
(* leaf_hash_internal call themselves with the child at the key's chunk, so   *)
(* each follows this path to its end; the first two then copy it, from the    *)
(* end back to the root.                                                      *)

Descends(n, k, depth) == n.tag = "bitmap" /\ Chunk(k, depth) \in n.bitmap

Below(n, k, depth) ==
    IF Descends(n, k, depth) THEN n.children[Place(n, Chunk(k, depth))] ELSE NoNode

\* The node at a depth of the path, from the root n.
NodeAt(n, k, depth) ==
    LET at[d \in 0..depth] == IF d = 0 THEN n ELSE Below(at[d - 1], k, d - 1)
    IN  at[depth]

\* The depth at which the path ends: at a leaf, or where the chunk has no bit.
Depth(n, k) ==
    LET end[d \in Nat] == IF Descends(NodeAt(n, k, d), k, d) THEN end[d + 1] ELSE d
    IN  end[0]

PathEnd(n, k) == NodeAt(n, k, Depth(n, k))

\* Mutant: the bit is cleared and the child stays.
WithoutBit(n, c) == IF Len(n.children) = 1 THEN NoNode ELSE Bitmap(n.bitmap \ {c}, n.children)

\* The node once the child at branch c is gone: a node with one child left is
\* kept as it is, one with none disappears.
WithoutChild(n, c) ==
    IF Len(n.children) = 1 THEN NoNode
    ELSE Bitmap(n.bitmap \ {c}, RemoveAt(n.children, Place(n, c)))

\* The node with what the call for its child returned.
WithChild(n, c, child) ==
    IF child = NoNode THEN WithoutChild(n, c)
    ELSE Bitmap(n.bitmap, ReplaceAt(n.children, Place(n, c), child))

\* The node with a child at a branch that had none.
WithNewChild(n, c, child) ==
    Bitmap(n.bitmap \cup {c}, InsertAt(n.children, Place(n, c), child))

\* The root once the node at the end of the path has been replaced.
CopyPath(n, k, last) ==
    LET s == Depth(n, k)
        up[j \in 0..s] ==
            IF j = 0 THEN last
            ELSE WithChild(NodeAt(n, k, s - j), Chunk(k, s - j), up[j - 1])
    IN  up[s]

-----------------------------------------------------------------------------
(* insert and remove *)

\* The depths at which two keys are compared before their chunks repeat.
DepthsFrom(o, k, depth) == depth .. depth + Len(HashChunks[o]) + Len(HashChunks[k])

\* expand_leaf_collision calls insert_internal, and so itself, for depth + 1 while
\* the two chunks are equal.
SplitDepth(old, k, depth) ==
    CHOOSE e \in DepthsFrom(old.key, k, depth) :
        /\ Chunk(old.key, e) # Chunk(k, e)
        /\ \A d \in depth .. e - 1 : Chunk(old.key, d) = Chunk(k, d)

\* Mutant: the children are always in the order old, new.
ExpandUnordered(old, k, v, depth) ==
    LET e == SplitDepth(old, k, depth)
    IN  Bitmap({Chunk(old.key, e), Chunk(k, e)}, <<old, Leaf(k, v)>>)

\* What is returned is the node built for the depth at which the chunks differ,
\* in the place of the one for depth.
ExpandLeafCollision(old, k, v, depth) ==
    LET e  == SplitDepth(old, k, depth)
        co == Chunk(old.key, e)
        cn == Chunk(k, e)
    IN  Bitmap({co, cn}, IF co < cn THEN <<old, Leaf(k, v)>> ELSE <<Leaf(k, v), old>>)

\* What becomes of the node at the end of the path.
InsertHere(n, k, v, depth) ==
    CASE n.tag = "none"   -> Leaf(k, v)
      [] n.tag = "leaf"   -> IF n.key = k THEN Leaf(k, v) ELSE ExpandLeafCollision(n, k, v, depth)
      [] n.tag = "bitmap" -> WithNewChild(n, Chunk(k, depth), Leaf(k, v))

InsertInternal(n, k, v) == CopyPath(n, k, InsertHere(PathEnd(n, k), k, v, Depth(n, k)))

\* The insert of k ends at the leaf of another key with the same chunk.
Collides(n, k) ==
    LET x == PathEnd(n, k)
        d == Depth(n, k)
    IN  x.tag = "leaf" /\ x.key # k /\ Chunk(x.key, d) = Chunk(k, d)

\* The calls for ever larger depths come to an end.  Where no chunk tells the two
\* keys apart, insert does not return (its stack is used up).
InsertReturns(n, k) ==
    LET x == PathEnd(n, k)
        d == Depth(n, k)
    IN  x.tag = "leaf" /\ x.key # k =>
            \E e \in DepthsFrom(x.key, k, d) : Chunk(x.key, e) # Chunk(k, e)

\* Mutant: the leaf at the end is removed whatever its key.
RemoveAnyLeaf(n, k) ==
    CopyPath(n, k, IF PathEnd(n, k).tag = "leaf" THEN NoNode ELSE PathEnd(n, k))

RemoveInternal(n, k) ==
    LET x == PathEnd(n, k)
    IN  CopyPath(n, k, IF x.tag = "leaf" /\ x.key = k THEN NoNode ELSE x)

-----------------------------------------------------------------------------
(* Reading *)

\* leaf_hash: the leaf that holds k, if any.
LeafHash(n, k) ==
    LET x == PathEnd(n, k) IN IF x.tag = "leaf" /\ x.key = k THEN x ELSE NoNode

\* get: the same walk, returning the value.
Get(n, k) == LET l == LeafHash(n, k) IN IF l = NoNode THEN NoVal ELSE l.val

-----------------------------------------------------------------------------
InsertKey(k, v) ==
    /\ InsertReturns(root, k)
    /\ root' = InsertInternal(root, k, v)
    /\ model' = [model EXCEPT ![k] = v]
    /\ collided' = (collided \/ Collides(root, k))

RemoveKey(k) ==
    /\ root' = IF root = NoNode THEN NoNode ELSE RemoveInternal(root, k)
    /\ model' = [model EXCEPT ![k] = NoVal]
    /\ UNCHANGED collided

Init ==
    /\ root = NoNode
    /\ model = [k \in Key |-> NoVal]
    /\ collided = FALSE

Next ==
    \/ \E k \in Key, v \in Val : InsertKey(k, v)
    \/ \E k \in Key : RemoveKey(k)

Spec == Init /\ [][Next]_vars

-----------------------------------------------------------------------------
(* Properties *)

\* A bitmap node on the path of a key has as many children as bits, and at least
\* one, so the children[idx] of insert, get and remove never panics.
ChildrenMatchBitmap ==
    \A k \in Key : \A d \in 0 .. Depth(root, k) :
        LET n == NodeAt(root, k, d)
        IN  n.tag = "bitmap" => Len(n.children) = Cardinality(n.bitmap) /\ n.bitmap # {}

\* Every lookup comes to an end without a panic, whatever the inserts met, and as
\* long as none met another key's leaf with an equal chunk, get and leaf_hash see
\* the map that insert and remove should have built: nodes split at any depth,
\* children are inserted in the middle and removed, and nodes left with one
\* child stay.
ReadsMatchMap ==
    /\ ChildrenMatchBitmap
    /\ ~collided =>
        \A k \in Key :
            /\ Get(root, k) = model[k]
            /\ LeafHash(root, k) = IF model[k] = NoVal THEN NoNode ELSE Leaf(k, model[k])

\* A call that does not change the map does not change the root hash: storing a
\* value again, or removing an absent key, is recognised as "no change" by
\* whoever compares roots.
SameMapSameRoot == [][model' = model /\ ~collided' => root' = root]_vars

\* "Insert or update key with value" and "Look up key under root": what was
\* inserted and not removed is found.
InsertedIsFound == \A k \in Key : Get(root, k) = model[k]
=============================================================================
