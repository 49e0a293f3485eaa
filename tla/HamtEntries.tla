---------------------------- MODULE HamtEntries -----------------------------
(***************************************************************************)
(* entries of epochs-core/src/hamt/tree.rs, which reads a whole HAMT and    *)
(* not the path of one key.                                                 *)
(***************************************************************************)
EXTENDS Hamt

\* collect_entries: depth first, children in order.
RECURSIVE Entries(_)
Entries(n) ==
    CASE n.tag = "none"   -> <<>>
      [] n.tag = "leaf"   -> <<<<n.key, n.val>>>>
      [] n.tag = "bitmap" -> FlattenSeq([i \in DOMAIN n.children |-> Entries(n.children[i])])

\* entries agrees with the map that insert and remove should have built: it lists
\* every pair of the map, once, and nothing else, so no leaf is left behind in a
\* place where no lookup would come by, as long as no insert met another key's
\* leaf with an equal chunk.
EntriesMatchMap ==
    ~collided =>
        /\ \A i, j \in DOMAIN Entries(root) : i # j => Entries(root)[i] # Entries(root)[j]
        /\ ToSet(Entries(root)) = {<<k, model[k]>> : k \in {l \in Key : model[l] # NoVal}}
=============================================================================
