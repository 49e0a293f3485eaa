------------------------------ MODULE MCSchema ------------------------------
(* Instances of Schema for TLC.                                              *)
EXTENDS Schema

CollectionStmt(c, key) == [kind |-> "collection", coll |-> c, key |-> key]
IndexStmt(c, p)        == [kind |-> "index", coll |-> c, path |-> p]
DropStmt(c, p)         == [kind |-> "drop", coll |-> c, path |-> p]
Garbage                == [kind |-> "garbage"]

\* A collection with a simple and one with a composite key, one whose name has a
\* blank, which is read back as "box", and one whose name has a dot.
MCCollSeq == <<"box", "box 2", "items", "pairs", "pairs.old">>
MCBase    == [c \in ToSet(MCCollSeq) |-> IF c = "pairs.old" THEN "pairs" ELSE c]
MCPath    == {"id", "meta.x"}
MCSlug    == [p \in MCPath |-> IF p = "meta.x" THEN "meta_x" ELSE p]
MCWords   == [x \in ToSet(MCCollSeq) \cup MCPath |-> IF x = "box 2" THEN <<"box", "2">> ELSE <<x>>]

\* Files 1 to 4 have plain names: an index is created, dropped and created again,
\* and 3 and 4 fail unless earlier ones were applied.  File 5 makes an index that is
\* read back as one of another collection; 6 leaves a schema.state that is read
\* back as another registry, and with 7 one that does not load; 8 does not parse.
MCMigration ==
    << <<CollectionStmt("items", <<"id">>), IndexStmt("items", "id")>>,
       <<IndexStmt("items", "meta.x")>>,
       <<DropStmt("items", "meta.x")>>,
       <<CollectionStmt("pairs", <<"meta.x", "id">>), IndexStmt("pairs", "id"), IndexStmt("items", "meta.x")>>,
       <<CollectionStmt("pairs.old", <<"id">>), IndexStmt("pairs.old", "meta.x")>>,
       <<CollectionStmt("box 2", <<"id">>)>>,
       <<IndexStmt("box 2", "id")>>,
       <<Garbage>> >>

\* The behaviours that are explored, where the first commit is that of init: three
\* more commits where names are plain; with the other files two more and two of the
\* files 1 to 7, or one more and three of them.
Bound ==
    LET used == (files \cup ToSet(lock)) \ {8}
    IN  \/ files \cup ToSet(lock) \subseteq 1..4
        \/ Cardinality(used) + Len(commits) =< 5

BoundedSpec == Init /\ [][Next /\ Bound']_vars
=============================================================================
