------------------------------ MODULE MCServer ------------------------------
(***************************************************************************)
(* Two branches; a connection with two frames and one with a single frame.  *)
(***************************************************************************)
EXTENDS Server

CONSTANTS c1, c2

Head1      == <<"head">>
Branch(n)  == <<"branch", n>>

Commit     == [op |-> "commit", parents |-> <<>>]
MergeCommit == [op |-> "commit", parents |-> <<Head1, Branch("dev")>>]
Create     == [op |-> "create", name |-> "dev", from |-> Head1]
Delete     == [op |-> "delete", name |-> "dev"]
Checkout1(t) == [op |-> "checkout", target |-> t]
Checkout(n) == Checkout1(Branch(n))
Merge(s, t, how) == [op |-> "merge", source |-> s, into |-> t, strategy |-> how]
Query(t, large)  == [op |-> "query", target |-> t, large |-> large]
Syntax     == [op |-> "syntax"]

Script(s) == [method |-> "query", script |-> s]

Common ==
    { Script(<<Commit, Commit>>),
      Script(<<Create, Commit, Checkout("dev"), Commit>>),
      Script(<<Checkout("main"), Delete, MergeCommit, Commit>>),
      Script(<<Merge(Branch("dev"), Head1, "fast_forward"), Query(Branch("dev"), TRUE)>>),
      [method |-> "refs"] }

Others ==
    { Script(<<Delete>>), Script(<<Commit, Syntax>>),
      Script(<<Checkout(Main), Checkout1(<<"commit", 2>>), Merge(<<"commit", 2>>, Branch("dev"), "fast_forward")>>),
      Script(<<Commit, Merge(Head1, Branch("dev"), "squash"), Commit>>),
      Script(<<Query(<<"tag", "v1">>, FALSE)>>),
      [method |-> "get", hash |-> 2], [method |-> "hello"], [method |-> "invalid"] }

Bad == [method |-> "bad"]

MCFrames == (c1 :> ((Common \cup {Bad}) \X {r \in Common : r.method = "refs" \/ Len(r.script) = 4}))
            @@ (c2 :> {<<r>> : r \in Common \cup Others})
=============================================================================
