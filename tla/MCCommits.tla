----------------------------- MODULE MCCommits ------------------------------
(* An instance of Commits for TLC.                                           *)
EXTENDS Commits, TLC

CONSTANTS t1, t2

Symm == Permutations({t1, t2})

\* With four values to a byte a commit has at most 3 parents and a message of 15
\* bytes; hashes of two bytes, some with their first byte in common.
MCHashSpace == {<<0, 1>>, <<0, 2>>, <<1, 0>>, <<1, 3>>}

Chars(n) == [i \in 1..n |-> 1]

\* One parent, and one parent and one byte too many.
MCRootInputs == {[count |-> 1, message |-> <<>>], [count |-> 4, message |-> Chars(16)]}

\* A two-byte character, and as many parents and bytes as fit.
MCIndexInputs ==
    {[count |-> 0, message |-> <<1, 2, 3>>, index_roots |-> <<>>],
     [count |-> 3, message |-> Chars(15),
      index_roots |-> (<<1>> :> <<0, 1>>) @@ (<<0, 1>> :> <<1, 3>>)]}

MCNodes ==
    {[type |-> "leaf", key |-> <<1>>, value |-> <<3>>],
     [type |-> "bitmap", bitmap |-> 5, children |-> <<<<0, 1>>, <<1, 0>>>>]}

MCLegacy == [parents |-> <<>>, root_hamt |-> ZERO, timestamp |-> 9, message |-> <<1, 1>>,
             index_roots |-> <<>>]

\* The records of this instance are told apart by their bytes.
ASSUME RecordsApart == TypesApart
=============================================================================
