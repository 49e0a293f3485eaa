------------------------------- MODULE MCHamt -------------------------------
EXTENDS HamtEntries

\* a and b share no chunk; a, c and d share the first; c and d the first two.
MCHashChunks == [a |-> <<1, 0, 0>>, b |-> <<0, 1, 3>>, c |-> <<1, 2, 1>>, d |-> <<1, 2, 2>>]
MCKey == DOMAIN MCHashChunks
=============================================================================
