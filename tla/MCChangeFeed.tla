---------------------------- MODULE MCChangeFeed ----------------------------
EXTENDS ChangeFeed, TLC

CONSTANTS c1, c2, none, k1, k2

TwoClients == {c1, c2}
OneKey     == {k1}
TwoKeys    == {k1, k2}

Symmetry == Permutations(TwoClients)
=============================================================================
