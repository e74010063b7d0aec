----------------------------- MODULE MCRequests -----------------------------
EXTENDS Requests, TLC

CONSTANTS c1, c2, c3, none, b1, b2

ThreeCalls == {c1, c2, c3}
TwoBodies  == {b1, b2}
AllModes   == {"tx", "reserve"}
TxMode     == {"tx"}
Reserve    == {"reserve"}
AllStores  == {"gorm", "ent", "mem"}
Databases  == {"gorm", "ent"}

Symmetry == Permutations(ThreeCalls) \cup Permutations(TwoBodies)
=============================================================================
