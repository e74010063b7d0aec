--------------------------- MODULE MCOutboxRelay ---------------------------
(* Small instances of OutboxRelay for TLC.  Replicas are interchangeable;   *)
(* events are not, their ids being compared.                                *)
EXTENDS OutboxRelay, TLC

Symmetry == Permutations(Relays)
=============================================================================
