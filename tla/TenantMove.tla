----------------------------- MODULE TenantMove -----------------------------
(***************************************************************************)
(* What the routing plane promises about one tenant, with the phases, the  *)
(* drivers and the fencing left out: the tenant rests on one cell at one   *)
(* epoch; a move names a source and a target; it ends exactly once, on the *)
(* source or on the target, at the epoch two higher.                       *)
(***************************************************************************)
EXTENDS Naturals

CONSTANTS Cells, NoCell

VARIABLES owner, epoch, source, target

tenant == <<owner, epoch, source, target>>

Idle == source = NoCell /\ target = NoCell

Init == owner = NoCell /\ epoch = 0 /\ source = NoCell /\ target = NoCell

(* First placement. *)
Place(c) == /\ epoch = 0
            /\ owner' = c /\ epoch' = 1
            /\ UNCHANGED <<source, target>>

(* A move begins: the tenant keeps its owner and its epoch. *)
Begin(from, to) == /\ epoch > 0 /\ Idle
                   /\ from # to
                   /\ source' = from /\ target' = to
                   /\ UNCHANGED <<owner, epoch>>

(* The move is decided: committed on the target or rolled back. *)
Settle(c) == /\ ~Idle
             /\ c \in {source, target}
             /\ owner' = c /\ epoch' = epoch + 2
             /\ source' = NoCell /\ target' = NoCell

Next == \/ \E c \in Cells : Place(c) \/ Settle(c)
        \/ \E from, to \in Cells : Begin(from, to)

Spec == Init /\ [][Next]_tenant
=============================================================================
