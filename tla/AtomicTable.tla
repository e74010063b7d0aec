---------------------------- MODULE AtomicTable ----------------------------
(***************************************************************************)
(* What a RoutingTable promises of its routes (cells/route.go): every      *)
(* change is one CompareAndSet or Delete of one tenant, applied at once to *)
(* the route that was there.                                               *)
(***************************************************************************)
EXTENDS Naturals

CONSTANTS Tenants, States

VARIABLE table   \* table[t]: the stored route; epoch 0 when there is none

Absent == [epoch |-> 0, state |-> "none"]

(* The epoch never goes back under CompareAndSet. *)
CompareAndSet(t, next) ==
    /\ next.epoch >= table[t].epoch
    /\ table' = [table EXCEPT ![t] = next]

Delete(t) == table' = [table EXCEPT ![t] = Absent]

Init == table = [t \in Tenants |-> Absent]

Next ==
    \E t \in Tenants :
        \/ Delete(t)
        \/ \E e \in {table[t].epoch, table[t].epoch + 1}, s \in States :
              CompareAndSet(t, [epoch |-> e, state |-> s])

Spec == Init /\ [][Next]_table
=============================================================================
