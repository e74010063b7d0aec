-------------------------- MODULE MCEventConsumer --------------------------
(* EventConsumer for TLC. *)
EXTENDS EventConsumer, TLC

CONSTANTS g1, g2, w1, w2

(* A service with the in-memory bus and two groups, and two replicas that   *)
(* share a Kafka group.                                                     *)
TwoDeployments ==
    {[bus |-> "mem", serves |-> (w1 :> g1 @@ w2 :> g2)],
     [bus |-> "kafka", serves |-> (w1 :> g1 @@ w2 :> g1)]}

(* A handler of the second group never succeeds on the last event. *)
LastBroken == {<<NumEvents, g2>>}
=============================================================================
