--------------------------- MODULE EventConsumer ---------------------------
(***************************************************************************)
(* From the bus to the handlers.  The relay publishes events 1, 2, ... in  *)
(* order; a bus (events/membus or events/kafkabus) carries them to consumer*)
(* groups; a Consumer (events/consumer.go) runs every registered handler   *)
(* of a group in a transaction that also records the (event, handler)      *)
(* marker.                                                                 *)
(*                                                                         *)
(* log[g] is what the bus has accepted for group g.  In memory it is the   *)
(* group's channel, and position[g] counts what the group's goroutine has  *)
(* received; on Kafka it is the partition, and position[g] is the group's  *)
(* committed offset.  One partition stands for all: they share nothing but *)
(* the call that commits.                                                  *)
(***************************************************************************)
EXTENDS Naturals, Sequences, FiniteSets

CONSTANTS
    NumEvents,      \* the relay publishes 1 .. NumEvents
    Groups,         \* consumer groups
    Workers,        \* consume loops: a goroutine per group, or a replica
    NumHandlers,    \* handlers of a group, tried in this order
    Deployments,    \* the buses to consider, each with the group a loop serves
    Broken,         \* <<event, group>>: the last handler always fails on it
    Buffer,         \* capacity of an in-memory group's channel
    InTx,           \* TRUE: the marker commits with the handler's transaction
    MaxFaults,      \* bound: handler, publish, poll and commit errors
    MaxRebalances,  \* bound: partitions taken from a live member
    MaxCrashes      \* bound: process exits

ASSUME ConsumerAssumption ==
    /\ {NumEvents, NumHandlers, Buffer} \subseteq Nat \ {0}
    /\ {MaxFaults, MaxRebalances, MaxCrashes} \subseteq Nat
    /\ Workers # {}
    /\ Deployments \subseteq [bus : {"mem", "kafka"}, serves : [Workers -> Groups]]
    /\ \A d \in Deployments : d.bus = "mem" =>
          \A v, w \in Workers : d.serves[v] = d.serves[w] => v = w
    /\ Broken \subseteq (1 .. NumEvents) \X Groups
    /\ InTx \in BOOLEAN

VARIABLES
    bus,        \* the bus of this deployment
    serves,     \* serves[w]: the group w consumes for
    cursor,     \* the relay's sidecar: events up to it are resolved
    sending,    \* the event the relay is publishing, 0 when none
    unsent,     \* groups its Publish has not enqueued to yet
    log, position,
    assigned,   \* assigned[g]: the member that holds g's partition
    evicted,    \* members the broker has dropped from their group
    pc,         \* where w's loop is
    next,       \* next[w]: the offset w would fetch next
    fetched,    \* fetched[w]: the batch's first, current and last offset
    handler,    \* the handler of the current event w is at
    nacked,     \* w's batch ended in a failure at its current offset
    markers,    \* recorded <<event, group, handler>>
    effects,    \* committed effects of each, up to 2
    lost,       \* history: <<event, group>> whose envelope a process exit dropped
    faults, rebalances, crashes

deployment == <<bus, serves>>
relay   == <<cursor, sending, unsent>>
broker  == <<log, position, assigned, evicted>>
loop    == <<pc, next, fetched, handler, nacked>>
stores  == <<markers, effects>>
bounds  == <<faults, rebalances, crashes>>
vars    == <<deployment, relay, broker, loop, stores, lost, bounds>>

-----------------------------------------------------------------------------
Events   == 1 .. NumEvents
Handlers == 1 .. NumHandlers
Deployed == {serves[w] : w \in Workers}
Served(g) == {w \in Workers : serves[w] = g}

Current(w) == log[serves[w]][fetched[w].at]
Mark(w)    == <<Current(w), serves[w], handler[w]>>

Fault == faults < MaxFaults /\ faults' = faults + 1

Goto(w, label) == pc' = [pc EXCEPT ![w] = label]

NoBatch == [first |-> 0, at |-> 0, last |-> 0]

(* Start (or start again) with the first handler of the event at offset i. *)
Deliver(w, batch) ==
    /\ fetched' = [fetched EXCEPT ![w] = batch]
    /\ handler' = [handler EXCEPT ![w] = 1]
    /\ Goto(w, "seen")

(* The loop is between two batches and holds none. *)
Idle(w) ==
    /\ fetched' = [fetched EXCEPT ![w] = NoBatch]
    /\ handler' = [handler EXCEPT ![w] = 1]
    /\ Goto(w, "idle")

-----------------------------------------------------------------------------
(* The relay's side: Publish and the cursor. *)

(* Publish takes a snapshot of the groups that subscribe to the topic. *)
Publish ==
    /\ sending = 0 /\ cursor < NumEvents
    /\ sending' = cursor + 1
    /\ unsent' = Deployed
    /\ UNCHANGED <<deployment, cursor, broker, loop, stores, lost, bounds>>

(* One group's copy: the channel has room, or the broker acks the record. *)
Enqueue(g) ==
    /\ g \in unsent
    /\ bus = "mem" => Len(log[g]) - position[g] < Buffer
    /\ log' = [log EXCEPT ![g] = Append(@, sending)]
    /\ unsent' = unsent \ {g}
    /\ UNCHANGED <<deployment, cursor, sending, position, assigned, evicted, loop,
                   stores, lost, bounds>>

(* Publish returns an error with some groups served, or its success never   *)
(* reaches the cursor: the relay publishes the event to all of them again.  *)
PublishFails ==
    /\ sending # 0 /\ Fault
    /\ sending' = 0 /\ unsent' = {}
    /\ UNCHANGED <<deployment, cursor, broker, loop, stores, lost, rebalances, crashes>>

(* Mutant: the cursor advances once one group has the event. *)
SaveCursorEarly ==
    /\ sending # 0 /\ unsent # Deployed
    /\ cursor' = sending
    /\ sending' = 0 /\ unsent' = {}
    /\ UNCHANGED <<deployment, broker, loop, stores, lost, bounds>>

SaveCursor ==
    /\ sending # 0 /\ unsent = {}
    /\ cursor' = sending
    /\ sending' = 0
    /\ UNCHANGED <<deployment, unsent, broker, loop, stores, lost, bounds>>

-----------------------------------------------------------------------------
(* The in-memory group: run and dispatch. *)

Receive(w) ==
    LET g == serves[w] IN
    /\ bus = "mem" /\ pc[w] = "idle"
    /\ position[g] < Len(log[g])
    /\ position' = [position EXCEPT ![g] = @ + 1]
    /\ Deliver(w, [first |-> position[g] + 1, at |-> position[g] + 1,
                   last |-> position[g] + 1])
    /\ UNCHANGED <<deployment, relay, log, assigned, evicted, next, nacked, stores,
                   lost, bounds>>

(* The Kafka group: consumeGroup polls what is there, in order, and the     *)
(* consume position moves past all of it.                                   *)
PollFetches(w) ==
    LET g == serves[w] IN
    /\ bus = "kafka" /\ pc[w] = "idle"
    /\ assigned[g] = w /\ next[w] <= Len(log[g])
    /\ Deliver(w, [first |-> next[w], at |-> next[w], last |-> Len(log[g])])
    /\ next' = [next EXCEPT ![w] = Len(log[g]) + 1]
    /\ nacked' = [nacked EXCEPT ![w] = FALSE]
    /\ UNCHANGED <<deployment, relay, broker, stores, lost, bounds>>

-----------------------------------------------------------------------------
(* Consumer.deliver: every handler of the event, one after the other. *)

(* The handler is applied: on to the next one, or the event is acked; then  *)
(* dispatch returns, or consumeGroup goes on with its batch.                *)
Applied(w) ==
    IF handler[w] < NumHandlers
    THEN /\ handler' = [handler EXCEPT ![w] = @ + 1]
         /\ Goto(w, "seen")
         /\ UNCHANGED fetched
    ELSE IF fetched[w].at < fetched[w].last
         THEN Deliver(w, [fetched[w] EXCEPT !.at = @ + 1])
         ELSE IF bus = "mem"
              THEN Idle(w)
              ELSE Goto(w, "commit") /\ UNCHANGED <<fetched, handler>>

(* deliver returns an error: dispatch starts over with the envelope,        *)
(* consumeGroup stops its batch at it.                                      *)
Nack(w) ==
    IF bus = "mem"
    THEN Deliver(w, fetched[w]) /\ UNCHANGED nacked
    ELSE /\ nacked' = [nacked EXCEPT ![w] = TRUE]
         /\ Goto(w, "commit")
         /\ UNCHANGED <<fetched, handler>>

(* The fast path: a handler whose marker is there is skipped. *)
Seen(w) ==
    /\ pc[w] = "seen"
    /\ IF Mark(w) \in markers
         THEN Applied(w)
         ELSE Goto(w, "tx") /\ UNCHANGED <<fetched, handler>>
    /\ UNCHANGED <<deployment, relay, broker, next, nacked, stores, lost, bounds>>

Works(w) == ~(handler[w] = NumHandlers /\ <<Current(w), serves[w]>> \in Broken)

(* Mutant: the marker is not unique. *)
CommitTwice(w) ==
    /\ markers' = markers \cup {Mark(w)}
    /\ effects' = [effects EXCEPT ![Mark(w)] = IF @ < 2 THEN @ + 1 ELSE @]

(* The transaction commits the effect and the marker; one whose marker is   *)
(* there already ends in ErrAlreadyApplied and takes its effect back.       *)
CommitOnce(w) ==
    IF Mark(w) \in markers
    THEN UNCHANGED stores
    ELSE /\ markers' = markers \cup {Mark(w)}
         /\ effects' = [effects EXCEPT ![Mark(w)] = IF @ < 2 THEN @ + 1 ELSE @]

Atomically(w) ==
    /\ pc[w] = "tx" /\ Works(w)
    /\ CommitOnce(w)
    /\ Applied(w)
    /\ UNCHANGED <<deployment, relay, broker, next, nacked, lost, bounds>>

(* The handler always fails on this event. *)
HandlerBroken(w) ==
    /\ pc[w] = "tx" /\ ~Works(w)
    /\ Nack(w)
    /\ UNCHANGED <<deployment, relay, broker, next, stores, lost, bounds>>

(* Seen, the handler or the commit fails.  A marker outside the transaction *)
(* stays when the commit does.                                              *)
HandlerFails(w) ==
    /\ pc[w] \in {"seen", "tx"} /\ Fault
    /\ \/ UNCHANGED markers
       \/ ~InTx /\ pc[w] = "tx" /\ Works(w) /\ markers' = markers \cup {Mark(w)}
    /\ Nack(w)
    /\ UNCHANGED <<deployment, relay, broker, next, effects, lost, rebalances, crashes>>

-----------------------------------------------------------------------------
(* consumeGroup after the batch: AllowRebalance, CommitRecords, SetOffsets. *)

(* Mutant: the failed record is committed too. *)
AckedTooFar(w) == fetched[w].at

(* The last offset whose handlers all acked. *)
Acked(w) == IF nacked[w] THEN fetched[w].at - 1 ELSE fetched[w].last

AfterCommit(w) ==
    IF nacked[w]
    THEN Goto(w, "seek") /\ UNCHANGED <<fetched, handler>>
    ELSE Idle(w)

(* The broker takes the offset from any member of the group, the one that   *)
(* has lost the partition since AllowRebalance included.                    *)
CommitRecords(w) ==
    /\ pc[w] = "commit"
    /\ IF Acked(w) >= fetched[w].first
         THEN w \notin evicted /\ position' = [position EXCEPT ![serves[w]] = Acked(w)]
         ELSE UNCHANGED position
    /\ AfterCommit(w)
    /\ UNCHANGED <<deployment, relay, log, assigned, evicted, next, nacked, stores, lost,
                   bounds>>

(* A poll fails: the group's loop ends.  Its client stays a member of the   *)
(* group, and Consume waits for the loops of the process's other groups.    *)
PollFails(w) ==
    /\ bus = "kafka" /\ pc[w] = "idle" /\ Fault
    /\ Goto(w, "ended")
    /\ UNCHANGED <<deployment, relay, broker, next, fetched, handler, nacked, stores, lost,
                   rebalances, crashes>>

(* So it does when the commit fails. *)
CommitFails(w) ==
    /\ pc[w] = "commit" /\ Acked(w) >= fetched[w].first
    /\ \/ w \in evicted /\ UNCHANGED faults
       \/ w \notin evicted /\ Fault
    /\ Goto(w, "ended")
    /\ UNCHANGED <<deployment, relay, broker, next, fetched, handler, nacked, stores, lost,
                   rebalances, crashes>>

(* Mutant: the consume position is left after the batch. *)
SeekForgotten(w) == next

(* SetOffsets: back to the failed record, if the partition is still w's. *)
Seek(w) == IF assigned[serves[w]] = w THEN [next EXCEPT ![w] = fetched[w].at] ELSE next

SetOffsets(w) ==
    /\ pc[w] = "seek"
    /\ next' = Seek(w)
    /\ Idle(w)
    /\ UNCHANGED <<deployment, relay, broker, nacked, stores, lost, bounds>>

-----------------------------------------------------------------------------
(* The broker's group membership, and process exits. *)

(* A member that gets the partition starts at the committed offset. *)
Assign(g, w) ==
    /\ assigned' = [assigned EXCEPT ![g] = w]
    /\ next' = [next EXCEPT ![w] = position[g] + 1]

(* Every member of the group but the ones dropped or gone may be chosen:    *)
(* one whose loop has ended, too.                                           *)
Candidates(g) == {w \in Served(g) : w \notin evicted /\ pc[w] # "dead"}

(* BlockRebalanceOnPoll: not between PollFetches and AllowRebalance. *)
Rebalance(g) ==
    /\ bus = "kafka" /\ rebalances < MaxRebalances
    /\ g \in Deployed /\ pc[assigned[g]] \in {"idle", "commit", "seek", "ended"}
    /\ \E w \in Candidates(g) \ {assigned[g]} : Assign(g, w)
    /\ rebalances' = rebalances + 1
    /\ UNCHANGED <<deployment, relay, log, position, evicted, pc, fetched, handler, nacked,
                   stores, lost, faults, crashes>>

(* A member that takes too long is dropped in the middle of its batch. *)
Evict(g) ==
    /\ bus = "kafka" /\ rebalances < MaxRebalances
    /\ g \in Deployed /\ pc[assigned[g]] \in {"seen", "tx"}
    /\ evicted' = evicted \cup {assigned[g]}
    /\ \E w \in Candidates(g) \ {assigned[g]} : Assign(g, w)
    /\ rebalances' = rebalances + 1
    /\ UNCHANGED <<deployment, relay, log, position, pc, fetched, handler, nacked, stores,
                   lost, faults, crashes>>

(* The dropped member's client joins again once a rebalance is allowed.     *)
Rejoin(w) ==
    /\ w \in evicted /\ pc[w] \in {"idle", "ended"}
    /\ evicted' = evicted \ {w}
    /\ UNCHANGED <<deployment, relay, log, position, assigned, loop, stores, lost, bounds>>

(* The partition of a process that is gone is given to another member. *)
Reassign(g) ==
    /\ bus = "kafka" /\ g \in Deployed /\ pc[assigned[g]] = "dead"
    /\ \E w \in Candidates(g) : Assign(g, w)
    /\ UNCHANGED <<deployment, relay, log, position, evicted, pc, fetched, handler, nacked,
                   stores, lost, bounds>>

(* Envelopes in the channels or half dispatched when the process exits. *)
Dropped ==
    UNION {{<<log[g][i], g>> : i \in {j \in DOMAIN log[g] :
                \/ j > position[g]
                \/ \E w \in Served(g) : pc[w] # "idle" /\ fetched[w].at = j}} :
           g \in Deployed}

(* The one process of the in-memory bus exits, or its context is cancelled: *)
(* the channels are gone, the relay starts again at its cursor.             *)
ExitMem ==
    /\ bus = "mem" /\ crashes < MaxCrashes
    /\ crashes' = crashes + 1
    /\ lost' = lost \cup Dropped
    /\ position' = [g \in Groups |-> Len(log[g])]
    /\ sending' = 0 /\ unsent' = {}
    /\ pc' = [w \in Workers |-> "idle"]
    /\ fetched' = [w \in Workers |-> NoBatch]
    /\ handler' = [w \in Workers |-> 1]
    /\ markers' = IF InTx THEN markers ELSE {}
    /\ UNCHANGED <<deployment, cursor, log, assigned, evicted, next, nacked, effects, faults,
                   rebalances>>

(* A replica of a Kafka group dies, or the error of a loop that has ended,  *)
(* the last one of its process, takes the host down.                        *)
ExitKafka(w) ==
    /\ bus = "kafka" /\ pc[w] # "dead"
    /\ \/ crashes < MaxCrashes /\ crashes' = crashes + 1
       \/ pc[w] = "ended" /\ UNCHANGED crashes
    /\ Goto(w, "dead")
    /\ UNCHANGED <<deployment, relay, broker, next, fetched, handler, nacked, stores, lost,
                   faults, rebalances>>

Restart(w) ==
    /\ pc[w] = "dead"
    /\ Idle(w)
    /\ evicted' = evicted \ {w}
    /\ next' = [next EXCEPT ![w] = position[serves[w]] + 1]
    /\ nacked' = [nacked EXCEPT ![w] = FALSE]
    /\ UNCHANGED <<deployment, relay, log, position, assigned, stores, lost, bounds>>

-----------------------------------------------------------------------------
(* One process with a goroutine per group, or replicas that share groups. *)
Deploys == \E d \in Deployments : bus = d.bus /\ serves = d.serves

Init ==
    /\ Deploys
    /\ cursor = 0 /\ sending = 0 /\ unsent = {}
    /\ log = [g \in Groups |-> <<>>]
    /\ position = [g \in Groups |-> 0]
    /\ assigned = [g \in Groups |-> CHOOSE w \in Workers : g \in Deployed => w \in Served(g)]
    /\ evicted = {}
    /\ pc = [w \in Workers |-> "idle"]
    /\ next = [w \in Workers |-> 1]
    /\ fetched = [w \in Workers |-> NoBatch]
    /\ handler = [w \in Workers |-> 1]
    /\ nacked = [w \in Workers |-> FALSE]
    /\ markers = {}
    /\ effects = [m \in Events \X Groups \X Handlers |-> 0]
    /\ lost = {}
    /\ faults = 0 /\ rebalances = 0 /\ crashes = 0

Relays == Publish \/ (\E g \in Groups : Enqueue(g)) \/ SaveCursor

(* What a consume loop does on its own. *)
Consume(w) ==
    \/ Receive(w) \/ PollFetches(w) \/ Seen(w) \/ Atomically(w) \/ HandlerBroken(w)
    \/ CommitRecords(w) \/ (w \in evicted /\ CommitFails(w)) \/ SetOffsets(w) \/ Rejoin(w)

Environment ==
    \/ PublishFails \/ ExitMem
    \/ \E w \in Workers : \/ HandlerFails(w) \/ PollFails(w) \/ CommitFails(w)
                         \/ ExitKafka(w) \/ Restart(w)
    \/ \E g \in Groups : Rebalance(g) \/ Evict(g) \/ Reassign(g)

Next == Relays \/ (\E w \in Workers : Consume(w)) \/ Environment

Spec == Init /\ [][Next]_vars

(* Loops run, the relay's ticker fires, the broker reassigns the partition  *)
(* of a process that is gone, and one that exited is started again.  A loop *)
(* that has ended is not: nothing in the code starts it, and nothing makes  *)
(* its process exit or its partition move.                                  *)
FairSpec ==
    /\ Spec
    /\ WF_vars(Relays)
    /\ \A w \in Workers : WF_vars(Consume(w)) /\ WF_vars(Restart(w))
    /\ \A g \in Groups : WF_vars(Reassign(g))

-----------------------------------------------------------------------------
(* Properties. *)

(* Types; and what a loop works on, or would fetch next, is within what its *)
(* bus accepted.                                                            *)
TypeOK ==
    /\ bus \in {"mem", "kafka"} /\ serves \in [Workers -> Groups]
    /\ cursor \in 0 .. NumEvents /\ sending \in 0 .. NumEvents /\ sending \in {0, cursor + 1}
    /\ unsent \subseteq Deployed /\ (sending = 0 => unsent = {})
    /\ log \in [Groups -> Seq(Events)]
    /\ position \in [Groups -> Nat] /\ \A g \in Groups : position[g] <= Len(log[g])
    /\ assigned \in [Groups -> Workers] /\ evicted \subseteq Workers
    /\ pc \in [Workers -> {"idle", "seen", "tx", "commit", "seek", "ended", "dead"}]
    /\ next \in [Workers -> Nat \ {0}]
    /\ \A w \in Workers : next[w] <= Len(log[serves[w]]) + 1
    /\ fetched \in [Workers -> [first : Nat, at : Nat, last : Nat]]
    /\ handler \in [Workers -> Handlers] /\ nacked \in [Workers -> BOOLEAN]
    /\ markers \subseteq Events \X Groups \X Handlers
    /\ effects \in [Events \X Groups \X Handlers -> 0 .. 2]
    /\ \A w \in Workers : pc[w] \in {"seen", "tx", "commit", "seek"} =>
          /\ 1 <= fetched[w].first /\ fetched[w].first <= fetched[w].at
          /\ fetched[w].at <= fetched[w].last /\ fetched[w].last <= Len(log[serves[w]])

(* The effects of e are committed for every handler of group g. *)
Done(e, g) == \A h \in Handlers : effects[<<e, g, h>>] > 0

(* Exactly once: no handler's effect is committed twice, whatever is        *)
(* published again, redelivered, or handled by a member that has lost its   *)
(* partition (deliver's marker).                                            *)
EffectOnce == \A m \in DOMAIN effects : effects[m] <= 1

(* The bus moves past an event only when every handler of the group has     *)
(* applied it, or a process exit dropped it (dispatch's retry, the offset   *)
(* committed after the handlers, the seek back to a failed record).         *)
NothingSkipped ==
    \A g \in Deployed : \A i \in 1 .. position[g] :
        \/ Done(log[g][i], g)
        \/ <<log[g][i], g>> \in lost
        \/ bus = "mem" /\ \E w \in Served(g) : pc[w] # "idle" /\ fetched[w].at = i

(* No overtaking: a handler applies an event only after every handler of    *)
(* its group has applied the ones published before it, unless a process     *)
(* exit dropped them.                                                       *)
InOrder ==
    \A e, f \in Events, g \in Deployed, h \in Handlers :
        f < e /\ effects[<<e, g, h>>] > 0 => Done(f, g) \/ <<f, g>> \in lost

(* The group's partition is with a loop that has ended. *)
Stalled(g) == bus = "kafka" /\ pc[assigned[g]] = "ended"

(* An event the relay has published reaches every handler of every group    *)
(* in the end, unless a handler that always fails stands before it, a       *)
(* process exit dropped it, or its partition stays for good with a loop     *)
(* that a failed poll or commit has ended.                                  *)
EventuallyApplied ==
    \A e \in Events, g \in Groups :
        cursor >= e /\ g \in Deployed /\ (\A f \in 1 .. e : <<f, g>> \notin Broken)
            ~> (Done(e, g) \/ <<e, g>> \in lost \/ []Stalled(g))

-----------------------------------------------------------------------------
(* What the documentation says and the code does not do. *)

(* "on process exit, undelivered in-channel messages are lost, which is     *)
(* safe because the RELAY only advances its outbox cursor AFTER the bus     *)
(* accepts the message, so a restart re-publishes from the outbox"          *)
(* (membus.go): what is dropped is still ahead of the cursor.               *)
RestartRepublishes == \A e \in Events, g \in Deployed :
    <<e, g>> \in lost /\ ~Done(e, g) => cursor < e

(* "then block delivering records to the registered handlers until ctx is   *)
(* cancelled" (Bus.Consume of kafkabus): a loop that has ended delivers     *)
(* none.                                                                    *)
DeliversUntilCancelled ==
    \A e \in Events, g \in Groups :
        cursor >= e /\ g \in Deployed /\ (\A f \in 1 .. e : <<f, g>> \notin Broken)
            ~> Done(e, g) \/ <<e, g>> \in lost
=============================================================================
