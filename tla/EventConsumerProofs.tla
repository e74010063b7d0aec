------------------------ MODULE EventConsumerProofs -------------------------
(***************************************************************************)
(* Proofs about EventConsumer, for every number of events and handlers,    *)
(* every set of groups and loops, both buses and any bound on faults,      *)
(* rebalances and crashes.                                                 *)
(***************************************************************************)
EXTENDS EventConsumer, Integers, TLAPS

InTransaction == InTx = TRUE

Working == {"seen", "tx", "commit", "seek"}
Over    == {"ended", "dead"}
Pcs     == Working \cup {"idle"} \cup Over
Batches == [first : Nat, at : Nat, last : Nat]
Marks   == Events \X Groups \X Handlers

-----------------------------------------------------------------------------
(* The inductive invariant. *)

(* Done, and Done for the first n events of a log, over given effects. *)
DoneIn(eff, e, g) == \A h \in Handlers : eff[<<e, g, h>>] > 0

UpTo(eff, s, g, n) == \A i \in 1 .. n : DoneIn(eff, s[i], g)

(* The events that the first n positions of g's log hold are applied. *)
DoneUpTo(g, n) == UpTo(effects, log[g], g, n)

(* The marker is there exactly when the effect is, and then once. *)
Stored == \A m \in Marks : effects[m] = IF m \in markers THEN 1 ELSE 0

(* A loop at a handler has applied the ones before it. *)
Progress ==
    \A w \in Workers : pc[w] \in {"seen", "tx"} =>
        \A h \in Handlers : h < handler[w] => effects[<<Current(w), serves[w], h>>] > 0

(* Kafka: what is committed, what a batch has left behind, and what lies    *)
(* before the offset that the partition's holder would fetch next, is       *)
(* applied.  During a batch that offset is past the batch, or the committed *)
(* one, when the partition was lost and has come back.                      *)
LoopOK(w) ==
    /\ pc[w] \in Working => DoneUpTo(serves[w], fetched[w].at - 1)
    /\ pc[w] = "commit" /\ ~nacked[w] => DoneUpTo(serves[w], fetched[w].last)
    /\ assigned[serves[w]] = w =>
          /\ pc[w] = "idle" => DoneUpTo(serves[w], next[w] - 1)
          /\ pc[w] \in Working =>
                next[w] = fetched[w].last + 1 \/ DoneUpTo(serves[w], next[w] - 1)

OffsetsOK ==
    bus = "kafka" =>
        /\ \A g \in Groups : DoneUpTo(g, position[g])
        /\ \A w \in Workers : LoopOK(w)

(* In memory: one loop for a group, which is at a received envelope. *)
ChannelsOK ==
    bus = "mem" =>
        /\ \A v, w \in Workers : serves[v] = serves[w] => v = w
        /\ \A w \in Workers : pc[w] \in {"idle", "seen", "tx"}
        /\ \A w \in Workers : pc[w] # "idle" =>
              fetched[w].at <= position[serves[w]] /\ fetched[w].last = fetched[w].at

(* An event is behind all the earlier ones in every log, and the relay has  *)
(* moved on only when every group has it.                                   *)
LogOK ==
    /\ \A g \in Groups : \A j \in 1 .. Len(log[g]) : \A f \in Events :
          f < log[g][j] => \E i \in 1 .. (j - 1) : log[g][i] = f
    /\ \A g \in Deployed, e \in Events :
          e <= cursor \/ (e = sending /\ g \notin unsent) =>
              \E i \in 1 .. Len(log[g]) : log[g][i] = e

ConsumerInv ==
    /\ TypeOK
    /\ Stored
    /\ Progress
    /\ OffsetsOK
    /\ ChannelsOK
    /\ NothingSkipped
    /\ LogOK
    /\ InOrder

-----------------------------------------------------------------------------
(* Types, in parts. *)

RelayTypes ==
    /\ bus \in {"mem", "kafka"} /\ serves \in [Workers -> Groups]
    /\ cursor \in 0 .. NumEvents /\ sending \in 0 .. NumEvents /\ sending \in {0, cursor + 1}
    /\ unsent \subseteq Deployed /\ (sending = 0 => unsent = {})

LogTypes ==
    /\ log \in [Groups -> Seq(Events)]
    /\ position \in [Groups -> Nat] /\ \A g \in Groups : position[g] <= Len(log[g])

MemberTypes == assigned \in [Groups -> Workers] /\ evicted \subseteq Workers

LoopTypes ==
    /\ pc \in [Workers -> Pcs] /\ next \in [Workers -> Nat \ {0}]
    /\ fetched \in [Workers -> Batches]
    /\ handler \in [Workers -> Handlers] /\ nacked \in [Workers -> BOOLEAN]

(* What a loop works on lies in its log. *)
LoopBounds ==
    /\ \A w \in Workers : next[w] <= Len(log[serves[w]]) + 1
    /\ \A w \in Workers : pc[w] \in Working =>
          /\ 1 <= fetched[w].first /\ fetched[w].first <= fetched[w].at
          /\ fetched[w].at <= fetched[w].last /\ fetched[w].last <= Len(log[serves[w]])

StoreTypes == markers \subseteq Marks /\ effects \in [Marks -> 0 .. 2]

LEMMA TypeParts ==
    TypeOK <=> /\ RelayTypes /\ LogTypes /\ MemberTypes /\ LoopTypes /\ LoopBounds
               /\ StoreTypes
<1>1. Pcs = {"idle", "seen", "tx", "commit", "seek", "ended", "dead"}
  BY DEF Pcs, Working, Over
<1> QED
  BY <1>1 DEF TypeOK, RelayTypes, LogTypes, MemberTypes, LoopTypes, LoopBounds, StoreTypes,
              Batches, Marks, Working

LEMMA TypePartsNext ==
    ASSUME RelayTypes', LogTypes', MemberTypes', LoopTypes', LoopBounds', StoreTypes'
    PROVE  TypeOK'
BY TypeParts, PTL

LEMMA AppendFacts ==
    ASSUME NEW S, NEW s \in Seq(S), NEW e \in S
    PROVE  /\ Append(s, e) \in Seq(S) /\ Len(s) \in Nat /\ Len(Append(s, e)) = Len(s) + 1
           /\ \A i \in 1 .. Len(s) : Append(s, e)[i] = s[i]
           /\ Append(s, e)[Len(s) + 1] = e
OBVIOUS

LEMMA Constants ==
    /\ NumEvents \in Nat \ {0} /\ NumHandlers \in Nat \ {0}
    /\ 1 \in Handlers /\ \A h \in Handlers : h \in Nat /\ 1 <= h /\ h <= NumHandlers
    /\ \A e \in Events : e \in Nat /\ 1 <= e /\ e <= NumEvents
BY ConsumerAssumption DEF Events, Handlers

(* What the types say of one group and of one loop. *)
LEMMA GroupFacts ==
    ASSUME TypeOK, NEW g \in Groups
    PROVE  /\ log[g] \in Seq(Events) /\ Len(log[g]) \in Nat
           /\ position[g] \in Nat /\ position[g] <= Len(log[g])
           /\ assigned[g] \in Workers
           /\ \A i \in 1 .. Len(log[g]) : log[g][i] \in Events
<1>1. log[g] \in Seq(Events) /\ position[g] \in Nat /\ position[g] <= Len(log[g])
  BY TypeParts DEF LogTypes
<1>2. assigned[g] \in Workers
  BY TypeParts DEF MemberTypes
<1> QED BY <1>1, <1>2

LEMMA LoopFacts ==
    ASSUME TypeOK, NEW w \in Workers
    PROVE  /\ serves[w] \in Groups /\ serves[w] \in Deployed /\ Len(log[serves[w]]) \in Nat
           /\ pc[w] \in Pcs /\ handler[w] \in Handlers /\ handler[w] \in Nat
           /\ 1 <= handler[w] /\ handler[w] <= NumHandlers
           /\ nacked[w] \in BOOLEAN
           /\ next[w] \in Nat /\ 1 <= next[w] /\ next[w] <= Len(log[serves[w]]) + 1
           /\ fetched[w] \in Batches /\ fetched[w].first \in Nat /\ fetched[w].at \in Nat
           /\ fetched[w].last \in Nat
<1>1. serves[w] \in Groups /\ serves[w] \in Deployed
  BY TypeParts DEF RelayTypes, Deployed
<1>2. /\ pc[w] \in Pcs /\ handler[w] \in Handlers /\ nacked[w] \in BOOLEAN
      /\ next[w] \in Nat \ {0} /\ fetched[w] \in Batches
  BY TypeParts DEF LoopTypes
<1>3. Len(log[serves[w]]) \in Nat
  BY <1>1, GroupFacts
<1>4. next[w] <= Len(log[serves[w]]) + 1
  BY TypeParts DEF LoopBounds
<1>5. fetched[w].first \in Nat /\ fetched[w].at \in Nat /\ fetched[w].last \in Nat
  BY <1>2 DEF Batches
<1>6. handler[w] \in Nat /\ 1 <= handler[w] /\ handler[w] <= NumHandlers
  BY <1>2, Constants
<1>7. next[w] \in Nat /\ 1 <= next[w]
  BY <1>2
<1> QED BY <1>1, <1>2, <1>3, <1>4, <1>5, <1>6, <1>7

LEMMA CurrentFacts ==
    ASSUME TypeOK, NEW w \in Workers, pc[w] \in Working
    PROVE  /\ 1 <= fetched[w].first /\ fetched[w].first <= fetched[w].at
           /\ fetched[w].at <= fetched[w].last /\ fetched[w].last <= Len(log[serves[w]])
           /\ fetched[w].at \in 1 .. Len(log[serves[w]])
           /\ Current(w) \in Events /\ Mark(w) \in Marks
<1>1. /\ 1 <= fetched[w].first /\ fetched[w].first <= fetched[w].at
      /\ fetched[w].at <= fetched[w].last /\ fetched[w].last <= Len(log[serves[w]])
  BY TypeParts DEF LoopBounds
<1>2. fetched[w].at \in 1 .. Len(log[serves[w]])
  BY <1>1, LoopFacts
<1>3. Current(w) \in Events
  BY <1>2, LoopFacts, GroupFacts DEF Current
<1> QED BY <1>1, <1>2, <1>3, LoopFacts DEF Mark, Marks

LEMMA TypeInit == Init => TypeOK
<1> SUFFICES ASSUME Init PROVE TypeOK
  OBVIOUS
<1>1. bus \in {"mem", "kafka"} /\ serves \in [Workers -> Groups]
  BY ConsumerAssumption DEF Init, Deploys
<1>2. RelayTypes
  BY <1>1, Constants DEF Init, RelayTypes
<1>3. MemberTypes
  <2>1. ASSUME NEW g \in Groups PROVE \E w \in Workers : g \in Deployed => w \in Served(g)
    BY <1>1, ConsumerAssumption DEF Deployed, Served
  <2>2. ASSUME NEW g \in Groups
        PROVE  (CHOOSE w \in Workers : g \in Deployed => w \in Served(g)) \in Workers
    BY <2>1
  <2> QED BY <2>2 DEF Init, MemberTypes
<1>4. LogTypes
  BY DEF Init, LogTypes
<1>5. NoBatch \in Batches
  BY DEF NoBatch, Batches
<1>6. LoopTypes
  BY <1>5, Constants DEF Init, LoopTypes, Pcs
<1>7. LoopBounds
  <2>1. ASSUME NEW w \in Workers
        PROVE  pc[w] \notin Working /\ next[w] = 1 /\ Len(log[serves[w]]) = 0
    BY <1>1 DEF Init, Working
  <2> QED BY <2>1 DEF LoopBounds
<1>8. StoreTypes
  BY DEF Init, StoreTypes, Marks
<1> QED BY <1>2, <1>3, <1>4, <1>6, <1>7, <1>8, TypeParts

-----------------------------------------------------------------------------
(* Every action preserves the types. *)

LEMMA RelayType ==
    ASSUME TypeOK, Relays \/ PublishFails
    PROVE  TypeOK'
<1> RelayTypes /\ LogTypes /\ MemberTypes /\ LoopTypes /\ LoopBounds /\ StoreTypes
  BY TypeParts
<1>a. ASSUME UNCHANGED <<deployment, broker, loop, stores>>
      PROVE  LogTypes' /\ MemberTypes' /\ LoopTypes' /\ LoopBounds' /\ StoreTypes'
  BY <1>a DEF deployment, broker, loop, stores, LogTypes, MemberTypes, LoopTypes, LoopBounds,
              StoreTypes
<1>b. ASSUME UNCHANGED deployment PROVE Deployed' = Deployed
  BY <1>b DEF deployment, Deployed
<1>1. ASSUME Publish PROVE TypeOK'
  <2>1. UNCHANGED <<deployment, broker, loop, stores>>
    BY <1>1 DEF Publish
  <2>2. sending' \in 0 .. NumEvents /\ sending' = cursor + 1 /\ sending' # 0
    BY <1>1, Constants DEF Publish, RelayTypes
  <2>3. RelayTypes'
    BY <1>1, <1>b, <2>1, <2>2 DEF RelayTypes, Publish, deployment
  <2> QED BY <2>1, <1>a, <2>3, TypePartsNext
<1>2. ASSUME PublishFails \/ SaveCursor PROVE TypeOK'
  <2>1. UNCHANGED <<deployment, broker, loop, stores>>
    BY <1>2 DEF PublishFails, SaveCursor
  <2>2. cursor' \in 0 .. NumEvents /\ sending' = 0 /\ unsent' = {}
    BY <1>2 DEF PublishFails, SaveCursor, RelayTypes
  <2>3. RelayTypes'
    BY <2>1, <2>2, Constants DEF RelayTypes, deployment
  <2> QED BY <2>1, <1>a, <2>3, TypePartsNext
<1>3. ASSUME NEW g \in Groups, Enqueue(g) PROVE TypeOK'
  <2>0. UNCHANGED <<deployment, cursor, sending, position, assigned, evicted, loop, stores>>
    BY <1>3 DEF Enqueue
  <2>1. sending \in Events
    BY <1>3, Constants DEF Enqueue, RelayTypes, Events
  <2>2. log' = [log EXCEPT ![g] = Append(log[g], sending)]
    BY <1>3 DEF Enqueue
  <2>3. Append(log[g], sending) \in Seq(Events) /\ Len(Append(log[g], sending)) = Len(log[g]) + 1
    BY <2>1, GroupFacts, AppendFacts
  <2>4. log' \in [Groups -> Seq(Events)]
    BY <2>2, <2>3 DEF LogTypes
  <2>5. ASSUME NEW x \in Groups
        PROVE  Len(log[x]) \in Nat /\ Len(log'[x]) \in Nat /\ Len(log'[x]) >= Len(log[x])
    BY <2>2, <2>3, GroupFacts DEF LogTypes
  <2>6. LogTypes'
    BY <2>0, <2>4, <2>5, GroupFacts DEF LogTypes
  <2>7. LoopBounds'
    <3> SUFFICES ASSUME NEW w \in Workers
                 PROVE  /\ next[w] <= Len(log'[serves[w]]) + 1
                        /\ pc[w] \in Working =>
                             /\ 1 <= fetched[w].first /\ fetched[w].first <= fetched[w].at
                             /\ fetched[w].at <= fetched[w].last
                             /\ fetched[w].last <= Len(log'[serves[w]])
      BY <2>0 DEF LoopBounds, loop, deployment
    <3> QED BY <2>5, LoopFacts, CurrentFacts
  <2>8. RelayTypes'
    BY <1>3, <1>b, <2>0 DEF Enqueue, RelayTypes, deployment
  <2> QED
    BY <2>0, <2>6, <2>7, <2>8, TypePartsNext
       DEF loop, stores, MemberTypes, LoopTypes, StoreTypes
<1> QED BY <1>1, <1>2, <1>3 DEF Relays

(* w's loop goes to l, with batch b, at handler h. *)
Moved(w, l, b, h) ==
    /\ pc' = [pc EXCEPT ![w] = l]
    /\ fetched' = [fetched EXCEPT ![w] = b]
    /\ handler' = [handler EXCEPT ![w] = h]

LEMMA MovedAt ==
    ASSUME TypeOK, NEW w \in Workers, NEW l, NEW b, NEW h, Moved(w, l, b, h)
    PROVE  /\ pc'[w] = l /\ fetched'[w] = b /\ handler'[w] = h
           /\ \A v \in Workers \ {w} :
                 pc'[v] = pc[v] /\ fetched'[v] = fetched[v] /\ handler'[v] = handler[v]
<1> LoopTypes
  BY TypeParts
<1> QED BY DEF LoopTypes, Moved

LEMMA MovedType ==
    ASSUME TypeOK, NEW w \in Workers, NEW l \in Pcs, NEW b \in Batches, NEW h \in Handlers,
           Moved(w, l, b, h), serves' = serves, log' = log,
           l \in Working => /\ 1 <= b.first /\ b.first <= b.at
                            /\ b.at <= b.last /\ b.last <= Len(log[serves[w]]),
           next' \in [Workers -> Nat \ {0}], nacked' \in [Workers -> BOOLEAN],
           \A v \in Workers : next'[v] <= Len(log[serves[v]]) + 1
    PROVE  LoopTypes' /\ LoopBounds'
<1> LoopTypes /\ LoopBounds
  BY TypeParts
<1>1. LoopTypes'
  BY DEF LoopTypes, Moved
<1>2. ASSUME NEW v \in Workers, pc'[v] \in Working
      PROVE  /\ 1 <= fetched'[v].first /\ fetched'[v].first <= fetched'[v].at
             /\ fetched'[v].at <= fetched'[v].last
             /\ fetched'[v].last <= Len(log[serves[v]])
  <2>1. CASE v = w
    BY <2>1, <1>2, MovedAt
  <2>2. CASE v # w
    BY <2>2, <1>2, MovedAt, CurrentFacts
  <2> QED BY <2>1, <2>2
<1> QED BY <1>1, <1>2 DEF LoopBounds

(* The helpers of the actions, as moves. *)
LEMMA Stays ==
    ASSUME TypeOK, NEW w \in Workers
    PROVE  /\ fetched = [fetched EXCEPT ![w] = fetched[w]]
           /\ handler = [handler EXCEPT ![w] = handler[w]]
           /\ pc = [pc EXCEPT ![w] = pc[w]]
<1> LoopTypes
  BY TypeParts
<1> QED BY DEF LoopTypes

LEMMA DeliverMoves ==
    ASSUME NEW w \in Workers, NEW b, Deliver(w, b)
    PROVE  Moved(w, "seen", b, 1)
BY DEF Deliver, Goto, Moved

LEMMA IdleMoves ==
    ASSUME NEW w \in Workers, Idle(w)
    PROVE  Moved(w, "idle", NoBatch, 1)
BY DEF Idle, Goto, Moved

LEMMA GotoMoves ==
    ASSUME TypeOK, NEW w \in Workers, NEW l, Goto(w, l), UNCHANGED <<fetched, handler>>
    PROVE  Moved(w, l, fetched[w], handler[w])
BY Stays DEF Goto, Moved

(* The next envelope of the batch. *)
NextOf(b) == [b EXCEPT !.at = @ + 1]

LEMMA AppliedMoves ==
    ASSUME TypeOK, NEW w \in Workers, pc[w] \in {"seen", "tx"}, Applied(w)
    PROVE  \/ handler[w] < NumHandlers /\ Moved(w, "seen", fetched[w], handler[w] + 1)
           \/ /\ handler[w] = NumHandlers /\ fetched[w].at < fetched[w].last
              /\ Moved(w, "seen", NextOf(fetched[w]), 1)
           \/ /\ handler[w] = NumHandlers /\ fetched[w].at = fetched[w].last /\ bus = "mem"
              /\ Moved(w, "idle", NoBatch, 1)
           \/ /\ handler[w] = NumHandlers /\ fetched[w].at = fetched[w].last /\ bus = "kafka"
              /\ Moved(w, "commit", fetched[w], handler[w])
<1>0. pc[w] \in Working
  BY DEF Working
<1>1. CASE handler[w] < NumHandlers
  <2>1. Moved(w, "seen", fetched[w], handler[w] + 1)
    BY <1>1, Stays DEF Applied, Goto, Moved
  <2> QED BY <1>1, <2>1
<1>2. CASE ~(handler[w] < NumHandlers) /\ fetched[w].at < fetched[w].last
  <2>1. Moved(w, "seen", NextOf(fetched[w]), 1)
    BY <1>2, DeliverMoves DEF Applied, NextOf
  <2> QED BY <1>2, <2>1, LoopFacts, Constants
<1>3. CASE ~(handler[w] < NumHandlers) /\ ~(fetched[w].at < fetched[w].last) /\ bus = "mem"
  <2>1. Moved(w, "idle", NoBatch, 1)
    BY <1>3, IdleMoves DEF Applied
  <2> QED BY <1>3, <2>1, <1>0, LoopFacts, CurrentFacts, Constants
<1>4. CASE ~(handler[w] < NumHandlers) /\ ~(fetched[w].at < fetched[w].last) /\ bus # "mem"
  <2>1. Moved(w, "commit", fetched[w], handler[w])
    BY <1>4, GotoMoves DEF Applied
  <2>2. bus = "kafka"
    BY <1>4, TypeParts DEF RelayTypes
  <2> QED BY <1>4, <2>1, <2>2, <1>0, LoopFacts, CurrentFacts, Constants
<1> QED BY <1>1, <1>2, <1>3, <1>4

LEMMA NackMoves ==
    ASSUME TypeOK, NEW w \in Workers, Nack(w)
    PROVE  \/ bus = "mem" /\ Moved(w, "seen", fetched[w], 1) /\ nacked' = nacked
           \/ /\ bus = "kafka" /\ Moved(w, "commit", fetched[w], handler[w])
              /\ nacked' = [nacked EXCEPT ![w] = TRUE]
<1>1. CASE bus = "mem"
  BY <1>1, DeliverMoves DEF Nack
<1>2. CASE bus # "mem"
  <2>1. bus = "kafka"
    BY <1>2, TypeParts DEF RelayTypes
  <2> QED BY <1>2, <2>1, GotoMoves DEF Nack
<1> QED BY <1>1, <1>2

LEMMA BatchFacts ==
    /\ NoBatch \in Batches
    /\ \A b \in Batches : /\ NextOf(b) \in Batches /\ NextOf(b).first = b.first
                          /\ NextOf(b).at = b.at + 1 /\ NextOf(b).last = b.last
BY DEF NoBatch, Batches, NextOf

(* What a loop's move leaves alone of the other types. *)
LEMMA OtherTypes ==
    ASSUME TypeOK, UNCHANGED deployment
    PROVE  /\ UNCHANGED relay => RelayTypes'
           /\ UNCHANGED <<log, position>> => LogTypes'
           /\ UNCHANGED assigned /\ evicted' \subseteq evicted => MemberTypes'
           /\ UNCHANGED stores => StoreTypes'
<1> RelayTypes /\ LogTypes /\ MemberTypes /\ StoreTypes
  BY TypeParts
<1>1. serves' = serves /\ bus' = bus /\ Deployed' = Deployed
  BY DEF deployment, Deployed
<1>2. ASSUME UNCHANGED relay PROVE RelayTypes'
  BY <1>1, <1>2 DEF relay, RelayTypes
<1>3. ASSUME UNCHANGED <<log, position>> PROVE LogTypes'
  BY <1>3 DEF LogTypes
<1>4. ASSUME UNCHANGED assigned, evicted' \subseteq evicted PROVE MemberTypes'
  BY <1>4 DEF MemberTypes
<1>5. ASSUME UNCHANGED stores PROVE StoreTypes'
  BY <1>5 DEF stores, StoreTypes
<1> QED BY <1>2, <1>3, <1>4, <1>5

LEMMA NextBounds ==
    ASSUME TypeOK
    PROVE  /\ next \in [Workers -> Nat \ {0}] /\ nacked \in [Workers -> BOOLEAN]
           /\ \A v \in Workers : next[v] <= Len(log[serves[v]]) + 1
BY TypeParts DEF LoopTypes, LoopBounds

(* w's consume position is set to n. *)
LEMMA NextSet ==
    ASSUME TypeOK, NEW w \in Workers, NEW n \in Nat \ {0}, n <= Len(log[serves[w]]) + 1,
           next' = [next EXCEPT ![w] = n]
    PROVE  /\ next' \in [Workers -> Nat \ {0}]
           /\ \A v \in Workers : next'[v] <= Len(log[serves[v]]) + 1
           /\ next'[w] = n /\ \A v \in Workers \ {w} : next'[v] = next[v]
BY NextBounds

LEMMA NackedSet ==
    ASSUME TypeOK, NEW w \in Workers, NEW x \in BOOLEAN, nacked' = [nacked EXCEPT ![w] = x]
    PROVE  /\ nacked' \in [Workers -> BOOLEAN]
           /\ nacked'[w] = x /\ \A v \in Workers \ {w} : nacked'[v] = nacked[v]
BY NextBounds

LEMMA CommitTypes ==
    ASSUME TypeOK, NEW w \in Workers, pc[w] \in Working, CommitOnce(w)
    PROVE  StoreTypes'
<1> StoreTypes /\ Mark(w) \in Marks
  BY TypeParts, CurrentFacts
<1> QED BY DEF CommitOnce, stores, StoreTypes

(* A handler was applied, or failed. *)
LEMMA HandledType ==
    ASSUME TypeOK, NEW w \in Workers, pc[w] \in {"seen", "tx"},
           (Applied(w) /\ nacked' = nacked) \/ Nack(w),
           serves' = serves, log' = log, next' = next
    PROVE  LoopTypes' /\ LoopBounds'
<1>0. pc[w] \in Working /\ "seen" \in Pcs /\ "idle" \in Pcs /\ "commit" \in Pcs
  BY DEF Working, Pcs
<1>n. /\ next' \in [Workers -> Nat \ {0}]
      /\ \A v \in Workers : next'[v] <= Len(log[serves[v]]) + 1
  BY NextBounds
<1>1. nacked' \in [Workers -> BOOLEAN]
  BY NackMoves, NackedSet, NextBounds
<1>2. CASE Moved(w, "seen", fetched[w], 1) \/ Moved(w, "commit", fetched[w], handler[w])
  <2>1. CASE Moved(w, "seen", fetched[w], 1)
    BY <2>1, <1>0, <1>n, <1>1, LoopFacts, CurrentFacts, Constants, MovedType
  <2>2. CASE Moved(w, "commit", fetched[w], handler[w])
    BY <2>2, <1>0, <1>n, <1>1, LoopFacts, CurrentFacts, Constants, MovedType
  <2> QED BY <1>2, <2>1, <2>2
<1>3. CASE handler[w] < NumHandlers /\ Moved(w, "seen", fetched[w], handler[w] + 1)
  <2>1. handler[w] + 1 \in Handlers
    BY <1>3, LoopFacts, Constants DEF Handlers
  <2> QED BY <1>3, <2>1, <1>0, <1>n, <1>1, LoopFacts, CurrentFacts, MovedType
<1>4. CASE fetched[w].at < fetched[w].last /\ Moved(w, "seen", NextOf(fetched[w]), 1)
  <2>1. /\ NextOf(fetched[w]) \in Batches /\ NextOf(fetched[w]).first = fetched[w].first
        /\ NextOf(fetched[w]).at = fetched[w].at + 1
        /\ NextOf(fetched[w]).last = fetched[w].last
    BY LoopFacts, BatchFacts
  <2>2. /\ 1 <= NextOf(fetched[w]).first
        /\ NextOf(fetched[w]).first <= NextOf(fetched[w]).at
        /\ NextOf(fetched[w]).at <= NextOf(fetched[w]).last
        /\ NextOf(fetched[w]).last <= Len(log[serves[w]])
    BY <1>4, <2>1, <1>0, LoopFacts, CurrentFacts
  <2> QED BY <1>4, <2>1, <2>2, <1>0, <1>n, <1>1, Constants, MovedType
<1>5. CASE Moved(w, "idle", NoBatch, 1)
  <2>1. "idle" \notin Working
    BY DEF Working
  <2> QED BY <1>5, <2>1, <1>0, <1>n, <1>1, BatchFacts, Constants, MovedType
<1> QED BY <1>2, <1>3, <1>4, <1>5, AppliedMoves, NackMoves

LEMMA ConsumeType ==
    ASSUME TypeOK, NEW w \in Workers, Consume(w)
    PROVE  TypeOK'
<1> /\ RelayTypes /\ LogTypes /\ MemberTypes /\ LoopTypes /\ LoopBounds /\ StoreTypes
    /\ "seen" \in Pcs /\ "idle" \in Pcs /\ "seek" \in Pcs /\ "idle" \notin Working
    /\ "tx" \in Pcs
  BY TypeParts DEF Pcs, Working
<1> DEFINE g == serves[w]
<1>g. g \in Groups
  BY LoopFacts
<1>1. ASSUME Receive(w) PROVE TypeOK'
  <2>1. UNCHANGED <<deployment, relay, log, assigned, evicted, next, nacked, stores>>
    BY <1>1 DEF Receive
  <2>2. serves' = serves /\ log' = log /\ next' = next /\ nacked' = nacked
    BY <2>1 DEF deployment
  <2>3. position[g] < Len(log[g]) /\ position' = [position EXCEPT ![g] = position[g] + 1]
    BY <1>1 DEF Receive
  <2>4. LogTypes'
    BY <2>2, <2>3, <1>g, GroupFacts DEF LogTypes
  <2> DEFINE b == [first |-> position[g] + 1, at |-> position[g] + 1, last |-> position[g] + 1]
  <2>5. Moved(w, "seen", b, 1)
    BY <1>1, DeliverMoves DEF Receive
  <2>6. b \in Batches /\ 1 <= b.first /\ b.first <= b.at /\ b.at <= b.last /\ b.last <= Len(log[g])
    BY <2>3, <1>g, GroupFacts DEF Batches
  <2> HIDE DEF b
  <2>7. LoopTypes' /\ LoopBounds'
    BY <2>2, <2>5, <2>6, NextBounds, Constants, MovedType
  <2> QED BY <2>1, <2>4, <2>7, OtherTypes, TypePartsNext
<1>2. ASSUME PollFetches(w) PROVE TypeOK'
  <2>1. UNCHANGED <<deployment, relay, broker, stores>>
    BY <1>2 DEF PollFetches
  <2>2. serves' = serves /\ log' = log /\ UNCHANGED <<position, assigned, evicted>>
    BY <2>1 DEF deployment, broker
  <2>3. /\ next[w] <= Len(log[g]) /\ next' = [next EXCEPT ![w] = Len(log[g]) + 1]
        /\ nacked' = [nacked EXCEPT ![w] = FALSE]
    BY <1>2 DEF PollFetches
  <2> DEFINE b == [first |-> next[w], at |-> next[w], last |-> Len(log[g])]
  <2>4. Moved(w, "seen", b, 1)
    BY <1>2, DeliverMoves DEF PollFetches
  <2>5. b \in Batches /\ 1 <= b.first /\ b.first <= b.at /\ b.at <= b.last /\ b.last <= Len(log[g])
    BY <2>3, <1>g, GroupFacts, LoopFacts DEF Batches
  <2> HIDE DEF b
  <2>6. /\ next' \in [Workers -> Nat \ {0}]
        /\ \A v \in Workers : next'[v] <= Len(log[serves[v]]) + 1
    <3>1. Len(log[g]) + 1 \in Nat \ {0} /\ Len(log[g]) + 1 <= Len(log[serves[w]]) + 1
      BY <1>g, GroupFacts
    <3> QED BY <3>1, <2>3, NextSet
  <2>7. nacked' \in [Workers -> BOOLEAN]
    BY <2>3, NackedSet
  <2>8. LoopTypes' /\ LoopBounds'
    BY <2>2, <2>4, <2>5, <2>6, <2>7, Constants, MovedType
  <2> QED BY <2>1, <2>2, <2>8, OtherTypes, TypePartsNext
<1>3. ASSUME Seen(w) \/ Atomically(w) \/ HandlerBroken(w) PROVE TypeOK'
  <2>1. UNCHANGED <<deployment, relay, broker, next>> /\ pc[w] \in {"seen", "tx"}
    BY <1>3 DEF Seen, Atomically, HandlerBroken
  <2>2. /\ serves' = serves /\ log' = log /\ next' = next
        /\ UNCHANGED <<log, position, assigned, evicted>> /\ pc[w] \in Working
    BY <2>1 DEF deployment, broker, Working
  <2>3. StoreTypes'
    BY <1>3, <2>1, <2>2, OtherTypes, CommitTypes DEF Seen, Atomically, HandlerBroken
  <2>4. LoopTypes' /\ LoopBounds'
    <3>1. CASE (Applied(w) /\ nacked' = nacked) \/ Nack(w)
      BY <3>1, <2>1, <2>2, HandledType
    <3>2. CASE Goto(w, "tx") /\ UNCHANGED <<fetched, handler>> /\ nacked' = nacked
      BY <3>2, <2>2, GotoMoves, LoopFacts, CurrentFacts, NextBounds, MovedType
    <3> QED BY <3>1, <3>2, <1>3 DEF Seen, Atomically, HandlerBroken
  <2> QED BY <2>1, <2>2, <2>3, <2>4, OtherTypes, TypePartsNext
<1>4. ASSUME CommitRecords(w) PROVE TypeOK'
  <2>1. /\ UNCHANGED <<deployment, relay, log, assigned, evicted, next, nacked, stores>>
        /\ pc[w] = "commit"
    BY <1>4 DEF CommitRecords
  <2>2. serves' = serves /\ log' = log /\ next' = next /\ nacked' = nacked /\ pc[w] \in Working
    BY <2>1 DEF deployment, Working
  <2>3. LogTypes'
    <3>1. CASE position' = position
      BY <3>1, <2>2, OtherTypes, <2>1
    <3>2. CASE Acked(w) >= fetched[w].first /\ position' = [position EXCEPT ![g] = Acked(w)]
      <4>1. Acked(w) \in Nat /\ Acked(w) <= Len(log[g])
        BY <3>2, <2>2, LoopFacts, CurrentFacts DEF Acked
      <4> QED BY <4>1, <3>2, <2>2, <1>g, GroupFacts DEF LogTypes
    <3> QED BY <3>1, <3>2, <1>4 DEF CommitRecords
  <2>4. CASE nacked[w]
    <3>1. Moved(w, "seek", fetched[w], handler[w])
      BY <2>4, <1>4, GotoMoves DEF CommitRecords, AfterCommit
    <3>2. LoopTypes' /\ LoopBounds'
      BY <3>1, <2>2, LoopFacts, CurrentFacts, NextBounds, MovedType
    <3> QED BY <2>1, <2>3, <3>2, OtherTypes, TypePartsNext
  <2>5. CASE ~nacked[w]
    <3>1. Moved(w, "idle", NoBatch, 1)
      BY <2>5, <1>4, IdleMoves DEF CommitRecords, AfterCommit
    <3>2. LoopTypes' /\ LoopBounds'
      BY <3>1, <2>2, BatchFacts, Constants, NextBounds, MovedType
    <3> QED BY <2>1, <2>3, <3>2, OtherTypes, TypePartsNext
  <2> QED BY <2>4, <2>5
<1>5. ASSUME SetOffsets(w) PROVE TypeOK'
  <2>1. UNCHANGED <<deployment, relay, broker, nacked, stores>> /\ pc[w] \in Working
    BY <1>5 DEF SetOffsets, Working
  <2>2. serves' = serves /\ log' = log /\ nacked' = nacked /\ UNCHANGED <<position, assigned, evicted>>
    BY <2>1 DEF deployment, broker
  <2>3. /\ next' \in [Workers -> Nat \ {0}]
        /\ \A v \in Workers : next'[v] <= Len(log[serves[v]]) + 1
    <3>1. CASE next' = next
      BY <3>1, NextBounds
    <3>2. CASE next' = [next EXCEPT ![w] = fetched[w].at]
      <4>1. fetched[w].at \in Nat \ {0} /\ fetched[w].at <= Len(log[serves[w]]) + 1
        BY <2>1, LoopFacts, CurrentFacts
      <4> QED BY <4>1, <3>2, NextSet
    <3> QED BY <3>1, <3>2, <1>5 DEF SetOffsets, Seek
  <2>4. Moved(w, "idle", NoBatch, 1)
    BY <1>5, IdleMoves DEF SetOffsets
  <2>5. LoopTypes' /\ LoopBounds'
    BY <2>2, <2>3, <2>4, BatchFacts, Constants, NextBounds, MovedType
  <2> QED BY <2>1, <2>2, <2>5, OtherTypes, TypePartsNext
<1>6. ASSUME Rejoin(w) PROVE TypeOK'
  <2>1. /\ UNCHANGED <<deployment, relay, log, position, assigned, loop, stores>>
        /\ evicted' \subseteq evicted
    BY <1>6 DEF Rejoin
  <2>2. LoopTypes' /\ LoopBounds'
    BY <2>1 DEF LoopTypes, LoopBounds, loop, deployment
  <2> QED BY <2>1, <2>2, OtherTypes, TypePartsNext
<1>7. ASSUME CommitFails(w) PROVE TypeOK'
  <2>1. UNCHANGED <<deployment, relay, broker, next, fetched, handler, nacked, stores>>
    BY <1>7 DEF CommitFails
  <2>2. /\ serves' = serves /\ log' = log /\ next' = next /\ nacked' = nacked
        /\ UNCHANGED <<position, assigned, evicted>>
    BY <2>1 DEF deployment, broker
  <2>3. Moved(w, "ended", fetched[w], handler[w]) /\ "ended" \in Pcs /\ "ended" \notin Working
    BY <1>7, <2>1, GotoMoves DEF CommitFails, Pcs, Over, Working
  <2>4. LoopTypes' /\ LoopBounds'
    BY <2>2, <2>3, LoopFacts, NextBounds, MovedType
  <2> QED BY <2>1, <2>2, <2>4, OtherTypes, TypePartsNext
<1> QED BY <1>1, <1>2, <1>3, <1>4, <1>5, <1>6, <1>7 DEF Consume

(* A loop is over: its poll or its commit has failed, or its process exits. *)
Halts(w) == PollFails(w) \/ CommitFails(w) \/ ExitKafka(w)

LEMMA HaltMoves ==
    ASSUME TypeOK, NEW w \in Workers, Halts(w)
    PROVE  \E l \in Over : Moved(w, l, fetched[w], handler[w])
<1>1. UNCHANGED <<fetched, handler>> /\ \E l \in Over : Goto(w, l)
  BY DEF Halts, PollFails, CommitFails, ExitKafka, Over
<1> QED BY <1>1, GotoMoves

LEMMA EnvironmentType ==
    ASSUME TypeOK, Environment
    PROVE  TypeOK'
<1> /\ RelayTypes /\ LogTypes /\ MemberTypes /\ LoopTypes /\ LoopBounds /\ StoreTypes
    /\ "idle" \in Pcs /\ Over \subseteq Pcs /\ "idle" \notin Working /\ Over \cap Working = {}
  BY TypeParts DEF Pcs, Over, Working
<1>1. ASSUME ExitMem PROVE TypeOK'
  <2>1. /\ UNCHANGED <<deployment, cursor, log, assigned, evicted, next, nacked, effects>>
        /\ position' = [x \in Groups |-> Len(log[x])]
        /\ sending' = 0 /\ unsent' = {}
        /\ pc' = [w \in Workers |-> "idle"]
        /\ fetched' = [w \in Workers |-> NoBatch]
        /\ handler' = [w \in Workers |-> 1]
        /\ markers' = IF InTx THEN markers ELSE {}
    BY <1>1 DEF ExitMem
  <2>2. serves' = serves /\ bus' = bus
    BY <2>1 DEF deployment
  <2>3. RelayTypes'
    BY <2>1, <2>2, Constants DEF RelayTypes
  <2>4. LogTypes'
    <3>1. \A x \in Groups : Len(log[x]) \in Nat
      BY GroupFacts
    <3> QED BY <2>1, <3>1 DEF LogTypes
  <2>5. LoopTypes'
    BY <2>1, BatchFacts, Constants DEF LoopTypes
  <2>6. LoopBounds'
    BY <2>1, <2>2 DEF LoopBounds
  <2>7. StoreTypes' /\ MemberTypes'
    BY <2>1 DEF StoreTypes, MemberTypes
  <2> QED BY <2>3, <2>4, <2>5, <2>6, <2>7, TypePartsNext
<1>2. ASSUME NEW w \in Workers, HandlerFails(w) PROVE TypeOK'
  <2>1. /\ UNCHANGED <<deployment, relay, broker, next, effects>> /\ pc[w] \in {"seen", "tx"}
        /\ Nack(w) /\ (markers' = markers \/ markers' = markers \cup {Mark(w)})
    BY <1>2 DEF HandlerFails
  <2>2. /\ serves' = serves /\ log' = log /\ next' = next
        /\ UNCHANGED <<log, position, assigned, evicted>> /\ pc[w] \in Working
    BY <2>1 DEF deployment, broker, Working
  <2>3. StoreTypes'
    BY <2>1, <2>2, CurrentFacts DEF StoreTypes
  <2>4. LoopTypes' /\ LoopBounds'
    BY <2>1, <2>2, HandledType
  <2> QED BY <2>1, <2>2, <2>3, <2>4, OtherTypes, TypePartsNext
<1>3. ASSUME NEW w \in Workers, Halts(w) PROVE TypeOK'
  <2>1. UNCHANGED <<deployment, relay, broker, next, fetched, handler, nacked, stores>>
    BY <1>3 DEF Halts, PollFails, CommitFails, ExitKafka
  <2>2. /\ serves' = serves /\ log' = log /\ next' = next /\ nacked' = nacked
        /\ UNCHANGED <<position, assigned, evicted>>
    BY <2>1 DEF deployment, broker
  <2>3. PICK l \in Over : Moved(w, l, fetched[w], handler[w])
    BY <1>3, HaltMoves
  <2>4. LoopTypes' /\ LoopBounds'
    BY <2>2, <2>3, LoopFacts, NextBounds, MovedType
  <2> QED BY <2>1, <2>2, <2>4, OtherTypes, TypePartsNext
<1>4. ASSUME NEW w \in Workers, Restart(w) PROVE TypeOK'
  <2>1. /\ UNCHANGED <<deployment, relay, log, position, assigned, stores>>
        /\ evicted' \subseteq evicted
        /\ next' = [next EXCEPT ![w] = position[serves[w]] + 1]
        /\ nacked' = [nacked EXCEPT ![w] = FALSE]
    BY <1>4 DEF Restart
  <2>2. serves' = serves /\ log' = log
    BY <2>1 DEF deployment
  <2>3. /\ position[serves[w]] + 1 \in Nat \ {0}
        /\ position[serves[w]] + 1 <= Len(log[serves[w]]) + 1
    BY LoopFacts, GroupFacts
  <2>4. /\ next' \in [Workers -> Nat \ {0}]
        /\ \A v \in Workers : next'[v] <= Len(log[serves[v]]) + 1
    BY <2>1, <2>3, NextSet
  <2>5. nacked' \in [Workers -> BOOLEAN]
    BY <2>1, NackedSet
  <2>6. Moved(w, "idle", NoBatch, 1)
    BY <1>4, IdleMoves DEF Restart
  <2>7. LoopTypes' /\ LoopBounds'
    BY <2>2, <2>4, <2>5, <2>6, BatchFacts, Constants, MovedType
  <2> QED BY <2>1, <2>7, OtherTypes, TypePartsNext
<1>5. ASSUME NEW g \in Groups, Rebalance(g) \/ Evict(g) \/ Reassign(g) PROVE TypeOK'
  <2>1. UNCHANGED <<deployment, relay, log, position, pc, fetched, handler, nacked, stores>>
    BY <1>5 DEF Rebalance, Evict, Reassign
  <2>2. PICK w \in Workers : serves[w] = g /\ Assign(g, w)
    BY <1>5 DEF Rebalance, Evict, Reassign, Candidates, Served
  <2>3. evicted' = evicted \/ evicted' = evicted \cup {assigned[g]}
    BY <1>5 DEF Rebalance, Evict, Reassign
  <2>4. MemberTypes'
    BY <2>2, <2>3 DEF Assign, MemberTypes
  <2>5. serves' = serves
    BY <2>1 DEF deployment
  <2>6. position[g] + 1 \in Nat \ {0} /\ position[g] + 1 <= Len(log[serves[w]]) + 1
    BY <2>2, GroupFacts
  <2>7. next' = [next EXCEPT ![w] = position[g] + 1]
    BY <2>2 DEF Assign
  <2>8. /\ next' \in [Workers -> Nat \ {0}]
        /\ \A v \in Workers : next'[v] <= Len(log[serves[v]]) + 1
    BY <2>6, <2>7, NextSet
  <2>9. LoopTypes' /\ LoopBounds'
    BY <2>1, <2>5, <2>8 DEF LoopTypes, LoopBounds
  <2> QED BY <2>1, <2>4, <2>9, OtherTypes, TypePartsNext
<1> QED BY <1>1, <1>2, <1>3, <1>4, <1>5, RelayType DEF Environment, Halts

LEMMA TypeStutter ==
    ASSUME TypeOK, UNCHANGED vars
    PROVE  TypeOK'
<1> LoopTypes /\ LoopBounds
  BY TypeParts
<1>1. UNCHANGED <<deployment, relay, broker, loop, stores>>
  BY DEF vars
<1>2. UNCHANGED <<log, position, assigned, evicted>>
  BY <1>1 DEF broker
<1>3. LoopTypes' /\ LoopBounds'
  BY <1>1, <1>2 DEF LoopTypes, LoopBounds, loop, deployment
<1> QED BY <1>1, <1>2, <1>3, OtherTypes, TypePartsNext

LEMMA TypeNext ==
    ASSUME TypeOK, [Next]_vars
    PROVE  TypeOK'
BY RelayType, ConsumeType, EnvironmentType, TypeStutter DEF Next

(* Every consume loop, on either bus, works within what the bus accepted:   *)
(* no offset it handles, commits or seeks to lies past its log              *)
(* (consumeGroup, dispatch), and the relay publishes the event right after  *)
(* its cursor.                                                              *)
THEOREM TypeCorrect == Spec => []TypeOK
<1>1. Init => TypeOK
  BY TypeInit
<1>2. TypeOK /\ [Next]_vars => TypeOK'
  BY TypeNext
<1> QED BY <1>1, <1>2, PTL DEF Spec

-----------------------------------------------------------------------------
(* What is applied stays applied, and what a log holds stays in its place. *)

LogGrows ==
    \A g \in Groups : /\ Len(log'[g]) >= Len(log[g])
                      /\ \A i \in 1 .. Len(log[g]) : log'[g][i] = log[g][i]

EffectsGrow == \A m \in Marks : effects[m] > 0 => effects'[m] > 0

Grows ==
    /\ LogGrows /\ EffectsGrow /\ lost \subseteq lost'
    /\ bus' = bus /\ serves' = serves /\ Deployed' = Deployed

LEMMA LogStays == ASSUME TypeOK, log' = log PROVE LogGrows
BY GroupFacts DEF LogGrows

LEMMA EffectsStay == ASSUME effects' = effects PROVE EffectsGrow
BY DEF EffectsGrow

LEMMA DeploymentStays ==
    ASSUME UNCHANGED deployment PROVE bus' = bus /\ serves' = serves /\ Deployed' = Deployed
BY DEF deployment, Deployed

LEMMA RelayGrows ==
    ASSUME TypeOK, Relays \/ PublishFails
    PROVE  Grows /\ UNCHANGED <<position, assigned, loop, stores, lost>>
<1>1. CASE Publish \/ PublishFails \/ SaveCursor
  <2>1. UNCHANGED <<deployment, broker, loop, stores, lost>>
    BY <1>1 DEF Publish, PublishFails, SaveCursor
  <2> QED
    BY <2>1, LogStays, EffectsStay, DeploymentStays DEF Grows, broker, stores
<1>2. ASSUME NEW g \in Groups, Enqueue(g)
      PROVE  Grows /\ UNCHANGED <<position, assigned, loop, stores, lost>>
  <2>1. UNCHANGED <<deployment, cursor, sending, position, assigned, evicted, loop, stores, lost>>
    BY <1>2 DEF Enqueue
  <2>2. sending \in Events
    BY <1>2, TypeParts, Constants DEF Enqueue, RelayTypes, Events
  <2>3. log' = [log EXCEPT ![g] = Append(log[g], sending)] /\ log \in [Groups -> Seq(Events)]
    BY <1>2, TypeParts DEF Enqueue, LogTypes
  <2>4. ASSUME NEW x \in Groups
        PROVE  /\ Len(log'[x]) >= Len(log[x])
               /\ \A i \in 1 .. Len(log[x]) : log'[x][i] = log[x][i]
    <3>1. CASE x = g
      <4>1. log'[x] = Append(log[x], sending)
        BY <3>1, <2>3
      <4>2. log[x] \in Seq(Events)
        BY GroupFacts
      <4> QED BY <4>1, <4>2, <2>2, AppendFacts
    <3>2. CASE x # g
      BY <3>2, <2>3, GroupFacts
    <3> QED BY <3>1, <3>2
  <2>5. LogGrows
    BY <2>4 DEF LogGrows
  <2> QED BY <2>1, <2>5, EffectsStay, DeploymentStays DEF Grows, stores
<1> QED BY <1>1, <1>2 DEF Relays

LEMMA CommitGrows ==
    ASSUME TypeOK, Stored, NEW w \in Workers, pc[w] \in Working, CommitOnce(w)
    PROVE  /\ EffectsGrow /\ Stored' /\ effects'[Mark(w)] > 0
           /\ (\A m \in Marks : m # Mark(w) => effects'[m] = effects[m])
<1> StoreTypes /\ Mark(w) \in Marks
  BY TypeParts, CurrentFacts
<1>1. CASE Mark(w) \in markers
  <2>1. markers' = markers /\ effects' = effects
    BY <1>1 DEF CommitOnce, stores
  <2> QED BY <1>1, <2>1 DEF EffectsGrow, Stored
<1>2. CASE Mark(w) \notin markers
  <2>1. effects[Mark(w)] = 0
    BY <1>2 DEF Stored
  <2>2. effects' = [effects EXCEPT ![Mark(w)] = 1] /\ markers' = markers \cup {Mark(w)}
    BY <1>2, <2>1 DEF CommitOnce
  <2>3. effects'[Mark(w)] = 1 /\ \A m \in Marks : m # Mark(w) => effects'[m] = effects[m]
    BY <2>2 DEF StoreTypes
  <2> QED BY <2>2, <2>3 DEF EffectsGrow, Stored
<1> QED BY <1>1, <1>2

(* Every step but the relay's leaves the logs alone; only Atomically has    *)
(* an effect.                                                               *)
LEMMA LoopGrows ==
    ASSUME InTransaction, TypeOK, Stored, (\E w \in Workers : Consume(w)) \/ Environment
    PROVE  Grows /\ Stored'
<1>0. ASSUME UNCHANGED <<deployment, log, effects, markers>>, lost \subseteq lost'
      PROVE  Grows /\ Stored'
  BY <1>0, LogStays, EffectsStay, DeploymentStays DEF Grows, Stored
<1>1. ASSUME NEW w \in Workers, Atomically(w) PROVE Grows /\ Stored'
  <2>1. UNCHANGED <<deployment, broker, lost>> /\ CommitOnce(w) /\ pc[w] \in Working
    BY <1>1 DEF Atomically, Working
  <2> QED BY <2>1, LogStays, DeploymentStays, CommitGrows DEF Grows, broker
<1>2. ASSUME NEW w \in Workers, Consume(w), ~Atomically(w) PROVE Grows /\ Stored'
  <2>1. UNCHANGED <<deployment, log, effects, markers, lost>>
    BY <1>2 DEF Consume, Receive, PollFetches, Seen, HandlerBroken, CommitRecords, CommitFails,
                SetOffsets, Rejoin, broker, stores
  <2> QED BY <2>1, <1>0
<1>3. ASSUME ExitMem PROVE Grows /\ Stored'
  BY <1>0, <1>3 DEF ExitMem, InTransaction
<1>4. ASSUME NEW w \in Workers, HandlerFails(w) PROVE Grows /\ Stored'
  <2>1. UNCHANGED <<deployment, log, effects, markers, lost>>
    BY <1>4 DEF HandlerFails, InTransaction, broker
  <2> QED BY <2>1, <1>0
<1>5. ASSUME NEW w \in Workers, Halts(w) \/ Restart(w)
      PROVE  Grows /\ Stored'
  <2>1. UNCHANGED <<deployment, log, effects, markers, lost>>
    BY <1>5 DEF Halts, PollFails, CommitFails, ExitKafka, Restart, broker, stores
  <2> QED BY <2>1, <1>0
<1>6. ASSUME NEW g \in Groups, Rebalance(g) \/ Evict(g) \/ Reassign(g) PROVE Grows /\ Stored'
  <2>1. UNCHANGED <<deployment, log, effects, markers, lost>>
    BY <1>6 DEF Rebalance, Evict, Reassign, stores
  <2> QED BY <2>1, <1>0
<1>7. ASSUME PublishFails PROVE Grows /\ Stored'
  BY <1>7, RelayGrows DEF Stored, stores
<1> QED BY <1>1, <1>2, <1>3, <1>4, <1>5, <1>6, <1>7 DEF Environment, Halts

LEMMA KeepsDone ==
    ASSUME TypeOK, Grows, NEW e \in Events, NEW g \in Groups, DoneIn(effects, e, g)
    PROVE  DoneIn(effects', e, g)
BY DEF Grows, EffectsGrow, DoneIn, Marks

LEMMA KeepsUpTo ==
    ASSUME TypeOK, Grows, NEW g \in Groups, NEW n \in Int, n <= Len(log[g]),
           UpTo(effects, log[g], g, n)
    PROVE  UpTo(effects', log'[g], g, n)
<1> SUFFICES ASSUME NEW i \in 1 .. n PROVE DoneIn(effects', log'[g][i], g)
  BY DEF UpTo
<1>1. i \in 1 .. Len(log[g])
  BY GroupFacts
<1>2. log[g][i] \in Events /\ log'[g][i] = log[g][i] /\ DoneIn(effects, log[g][i], g)
  BY <1>1, GroupFacts DEF Grows, LogGrows, UpTo
<1> QED BY <1>2, KeepsDone

LEMMA UpToLess ==
    ASSUME NEW eff, NEW s, NEW g, NEW n \in Int, NEW m \in Int, m <= n, UpTo(eff, s, g, n)
    PROVE  UpTo(eff, s, g, m)
BY DEF UpTo

LEMMA UpToNext ==
    ASSUME NEW eff, NEW s, NEW g, NEW n \in Int, UpTo(eff, s, g, n - 1),
           DoneIn(eff, s[n], g)
    PROVE  UpTo(eff, s, g, n)
<1> SUFFICES ASSUME NEW i \in 1 .. n PROVE DoneIn(eff, s[i], g)
  BY DEF UpTo
<1>1. i = n \/ i \in 1 .. (n - 1)
  OBVIOUS
<1> QED BY <1>1 DEF UpTo

-----------------------------------------------------------------------------
(* A loop at a handler has applied the ones before it. *)

(* The handler w is at has its effect, from before or from this step. *)
Handled(w) ==
    /\ pc[w] \in {"seen", "tx"} /\ Applied(w) /\ effects'[Mark(w)] > 0
    /\ UNCHANGED <<deployment, broker, next, nacked, lost>>

LEMMA SeenSteps ==
    ASSUME TypeOK, Stored, NEW w \in Workers, Seen(w)
    PROVE  \/ Handled(w)
           \/ /\ Moved(w, "tx", fetched[w], handler[w]) /\ pc[w] = "seen"
              /\ UNCHANGED <<deployment, broker, next, nacked, stores, lost>>
<1>1. /\ pc[w] = "seen" /\ pc[w] \in Working
      /\ UNCHANGED <<deployment, broker, next, nacked, stores, lost>>
  BY DEF Seen, Working
<1>2. CASE Mark(w) \in markers
  <2>1. effects[Mark(w)] = 1
    BY <1>1, <1>2, CurrentFacts DEF Stored
  <2>2. effects'[Mark(w)] > 0
    BY <2>1, <1>1 DEF stores
  <2> QED BY <2>2, <1>1, <1>2 DEF Seen, Handled
<1>3. CASE Mark(w) \notin markers
  BY <1>1, <1>3, GotoMoves DEF Seen
<1> QED BY <1>2, <1>3

LEMMA AtomicallySteps ==
    ASSUME TypeOK, Stored, NEW w \in Workers, Atomically(w)
    PROVE  Handled(w)
<1>1. /\ pc[w] = "tx" /\ pc[w] \in Working /\ CommitOnce(w) /\ Applied(w)
      /\ UNCHANGED <<deployment, broker, next, nacked, lost>>
  BY DEF Atomically, Working
<1> QED BY <1>1, CommitGrows DEF Handled

LEMMA HandledFacts ==
    ASSUME TypeOK, Progress, Grows, NEW w \in Workers, pc[w] \in {"seen", "tx"},
           effects'[Mark(w)] > 0
    PROVE  /\ \A h \in Handlers :
                 h <= handler[w] => effects'[<<Current(w), serves[w], h>>] > 0
           /\ handler[w] = NumHandlers => DoneIn(effects', Current(w), serves[w])
<1>0. pc[w] \in Working
  BY DEF Working
<1>1. ASSUME NEW h \in Handlers, h <= handler[w]
      PROVE  effects'[<<Current(w), serves[w], h>>] > 0
  <2>1. <<Current(w), serves[w], h>> \in Marks
    BY <1>0, LoopFacts, CurrentFacts DEF Marks
  <2>2. CASE h = handler[w]
    BY <2>2 DEF Mark
  <2>3. CASE h < handler[w]
    <3>1. effects[<<Current(w), serves[w], h>>] > 0
      BY <2>3 DEF Progress
    <3> QED BY <3>1, <2>1 DEF Grows, EffectsGrow
  <2> QED BY <1>1, <2>2, <2>3, LoopFacts, Constants
<1> QED BY <1>1, Constants DEF DoneIn

(* How a step moves a loop, as far as the handlers go. *)
HandlerMove(w) ==
    \/ \E l, b : Moved(w, l, b, 1)
    \/ \E l \in {"commit", "seek"} \cup Over : Moved(w, l, fetched[w], handler[w])
    \/ pc[w] = "seen" /\ Moved(w, "tx", fetched[w], handler[w])
    \/ /\ pc[w] \in {"seen", "tx"} /\ effects'[Mark(w)] > 0
       /\ Moved(w, "seen", fetched[w], handler[w] + 1)

LEMMA HandledMove ==
    ASSUME TypeOK, NEW w \in Workers, Handled(w)
    PROVE  HandlerMove(w)
BY AppliedMoves DEF Handled, HandlerMove

LEMMA NackMove ==
    ASSUME TypeOK, NEW w \in Workers, Nack(w)
    PROVE  HandlerMove(w)
BY NackMoves DEF HandlerMove

LEMMA StepMoves ==
    ASSUME TypeOK, Stored, (\E w \in Workers : Consume(w)) \/ Environment
    PROVE  \/ UNCHANGED <<pc, fetched, handler>>
           \/ \A w \in Workers : pc'[w] = "idle"
           \/ \E w \in Workers : HandlerMove(w)
<1>1. ASSUME NEW w \in Workers, Receive(w) \/ PollFetches(w) PROVE HandlerMove(w)
  BY <1>1, DeliverMoves DEF Receive, PollFetches, HandlerMove
<1>2. ASSUME NEW w \in Workers, Seen(w) PROVE HandlerMove(w)
  BY <1>2, SeenSteps, HandledMove DEF HandlerMove
<1>3. ASSUME NEW w \in Workers, Atomically(w) PROVE HandlerMove(w)
  BY <1>3, AtomicallySteps, HandledMove
<1>4. ASSUME NEW w \in Workers, HandlerBroken(w) \/ HandlerFails(w) PROVE HandlerMove(w)
  BY <1>4, NackMove DEF HandlerBroken, HandlerFails
<1>5. ASSUME NEW w \in Workers, SetOffsets(w) \/ Restart(w) PROVE HandlerMove(w)
  BY <1>5, IdleMoves DEF SetOffsets, Restart, HandlerMove
<1>6. ASSUME NEW w \in Workers, CommitRecords(w) PROVE HandlerMove(w)
  BY <1>6, IdleMoves, GotoMoves DEF CommitRecords, AfterCommit, HandlerMove
<1>7. ASSUME NEW w \in Workers, Halts(w) PROVE HandlerMove(w)
  BY <1>7, HaltMoves DEF HandlerMove
<1>8. ASSUME NEW w \in Workers, Rejoin(w) PROVE UNCHANGED <<pc, fetched, handler>>
  BY <1>8 DEF Rejoin, loop
<1>9. ASSUME ExitMem PROVE \A w \in Workers : pc'[w] = "idle"
  BY <1>9 DEF ExitMem
<1>10. ASSUME NEW g \in Groups, Rebalance(g) \/ Evict(g) \/ Reassign(g)
       PROVE  UNCHANGED <<pc, fetched, handler>>
  BY <1>10 DEF Rebalance, Evict, Reassign
<1>11. ASSUME PublishFails PROVE UNCHANGED <<pc, fetched, handler>>
  BY <1>11 DEF PublishFails, loop
<1> QED
  BY <1>1, <1>2, <1>3, <1>4, <1>5, <1>6, <1>7, <1>8, <1>9, <1>10, <1>11
  DEF Consume, Environment, Halts

LEMMA ProgressKept ==
    ASSUME TypeOK, Progress, Grows, NEW v \in Workers, pc[v] \in {"seen", "tx"},
           fetched'[v] = fetched[v], handler'[v] = handler[v],
           NEW h \in Handlers, h < handler'[v]
    PROVE  effects'[<<log'[serves[v]][fetched'[v].at], serves[v], h>>] > 0
<1>1. pc[v] \in Working
  BY DEF Working
<1>2. /\ fetched[v].at \in 1 .. Len(log[serves[v]]) /\ serves[v] \in Groups
      /\ Current(v) \in Events /\ effects[<<Current(v), serves[v], h>>] > 0
  BY <1>1, LoopFacts, CurrentFacts DEF Progress
<1>3. log'[serves[v]][fetched[v].at] = Current(v)
  BY <1>2 DEF Grows, LogGrows, Current
<1>4. effects'[<<Current(v), serves[v], h>>] > 0
  BY <1>2 DEF Grows, EffectsGrow, Marks
<1> QED BY <1>3, <1>4

LEMMA ProgressNext ==
    ASSUME InTransaction, TypeOK, Stored, Progress, Grows, Next
    PROVE  Progress'
<1> SUFFICES ASSUME NEW v \in Workers, pc'[v] \in {"seen", "tx"},
                    NEW h \in Handlers, h < handler'[v]
             PROVE  effects'[<<log'[serves[v]][fetched'[v].at], serves[v], h>>] > 0
  BY DEF Progress, Current, Grows
<1>1. CASE UNCHANGED <<pc, fetched, handler>>
  BY <1>1, ProgressKept
<1>2. CASE Relays
  <2>1. UNCHANGED <<pc, fetched, handler>>
    BY <1>2, RelayGrows DEF loop
  <2> QED BY <2>1, <1>1
<1>3. ASSUME NEW w \in Workers, HandlerMove(w), log' = log
      PROVE  effects'[<<log'[serves[v]][fetched'[v].at], serves[v], h>>] > 0
  <2>1. CASE v # w
    BY <2>1, <1>3, MovedAt, ProgressKept DEF HandlerMove
  <2>2. ASSUME v = w, NEW l, NEW b, Moved(w, l, b, 1) PROVE FALSE
    BY <2>2, MovedAt, Constants
  <2>3. ASSUME v = w, NEW l \in {"commit", "seek"} \cup Over,
               Moved(w, l, fetched[w], handler[w])
        PROVE  FALSE
    BY <2>3, MovedAt DEF Over
  <2>4. CASE v = w /\ pc[w] = "seen" /\ Moved(w, "tx", fetched[w], handler[w])
    BY <2>4, MovedAt, ProgressKept
  <2>5. CASE /\ v = w /\ pc[w] \in {"seen", "tx"} /\ effects'[Mark(w)] > 0
             /\ Moved(w, "seen", fetched[w], handler[w] + 1)
    <3>1. fetched'[w] = fetched[w] /\ handler'[w] = handler[w] + 1
      BY <2>5, MovedAt
    <3>2. h <= handler[w]
      BY <2>5, <3>1, LoopFacts, Constants
    <3>3. effects'[<<Current(w), serves[w], h>>] > 0
      BY <2>5, <3>2, HandledFacts
    <3> QED BY <2>5, <3>1, <3>3, <1>3 DEF Current
  <2> QED BY <1>3, <2>1, <2>2, <2>3, <2>4, <2>5 DEF HandlerMove
<1>4. CASE (\E w \in Workers : Consume(w)) \/ Environment
  <2>1. CASE PublishFails
    <3>1. UNCHANGED <<pc, fetched, handler>>
      BY <2>1 DEF PublishFails, loop
    <3> QED BY <3>1, <1>1
  <2>2. CASE ~PublishFails
    <3>1. log' = log
      BY <1>4, <2>2 DEF Consume, Receive, PollFetches, Seen, Atomically, HandlerBroken,
             CommitRecords, CommitFails, SetOffsets, Rejoin, Environment, ExitMem, HandlerFails,
             PollFails, ExitKafka, Restart, Rebalance, Evict, Reassign, broker
    <3> QED BY <1>1, <1>3, <1>4, <3>1, StepMoves
  <2> QED BY <2>1, <2>2
<1> QED BY <1>2, <1>4 DEF Next

-----------------------------------------------------------------------------
(* Kafka: everything behind a committed offset is applied. *)

LEMMA KeepsLoop ==
    ASSUME TypeOK, Grows, NEW v \in Workers, LoopOK(v),
           pc'[v] = pc[v], fetched'[v] = fetched[v], nacked'[v] = nacked[v],
           next'[v] = next[v],
           assigned'[serves[v]] = v => assigned[serves[v]] = v
    PROVE  LoopOK(v)'
<1> DEFINE g == serves[v]
<1>0. g \in Groups /\ serves' = serves
  BY LoopFacts DEF Grows
<1>1. ASSUME pc[v] \in Working, UpTo(effects, log[g], g, fetched[v].at - 1)
      PROVE  UpTo(effects', log'[g], g, fetched[v].at - 1)
  BY <1>0, <1>1, LoopFacts, CurrentFacts, KeepsUpTo
<1>2. ASSUME pc[v] \in Working, UpTo(effects, log[g], g, fetched[v].last)
      PROVE  UpTo(effects', log'[g], g, fetched[v].last)
  BY <1>0, <1>2, LoopFacts, CurrentFacts, KeepsUpTo
<1>3. ASSUME UpTo(effects, log[g], g, next[v] - 1)
      PROVE  UpTo(effects', log'[g], g, next[v] - 1)
  BY <1>0, <1>3, LoopFacts, KeepsUpTo
<1>4. pc[v] = "commit" => pc[v] \in Working
  BY DEF Working
<1> HIDE DEF g
<1> QED BY <1>0, <1>1, <1>2, <1>3, <1>4 DEF LoopOK, DoneUpTo, g

(* A loop that goes on with the batch it has. *)
LEMMA KeepsBatch ==
    ASSUME TypeOK, Grows, NEW w \in Workers, LoopOK(w), pc[w] \in Working,
           pc'[w] \in Working, fetched'[w] = fetched[w], next'[w] = next[w],
           assigned' = assigned,
           pc'[w] = "commit" /\ ~nacked'[w] =>
               UpTo(effects', log'[serves[w]], serves[w], fetched[w].last)
    PROVE  LoopOK(w)'
<1> DEFINE g == serves[w]
<1>0. g \in Groups /\ serves' = serves
  BY LoopFacts DEF Grows
<1>1. UpTo(effects', log'[g], g, fetched[w].at - 1)
  <2>1. UpTo(effects, log[g], g, fetched[w].at - 1)
    BY DEF LoopOK, DoneUpTo
  <2> QED BY <1>0, <2>1, LoopFacts, CurrentFacts, KeepsUpTo
<1>2. ASSUME UpTo(effects, log[g], g, next[w] - 1)
      PROVE  UpTo(effects', log'[g], g, next[w] - 1)
  BY <1>0, <1>2, LoopFacts, KeepsUpTo
<1>3. pc'[w] # "idle"
  BY DEF Working
<1> HIDE DEF g
<1> QED BY <1>0, <1>1, <1>2, <1>3 DEF LoopOK, DoneUpTo, g

(* A loop that is over, or idle at an offset that all lies behind. *)
LEMMA DeadLoop ==
    ASSUME NEW w \in Workers, pc'[w] \in Over
    PROVE  LoopOK(w)'
BY DEF LoopOK, Working, Over

LEMMA IdleLoop ==
    ASSUME TypeOK, Grows, NEW w \in Workers, pc'[w] = "idle",
           assigned'[serves[w]] = w =>
               UpTo(effects', log'[serves[w]], serves[w], next'[w] - 1)
    PROVE  LoopOK(w)'
<1>1. serves' = serves
  BY DEF Grows
<1>2. "idle" \notin Working /\ "idle" # "commit"
  BY DEF Working
<1> QED BY <1>1, <1>2 DEF LoopOK, DoneUpTo

LEMMA HandledLoop ==
    ASSUME TypeOK, Progress, Grows, bus = "kafka", NEW w \in Workers, LoopOK(w), Handled(w)
    PROVE  LoopOK(w)'
<1> DEFINE g == serves[w]
<1>0. /\ pc[w] \in Working /\ g \in Groups /\ serves' = serves /\ log' = log
      /\ assigned' = assigned /\ next' = next /\ nacked' = nacked
      /\ "seen" \in Working /\ "commit" \in Working /\ "seen" # "commit"
  BY LoopFacts DEF Handled, Working, Grows, broker, deployment
<1>1. CASE Moved(w, "seen", fetched[w], handler[w] + 1)
  BY <1>0, <1>1, MovedAt, KeepsBatch
<1>d. ASSUME handler[w] = NumHandlers PROVE UpTo(effects', log[g], g, fetched[w].at)
  <2>1. DoneIn(effects', log[g][fetched[w].at], g)
    BY <1>d, HandledFacts DEF Handled, Current
  <2>2. UpTo(effects, log[g], g, fetched[w].at - 1)
    BY <1>0 DEF LoopOK, DoneUpTo
  <2>3. UpTo(effects', log[g], g, fetched[w].at - 1)
    BY <2>2, <1>0, LoopFacts, CurrentFacts, KeepsUpTo
  <2> QED BY <2>1, <2>3, LoopFacts, UpToNext
<1>2. CASE handler[w] = NumHandlers /\ Moved(w, "seen", NextOf(fetched[w]), 1)
  <2>1. /\ pc'[w] = "seen" /\ fetched'[w].at - 1 = fetched[w].at
        /\ fetched'[w].last = fetched[w].last
    <3>1. pc'[w] = "seen" /\ fetched'[w] = NextOf(fetched[w])
      BY <1>2, MovedAt
    <3>2. fetched'[w].at = fetched[w].at + 1 /\ fetched'[w].last = fetched[w].last
      BY <3>1, BatchFacts, LoopFacts
    <3> QED BY <3>1, <3>2, LoopFacts
  <2>2. ASSUME UpTo(effects, log[g], g, next[w] - 1) PROVE UpTo(effects', log[g], g, next[w] - 1)
    BY <1>0, <2>2, LoopFacts, KeepsUpTo
  <2>3. UpTo(effects', log[g], g, fetched[w].at)
    BY <1>2, <1>d
  <2> HIDE DEF g
  <2> QED BY <1>0, <2>1, <2>2, <2>3 DEF LoopOK, DoneUpTo, g
<1>3. CASE /\ handler[w] = NumHandlers /\ fetched[w].at = fetched[w].last
           /\ Moved(w, "commit", fetched[w], handler[w])
  <2>1. UpTo(effects', log[g], g, fetched[w].last)
    BY <1>3, <1>d
  <2> QED BY <1>0, <1>3, <2>1, MovedAt, KeepsBatch
<1>4. pc[w] \in {"seen", "tx"} /\ Applied(w)
  BY DEF Handled
<1> QED BY <1>1, <1>2, <1>3, <1>4, AppliedMoves

LEMMA NackedLoop ==
    ASSUME TypeOK, Grows, bus = "kafka", NEW w \in Workers, LoopOK(w),
           pc[w] \in {"seen", "tx"}, Nack(w), assigned' = assigned, next' = next
    PROVE  LoopOK(w)'
<1>1. /\ Moved(w, "commit", fetched[w], handler[w])
      /\ nacked' = [nacked EXCEPT ![w] = TRUE]
  BY NackMoves
<1>2. nacked'[w] = TRUE
  BY <1>1, NackedSet
<1>3. pc[w] \in Working /\ "commit" \in Working
  BY DEF Working
<1>4. pc'[w] = "commit" /\ fetched'[w] = fetched[w]
  BY <1>1, MovedAt
<1> QED BY <1>2, <1>3, <1>4, KeepsBatch

LEMMA PollLoop ==
    ASSUME TypeOK, Grows, NEW w \in Workers, LoopOK(w), PollFetches(w)
    PROVE  LoopOK(w)'
<1> DEFINE g == serves[w]
           b == [first |-> next[w], at |-> next[w], last |-> Len(log[g])]
<1>0. /\ g \in Groups /\ serves' = serves /\ pc[w] = "idle" /\ assigned[g] = w
      /\ log' = log
  BY LoopFacts DEF PollFetches, Grows, broker
<1>1. pc'[w] = "seen" /\ fetched'[w] = b
  BY DeliverMoves, MovedAt DEF PollFetches
<1>2. fetched'[w].at = next[w] /\ fetched'[w].last = Len(log[g])
  BY <1>1
<1>3. UpTo(effects', log'[g], g, next[w] - 1)
  <2>1. UpTo(effects, log[g], g, next[w] - 1)
    BY <1>0 DEF LoopOK, DoneUpTo
  <2>2. next[w] - 1 \in Int /\ next[w] - 1 <= Len(log[g])
    BY LoopFacts
  <2> QED BY <2>1, <2>2, <1>0, KeepsUpTo
<1>4. next'[w] = Len(log[g]) + 1
  <2>1. next' = [next EXCEPT ![w] = Len(log[g]) + 1] /\ next \in [Workers -> Nat \ {0}]
    BY NextBounds DEF PollFetches
  <2> QED BY <2>1
<1> HIDE DEF g
<1> QED BY <1>0, <1>1, <1>2, <1>3, <1>4 DEF LoopOK, DoneUpTo, g

(* After the batch: the commit, and the seek back to a failed record. *)
LEMMA CommitLoop ==
    ASSUME TypeOK, Grows, NEW w \in Workers, LoopOK(w), CommitRecords(w)
    PROVE  LoopOK(w)'
<1>0. /\ pc[w] = "commit" /\ pc[w] \in Working /\ "seek" \in Working /\ "seek" # "commit"
      /\ log' = log /\ assigned' = assigned /\ next' = next
  BY DEF CommitRecords, Working
<1>1. CASE nacked[w]
  <2>1. Moved(w, "seek", fetched[w], handler[w])
    BY <1>1, GotoMoves DEF CommitRecords, AfterCommit
  <2> QED BY <2>1, <1>0, MovedAt, KeepsBatch
<1>2. CASE ~nacked[w]
  <2>1. pc'[w] = "idle"
    BY <1>2, IdleMoves, MovedAt DEF CommitRecords, AfterCommit
  <2>2. ASSUME assigned[serves[w]] = w
        PROVE  UpTo(effects, log[serves[w]], serves[w], next[w] - 1)
    <3>1. UpTo(effects, log[serves[w]], serves[w], fetched[w].last)
      BY <1>0, <1>2 DEF LoopOK, DoneUpTo
    <3>2. \/ next[w] = fetched[w].last + 1
          \/ UpTo(effects, log[serves[w]], serves[w], next[w] - 1)
      BY <1>0, <2>2 DEF LoopOK, DoneUpTo
    <3>3. next[w] = fetched[w].last + 1 => next[w] - 1 = fetched[w].last
      BY LoopFacts
    <3> QED BY <3>1, <3>2, <3>3
  <2>3. ASSUME assigned[serves[w]] = w
        PROVE  UpTo(effects', log'[serves[w]], serves[w], next[w] - 1)
    BY <2>2, <2>3, LoopFacts, KeepsUpTo
  <2> QED BY <2>1, <2>3, <1>0, IdleLoop
<1> QED BY <1>1, <1>2

LEMMA SeekLoop ==
    ASSUME TypeOK, Grows, NEW w \in Workers, LoopOK(w), SetOffsets(w)
    PROVE  LoopOK(w)'
<1>0. pc[w] \in Working /\ assigned' = assigned
  BY DEF SetOffsets, Working, broker
<1>1. pc'[w] = "idle"
  BY IdleMoves, MovedAt DEF SetOffsets
<1>2. ASSUME assigned[serves[w]] = w
      PROVE  UpTo(effects', log'[serves[w]], serves[w], next'[w] - 1)
  <2>1. next'[w] = fetched[w].at
    <3>1. next' = [next EXCEPT ![w] = fetched[w].at] /\ next \in [Workers -> Nat \ {0}]
      BY <1>2, NextBounds DEF SetOffsets, Seek
    <3> QED BY <3>1
  <2>2. UpTo(effects, log[serves[w]], serves[w], fetched[w].at - 1)
    BY <1>0 DEF LoopOK, DoneUpTo
  <2>3. UpTo(effects', log'[serves[w]], serves[w], fetched[w].at - 1)
    <3>1. /\ fetched[w].at - 1 \in Int /\ fetched[w].at - 1 <= Len(log[serves[w]])
          /\ serves[w] \in Groups
      BY <1>0, LoopFacts, CurrentFacts
    <3> QED BY <2>2, <3>1, KeepsUpTo
  <2> QED BY <2>1, <2>3
<1> QED BY <1>0, <1>1, <1>2, IdleLoop

(* Committed offsets of a step that commits none. *)
LEMMA KeepsPositions ==
    ASSUME TypeOK, Grows, bus = "kafka", OffsetsOK, position' = position
    PROVE  \A g \in Groups : DoneUpTo(g, position[g])'
<1> SUFFICES ASSUME NEW g \in Groups PROVE UpTo(effects', log'[g], g, position'[g])
  BY DEF DoneUpTo
<1>1. UpTo(effects, log[g], g, position[g])
  BY DEF OffsetsOK, DoneUpTo
<1>2. position[g] \in Int /\ position[g] <= Len(log[g])
  BY GroupFacts
<1> QED BY <1>1, <1>2, KeepsUpTo

(* The offset that w commits lies behind everything its batch left undone. *)
LEMMA CommitPositions ==
    ASSUME TypeOK, Grows, bus = "kafka", OffsetsOK, NEW w \in Workers, CommitRecords(w)
    PROVE  \A g \in Groups : DoneUpTo(g, position[g])'
<1>1. CASE position' = position
  BY <1>1, KeepsPositions
<1>2. CASE position' = [position EXCEPT ![serves[w]] = Acked(w)]
  <2>0. pc[w] = "commit" /\ pc[w] \in Working /\ LoopOK(w) /\ serves[w] \in Groups
    BY LoopFacts DEF CommitRecords, Working, OffsetsOK
  <2>1. UpTo(effects, log[serves[w]], serves[w], Acked(w))
    BY <2>0 DEF LoopOK, DoneUpTo, Acked
  <2>2. Acked(w) \in Int /\ Acked(w) <= Len(log[serves[w]])
    BY <2>0, LoopFacts, CurrentFacts DEF Acked
  <2>3. UpTo(effects', log'[serves[w]], serves[w], Acked(w))
    BY <2>0, <2>1, <2>2, KeepsUpTo
  <2> SUFFICES ASSUME NEW g \in Groups PROVE UpTo(effects', log'[g], g, position'[g])
    BY DEF DoneUpTo
  <2>4. CASE g = serves[w]
    <3>1. position'[g] = Acked(w)
      BY <2>4, <1>2, TypeParts DEF LogTypes
    <3> QED BY <2>3, <2>4, <3>1
  <2>5. CASE g # serves[w]
    <3>1. position'[g] = position[g]
      BY <2>5, <1>2, TypeParts DEF LogTypes
    <3>2. UpTo(effects, log[g], g, position[g])
      BY DEF OffsetsOK, DoneUpTo
    <3>3. position[g] \in Int /\ position[g] <= Len(log[g])
      BY GroupFacts
    <3> QED BY <3>1, <3>2, <3>3, KeepsUpTo
  <2> QED BY <2>4, <2>5
<1> QED BY <1>1, <1>2 DEF CommitRecords

(* The partition of g goes to w, which starts at the committed offset. *)
LEMMA AssignLoops ==
    ASSUME TypeOK, Grows, bus = "kafka", OffsetsOK, NEW g \in Groups, NEW w \in Workers,
           serves[w] = g, Assign(g, w),
           UNCHANGED <<position, log, effects, pc, fetched, nacked>>
    PROVE  \A v \in Workers : LoopOK(v)'
<1>1. /\ next' = [next EXCEPT ![w] = position[g] + 1] /\ next \in [Workers -> Nat \ {0}]
      /\ assigned' = [assigned EXCEPT ![g] = w] /\ assigned \in [Groups -> Workers]
  BY NextBounds, TypeParts DEF Assign, MemberTypes
<1>2. next'[w] - 1 = position[g] /\ \A v \in Workers \ {w} : next'[v] = next[v]
  BY <1>1, GroupFacts
<1>3. assigned'[g] = w /\ \A x \in Groups \ {g} : assigned'[x] = assigned[x]
  BY <1>1
<1> SUFFICES ASSUME NEW v \in Workers PROVE LoopOK(v)'
  OBVIOUS
<1>4. LoopOK(v) /\ serves' = serves /\ serves[v] \in Groups
  BY LoopFacts DEF OffsetsOK, Grows
<1>5. CASE v # w
  <2>1. assigned'[serves[v]] = v => assigned[serves[v]] = v
    BY <1>3, <1>4, <1>5
  <2> QED BY <2>1, <1>2, <1>4, <1>5, KeepsLoop
<1>6. CASE v = w
  <2>1. UpTo(effects, log[g], g, position[g])
    BY DEF OffsetsOK, DoneUpTo
  <2> QED BY <2>1, <1>2, <1>4, <1>6 DEF LoopOK, DoneUpTo
<1> QED BY <1>5, <1>6

LEMMA OffsetsNext ==
    ASSUME TypeOK, Stored, Progress, OffsetsOK, Grows, Next
    PROVE  OffsetsOK'
<1> SUFFICES ASSUME bus = "kafka"
             PROVE  /\ \A g \in Groups : DoneUpTo(g, position[g])'
                    /\ \A v \in Workers : LoopOK(v)'
  BY DEF OffsetsOK, Grows
<1>0. \A v \in Workers : LoopOK(v)
  BY DEF OffsetsOK
<1>s. ASSUME UNCHANGED <<position, assigned, pc, fetched, nacked, next>>
      PROVE  /\ \A g \in Groups : DoneUpTo(g, position[g])'
             /\ \A v \in Workers : LoopOK(v)'
  BY <1>0, <1>s, KeepsPositions, KeepsLoop
<1>1. CASE Relays \/ PublishFails
  <2>1. UNCHANGED <<position, assigned, pc, fetched, nacked, next>>
    BY <1>1, RelayGrows DEF loop
  <2> QED BY <2>1, <1>s
<1>m. ASSUME NEW w \in Workers, NEW l, NEW b, NEW h, Moved(w, l, b, h), LoopOK(w)',
             assigned' = assigned,
             \A v \in Workers \ {w} : nacked'[v] = nacked[v] /\ next'[v] = next[v]
      PROVE  \A v \in Workers : LoopOK(v)'
  <2> SUFFICES ASSUME NEW v \in Workers, v # w PROVE LoopOK(v)'
    BY <1>m
  <2>1. pc'[v] = pc[v] /\ fetched'[v] = fetched[v]
    BY <1>m, MovedAt
  <2> QED BY <1>0, <1>m, <2>1, KeepsLoop
<1>2. ASSUME NEW w \in Workers, PollFetches(w)
      PROVE  /\ \A g \in Groups : DoneUpTo(g, position[g])'
             /\ \A v \in Workers : LoopOK(v)'
  <2>1. /\ position' = position /\ assigned' = assigned
        /\ next' = [next EXCEPT ![w] = Len(log[serves[w]]) + 1]
        /\ nacked' = [nacked EXCEPT ![w] = FALSE]
    BY <1>2 DEF PollFetches, broker
  <2>2. \A v \in Workers \ {w} : nacked'[v] = nacked[v] /\ next'[v] = next[v]
    BY <2>1, NextBounds
  <2>3. PICK b : Moved(w, "seen", b, 1)
    BY <1>2, DeliverMoves DEF PollFetches
  <2>4. LoopOK(w)'
    BY <1>0, <1>2, PollLoop
  <2> QED BY <2>1, <2>2, <2>3, <2>4, <1>m, KeepsPositions
<1>h. ASSUME NEW w \in Workers, Handled(w)
      PROVE  /\ \A g \in Groups : DoneUpTo(g, position[g])'
             /\ \A v \in Workers : LoopOK(v)'
  <2>1. position' = position /\ assigned' = assigned /\ nacked' = nacked /\ next' = next
    BY <1>h DEF Handled, broker
  <2>2. \E l, b, h : Moved(w, l, b, h)
    BY <1>h, AppliedMoves DEF Handled
  <2>3. LoopOK(w)'
    BY <1>0, <1>h, HandledLoop
  <2> QED BY <2>1, <2>2, <2>3, <1>m, KeepsPositions
<1>3. ASSUME NEW w \in Workers, Seen(w)
      PROVE  /\ \A g \in Groups : DoneUpTo(g, position[g])'
             /\ \A v \in Workers : LoopOK(v)'
  <2>1. CASE Handled(w)
    BY <2>1, <1>h
  <2>2. CASE /\ Moved(w, "tx", fetched[w], handler[w]) /\ pc[w] = "seen"
             /\ UNCHANGED <<deployment, broker, next, nacked, stores, lost>>
    <3>1. position' = position /\ assigned' = assigned /\ nacked' = nacked /\ next' = next
      BY <2>2 DEF broker
    <3>2. pc[w] \in Working /\ "tx" \in Working /\ "tx" # "commit"
      BY <2>2 DEF Working
    <3>3. LoopOK(w)'
      BY <1>0, <2>2, <3>1, <3>2, MovedAt, KeepsBatch
    <3> QED BY <2>2, <3>1, <3>3, <1>m, KeepsPositions
  <2> QED BY <1>3, <2>1, <2>2, SeenSteps
<1>4. ASSUME NEW w \in Workers, Atomically(w)
      PROVE  /\ \A g \in Groups : DoneUpTo(g, position[g])'
             /\ \A v \in Workers : LoopOK(v)'
  BY <1>4, <1>h, AtomicallySteps
<1>5. ASSUME NEW w \in Workers, HandlerBroken(w) \/ HandlerFails(w)
      PROVE  /\ \A g \in Groups : DoneUpTo(g, position[g])'
             /\ \A v \in Workers : LoopOK(v)'
  <2>1. /\ position' = position /\ assigned' = assigned /\ next' = next /\ Nack(w)
        /\ pc[w] \in {"seen", "tx"}
    BY <1>5 DEF HandlerBroken, HandlerFails, broker
  <2>2. /\ Moved(w, "commit", fetched[w], handler[w])
        /\ nacked' = [nacked EXCEPT ![w] = TRUE]
    BY <2>1, NackMoves
  <2>3. \A v \in Workers \ {w} : nacked'[v] = nacked[v] /\ next'[v] = next[v]
    BY <2>1, <2>2, NextBounds
  <2>4. LoopOK(w)'
    BY <1>0, <2>1, NackedLoop
  <2> QED BY <2>1, <2>2, <2>3, <2>4, <1>m, KeepsPositions
<1>6. ASSUME NEW w \in Workers, CommitRecords(w)
      PROVE  /\ \A g \in Groups : DoneUpTo(g, position[g])'
             /\ \A v \in Workers : LoopOK(v)'
  <2>1. assigned' = assigned /\ next' = next /\ nacked' = nacked
    BY <1>6 DEF CommitRecords
  <2>2. \E l, b, h : Moved(w, l, b, h)
    BY <1>6, IdleMoves, GotoMoves DEF CommitRecords, AfterCommit
  <2>3. LoopOK(w)'
    BY <1>0, <1>6, CommitLoop
  <2> QED BY <1>6, <2>1, <2>2, <2>3, <1>m, CommitPositions
<1>7. ASSUME NEW w \in Workers, Halts(w)
      PROVE  /\ \A g \in Groups : DoneUpTo(g, position[g])'
             /\ \A v \in Workers : LoopOK(v)'
  <2>1. /\ position' = position /\ assigned' = assigned /\ next' = next /\ nacked' = nacked
    BY <1>7 DEF Halts, PollFails, CommitFails, ExitKafka, broker
  <2>3. PICK l \in Over : Moved(w, l, fetched[w], handler[w])
    BY <1>7, HaltMoves
  <2>2. LoopOK(w)'
    BY <2>3, MovedAt, DeadLoop
  <2> QED BY <2>1, <2>2, <2>3, <1>m, KeepsPositions
<1>8. ASSUME NEW w \in Workers, SetOffsets(w)
      PROVE  /\ \A g \in Groups : DoneUpTo(g, position[g])'
             /\ \A v \in Workers : LoopOK(v)'
  <2>1. /\ position' = position /\ assigned' = assigned /\ nacked' = nacked
        /\ (next' = next \/ next' = [next EXCEPT ![w] = fetched[w].at])
        /\ Moved(w, "idle", NoBatch, 1)
    BY <1>8, IdleMoves DEF SetOffsets, Seek, broker
  <2>2. \A v \in Workers \ {w} : nacked'[v] = nacked[v] /\ next'[v] = next[v]
    BY <2>1, NextBounds
  <2>3. LoopOK(w)'
    BY <1>0, <1>8, SeekLoop
  <2> QED BY <2>1, <2>2, <2>3, <1>m, KeepsPositions
<1>9. ASSUME NEW w \in Workers, Rejoin(w)
      PROVE  /\ \A g \in Groups : DoneUpTo(g, position[g])'
             /\ \A v \in Workers : LoopOK(v)'
  BY <1>9, <1>s DEF Rejoin, loop
<1>10. ASSUME NEW w \in Workers, Restart(w)
       PROVE  /\ \A g \in Groups : DoneUpTo(g, position[g])'
              /\ \A v \in Workers : LoopOK(v)'
  <2>1. /\ position' = position /\ assigned' = assigned
        /\ next' = [next EXCEPT ![w] = position[serves[w]] + 1]
        /\ nacked' = [nacked EXCEPT ![w] = FALSE]
        /\ Moved(w, "idle", NoBatch, 1)
    BY <1>10, IdleMoves DEF Restart
  <2>2. \A v \in Workers \ {w} : nacked'[v] = nacked[v] /\ next'[v] = next[v]
    BY <2>1, NextBounds
  <2>3. serves[w] \in Groups /\ next'[w] - 1 = position[serves[w]]
    BY <2>1, NextBounds, LoopFacts, GroupFacts
  <2>4. \A g \in Groups : DoneUpTo(g, position[g])'
    BY <2>1, KeepsPositions
  <2>5. UpTo(effects', log'[serves[w]], serves[w], next'[w] - 1)
    BY <2>1, <2>3, <2>4 DEF DoneUpTo
  <2>6. LoopOK(w)'
    BY <2>1, <2>5, MovedAt, IdleLoop
  <2> QED BY <2>1, <2>2, <2>4, <2>6, <1>m
<1>11. ASSUME NEW g \in Groups, Rebalance(g) \/ Evict(g) \/ Reassign(g)
       PROVE  /\ \A x \in Groups : DoneUpTo(x, position[x])'
              /\ \A v \in Workers : LoopOK(v)'
  <2>1. UNCHANGED <<position, log, effects, pc, fetched, nacked>>
    BY <1>11 DEF Rebalance, Evict, Reassign, stores
  <2>2. PICK w \in Workers : serves[w] = g /\ Assign(g, w)
    BY <1>11 DEF Rebalance, Evict, Reassign, Candidates, Served
  <2> QED BY <2>1, <2>2, AssignLoops, KeepsPositions
<1>12. ~ExitMem /\ \A w \in Workers : ~Receive(w)
  BY DEF ExitMem, Receive
<1> QED
  BY <1>1, <1>2, <1>3, <1>4, <1>5, <1>6, <1>7, <1>8, <1>9, <1>10, <1>11, <1>12
     DEF Next, Consume, Environment, Halts

-----------------------------------------------------------------------------
(* In memory: a received envelope is applied, being handled, or lost. *)

(* The steps of the in-memory bus. *)
MemStep ==
    \/ UNCHANGED <<pc, fetched, position>>
    \/ \E w \in Workers : Receive(w)
    \/ \E w \in Workers : Handled(w)
    \/ \E w \in Workers : /\ pc[w] \in {"seen", "tx"} /\ position' = position
                          /\ \E l \in {"seen", "tx"}, h \in Handlers : Moved(w, l, fetched[w], h)
    \/ ExitMem

LEMMA MemSteps ==
    ASSUME TypeOK, Stored, ChannelsOK, bus = "mem", Next
    PROVE  MemStep
<1>0. \A w \in Workers : pc[w] \in {"idle", "seen", "tx"}
  BY DEF ChannelsOK
<1>1. CASE Relays \/ PublishFails
  <2>1. UNCHANGED <<pc, fetched, position>>
    BY <1>1, RelayGrows DEF loop
  <2> QED BY <2>1 DEF MemStep
<1>2. ASSUME NEW w \in Workers, Rejoin(w) PROVE MemStep
  BY <1>2 DEF Rejoin, loop, MemStep
<1>3. ASSUME NEW w \in Workers, Seen(w) \/ Atomically(w) PROVE MemStep
  <2>1. CASE Handled(w)
    BY <2>1 DEF MemStep
  <2>2. CASE /\ Moved(w, "tx", fetched[w], handler[w]) /\ pc[w] = "seen"
             /\ UNCHANGED <<deployment, broker, next, nacked, stores, lost>>
    <3>1. handler[w] \in Handlers /\ position' = position
      BY <2>2, LoopFacts DEF broker
    <3> QED BY <2>2, <3>1 DEF MemStep
  <2> QED BY <1>3, <2>1, <2>2, SeenSteps, AtomicallySteps
<1>4. ASSUME NEW w \in Workers, HandlerBroken(w) \/ HandlerFails(w) PROVE MemStep
  <2>1. position' = position /\ pc[w] \in {"seen", "tx"} /\ Nack(w)
    BY <1>4 DEF HandlerBroken, HandlerFails, broker
  <2>2. Moved(w, "seen", fetched[w], 1)
    BY <2>1, NackMoves
  <2> QED BY <2>1, <2>2, Constants DEF MemStep
<1>5. ASSUME NEW w \in Workers
      PROVE  /\ ~PollFetches(w) /\ ~CommitRecords(w) /\ ~CommitFails(w) /\ ~SetOffsets(w)
             /\ ~PollFails(w) /\ ~ExitKafka(w) /\ ~Restart(w)
  BY <1>0 DEF PollFetches, CommitRecords, PollFails, CommitFails, SetOffsets, ExitKafka, Restart
<1>6. \A g \in Groups : ~Rebalance(g) /\ ~Evict(g) /\ ~Reassign(g)
  BY DEF Rebalance, Evict, Reassign
<1>7. ASSUME ExitMem \/ (\E w \in Workers : Receive(w)) PROVE MemStep
  BY <1>7 DEF MemStep
<1> QED
  BY <1>1, <1>2, <1>3, <1>4, <1>5, <1>6, <1>7 DEF Next, Consume, Environment

(* An envelope whose last handler is applied leaves its loop idle. *)
LEMMA MemHandled ==
    ASSUME TypeOK, ChannelsOK, bus = "mem", NEW w \in Workers, Handled(w)
    PROVE  /\ pc[w] # "idle" /\ position' = position
           /\ \/ pc'[w] = "seen" /\ fetched'[w] = fetched[w]
              \/ pc'[w] = "idle" /\ handler[w] = NumHandlers
           /\ \A v \in Workers \ {w} : pc'[v] = pc[v] /\ fetched'[v] = fetched[v]
<1>1. pc[w] \in {"seen", "tx"} /\ Applied(w) /\ position' = position
  BY DEF Handled, broker
<1>2. fetched[w].at = fetched[w].last /\ fetched[w].at \in Nat
  BY <1>1, LoopFacts DEF ChannelsOK
<1>3. \/ Moved(w, "seen", fetched[w], handler[w] + 1)
      \/ handler[w] = NumHandlers /\ Moved(w, "idle", NoBatch, 1)
  BY <1>1, <1>2, AppliedMoves
<1> QED BY <1>1, <1>3, MovedAt

LEMMA MemReceive ==
    ASSUME TypeOK, NEW w \in Workers, Receive(w)
    PROVE  /\ pc[w] = "idle" /\ pc'[w] = "seen"
           /\ fetched'[w].at = position[serves[w]] + 1
           /\ fetched'[w].last = position[serves[w]] + 1
           /\ position'[serves[w]] = position[serves[w]] + 1
           /\ \A g \in Groups : g # serves[w] => position'[g] = position[g]
           /\ \A v \in Workers \ {w} : pc'[v] = pc[v] /\ fetched'[v] = fetched[v]
<1> DEFINE b == [first |-> position[serves[w]] + 1, at |-> position[serves[w]] + 1,
                 last |-> position[serves[w]] + 1]
<1>1. Moved(w, "seen", b, 1) /\ pc[w] = "idle"
  BY DeliverMoves DEF Receive
<1>2. /\ position' = [position EXCEPT ![serves[w]] = position[serves[w]] + 1]
      /\ position \in [Groups -> Nat] /\ serves[w] \in Groups
  BY TypeParts, LoopFacts DEF Receive, LogTypes
<1>3. /\ pc'[w] = "seen" /\ fetched'[w] = b
      /\ \A v \in Workers \ {w} : pc'[v] = pc[v] /\ fetched'[v] = fetched[v]
  BY <1>1, MovedAt
<1>4. fetched'[w].at = position[serves[w]] + 1 /\ fetched'[w].last = position[serves[w]] + 1
  BY <1>3
<1> QED BY <1>1, <1>2, <1>3, <1>4

LEMMA ChannelsNext ==
    ASSUME TypeOK, Stored, ChannelsOK, Grows, Next
    PROVE  ChannelsOK'
<1> SUFFICES ASSUME bus = "mem", NEW v \in Workers
             PROVE  /\ pc'[v] \in {"idle", "seen", "tx"}
                    /\ pc'[v] # "idle" => /\ fetched'[v].at <= position'[serves[v]]
                                          /\ fetched'[v].last = fetched'[v].at
  BY DEF ChannelsOK, Grows
<1> DEFINE Goal == /\ pc'[v] \in {"idle", "seen", "tx"}
                   /\ pc'[v] # "idle" => /\ fetched'[v].at <= position'[serves[v]]
                                         /\ fetched'[v].last = fetched'[v].at
<1>0. /\ pc[v] \in {"idle", "seen", "tx"}
      /\ pc[v] # "idle" => /\ fetched[v].at <= position[serves[v]]
                           /\ fetched[v].last = fetched[v].at
      /\ serves[v] \in Groups
  BY LoopFacts DEF ChannelsOK
<1>1. CASE UNCHANGED <<pc, fetched, position>>
  BY <1>0, <1>1
<1>2. ASSUME NEW w \in Workers, Receive(w) PROVE Goal
  <2>1. CASE v = w
    BY <2>1, <1>0, <1>2, MemReceive, GroupFacts
  <2>2. CASE v # w
    <3>1. serves[v] # serves[w]
      BY <2>2 DEF ChannelsOK
    <3> QED BY <3>1, <2>2, <1>0, <1>2, MemReceive
  <2> QED BY <2>1, <2>2
<1>3. ASSUME NEW w \in Workers, Handled(w) PROVE Goal
  BY <1>0, <1>3, MemHandled
<1>4. ASSUME NEW w \in Workers, pc[w] \in {"seen", "tx"}, position' = position,
             NEW l \in {"seen", "tx"}, NEW h \in Handlers, Moved(w, l, fetched[w], h)
      PROVE  Goal
  BY <1>0, <1>4, MovedAt
<1>5. CASE ExitMem
  BY <1>5 DEF ExitMem
<1>6. MemStep
  BY MemSteps
<1> QED BY <1>1, <1>2, <1>3, <1>4, <1>5, <1>6 DEF MemStep

(* What the loop of i's envelope, or the log, says of position i of g. *)
Accounted(g, i) ==
    \/ DoneIn(effects, log[g][i], g)
    \/ <<log[g][i], g>> \in lost
    \/ bus = "mem" /\ \E w \in Served(g) : pc[w] # "idle" /\ fetched[w].at = i

LEMMA AccountedFor ==
    NothingSkipped <=> \A g \in Deployed : \A i \in 1 .. position[g] : Accounted(g, i)
BY DEF NothingSkipped, Accounted, Done, DoneIn

LEMMA SkippedKafka == TypeOK /\ OffsetsOK /\ bus = "kafka" => NothingSkipped
<1> SUFFICES ASSUME TypeOK, OffsetsOK, bus = "kafka", NEW g \in Deployed, NEW i \in 1 .. position[g]
             PROVE  DoneIn(effects, log[g][i], g)
  BY AccountedFor DEF Accounted
<1>1. g \in Groups
  BY LoopFacts DEF Deployed
<1>2. UpTo(effects, log[g], g, position[g])
  BY <1>1 DEF OffsetsOK, DoneUpTo
<1> QED BY <1>2 DEF UpTo

LEMMA SkippedMem ==
    ASSUME TypeOK, Stored, Progress, ChannelsOK, NothingSkipped, Grows, Next, bus = "mem",
           NEW g \in Deployed, NEW i \in 1 .. position'[g]
    PROVE  Accounted(g, i)'
<1>0. /\ g \in Groups /\ serves' = serves /\ bus' = bus /\ position[g] \in Nat
      /\ position[g] <= Len(log[g]) /\ Len(log[g]) \in Nat
  BY LoopFacts, GroupFacts DEF Deployed, Grows
<1>k. ASSUME i \in 1 .. position[g], DoneIn(effects, log[g][i], g) \/ <<log[g][i], g>> \in lost
      PROVE  Accounted(g, i)'
  <2>1. i \in 1 .. Len(log[g])
    BY <1>0, <1>k
  <2>2. log'[g][i] = log[g][i] /\ log[g][i] \in Events
    BY <2>1, <1>0, GroupFacts DEF Grows, LogGrows
  <2>3. DoneIn(effects', log'[g][i], g) \/ <<log'[g][i], g>> \in lost'
    BY <1>0, <1>k, <2>2, KeepsDone DEF Grows
  <2> QED BY <2>3 DEF Accounted
<1>l. ASSUME NEW w \in Workers, serves[w] = g, pc'[w] # "idle", fetched'[w].at = i
      PROVE  Accounted(g, i)'
  BY <1>0, <1>l DEF Accounted, Served
<1>o. ASSUME i \in 1 .. position[g],
             ~(DoneIn(effects, log[g][i], g) \/ <<log[g][i], g>> \in lost)
      PROVE  \E w \in Workers : serves[w] = g /\ pc[w] # "idle" /\ fetched[w].at = i
  BY <1>o, AccountedFor DEF Accounted, Served
<1>1. CASE UNCHANGED <<pc, fetched, position>>
  BY <1>1, <1>k, <1>l, <1>o
<1>2. ASSUME NEW w \in Workers, Receive(w) PROVE Accounted(g, i)'
  <2>1. CASE i \in 1 .. position[g]
    <3>1. ASSUME NEW v \in Workers, serves[v] = g, pc[v] # "idle", fetched[v].at = i
          PROVE  Accounted(g, i)'
      BY <3>1, <1>2, <1>l, MemReceive
    <3> QED BY <2>1, <3>1, <1>k, <1>o
  <2>2. CASE i \notin 1 .. position[g]
    <3>1. g = serves[w]
      BY <2>2, <1>0, <1>2, MemReceive
    <3>2. i = position[g] + 1
      BY <3>1, <2>2, <1>0, <1>2, MemReceive
    <3> QED BY <3>1, <3>2, <1>2, <1>l, MemReceive
  <2> QED BY <2>1, <2>2
<1>3. ASSUME NEW w \in Workers, Handled(w) PROVE Accounted(g, i)'
  <2>1. i \in 1 .. position[g]
    BY <1>3, MemHandled
  <2>2. ASSUME NEW v \in Workers, serves[v] = g, pc[v] # "idle", fetched[v].at = i
        PROVE  Accounted(g, i)'
    <3>1. CASE v # w \/ (pc'[w] = "seen" /\ fetched'[w] = fetched[w])
      BY <3>1, <2>2, <1>3, <1>l, MemHandled
    <3>2. CASE v = w /\ handler[w] = NumHandlers
      <4>1. DoneIn(effects', Current(w), g)
        BY <3>2, <2>2, <1>3, HandledFacts DEF Handled
      <4>2. Current(w) = log[g][i] /\ log' = log
        BY <3>2, <2>2, <1>3 DEF Current, Handled, broker
      <4> QED BY <4>1, <4>2 DEF Accounted
    <3> QED BY <3>1, <3>2, <1>3, MemHandled
  <2> QED BY <2>1, <2>2, <1>k, <1>o
<1>4. ASSUME NEW w \in Workers, pc[w] \in {"seen", "tx"}, position' = position,
             NEW l \in {"seen", "tx"}, NEW h \in Handlers, Moved(w, l, fetched[w], h)
      PROVE  Accounted(g, i)'
  <2>1. ASSUME NEW v \in Workers, serves[v] = g, pc[v] # "idle", fetched[v].at = i
        PROVE  Accounted(g, i)'
    BY <2>1, <1>4, <1>l, MovedAt
  <2> QED BY <2>1, <1>4, <1>k, <1>o
<1>5. CASE ExitMem
  <2>1. /\ position'[g] = Len(log[g]) /\ log' = log /\ lost' = lost \cup Dropped
    BY <1>0, <1>5 DEF ExitMem
  <2>2. i \in DOMAIN log[g]
    BY <2>1, <1>0, GroupFacts
  <2>3. ASSUME \/ i > position[g]
               \/ \E w \in Served(g) : pc[w] # "idle" /\ fetched[w].at = i
        PROVE  <<log[g][i], g>> \in Dropped
    BY <2>2, <2>3 DEF Dropped
  <2>4. CASE i > position[g]
    BY <2>1, <2>3, <2>4 DEF Accounted
  <2>5. CASE ~(i > position[g])
    <3>1. i \in 1 .. position[g]
      BY <2>5, <2>1, <1>0
    <3>2. ASSUME NEW v \in Workers, serves[v] = g, pc[v] # "idle", fetched[v].at = i
          PROVE  Accounted(g, i)'
      BY <3>2, <2>1, <2>3 DEF Accounted, Served
    <3> QED BY <3>1, <3>2, <1>k, <1>o
  <2> QED BY <2>4, <2>5
<1>6. MemStep
  BY MemSteps
<1> QED BY <1>1, <1>2, <1>3, <1>4, <1>5, <1>6 DEF MemStep

LEMMA SkippedNext ==
    ASSUME TypeOK, Stored, Progress, OffsetsOK, ChannelsOK, NothingSkipped, Grows, Next,
           TypeOK', OffsetsOK'
    PROVE  NothingSkipped'
<1>1. CASE bus = "kafka"
  <2>1. (bus = "kafka")'
    BY <1>1 DEF Grows
  <2> QED BY <2>1, SkippedKafka, PTL
<1>2. CASE bus = "mem"
  <2>1. \A g \in Deployed : \A i \in 1 .. position'[g] : Accounted(g, i)'
    BY <1>2, SkippedMem
  <2>2. Deployed' = Deployed
    BY DEF Grows
  <2>3. (\A g \in Deployed : \A i \in 1 .. position[g] : Accounted(g, i))'
    BY <2>1, <2>2
  <2> QED BY <2>3, AccountedFor, PTL
<1> QED BY <1>1, <1>2, TypeParts DEF RelayTypes

-----------------------------------------------------------------------------
(* The order of the events. *)

LEMMA DeployedGroups == ASSUME TypeOK, NEW g \in Deployed PROVE g \in Groups
BY LoopFacts DEF Deployed

LEMMA EnqueueLog ==
    ASSUME TypeOK, LogOK, NEW g \in Groups, Enqueue(g)
    PROVE  LogOK'
<1>1. /\ sending \in Events /\ sending = cursor + 1 /\ g \in Deployed /\ g \in unsent
      /\ cursor \in Nat
  BY TypeParts, Constants DEF Enqueue, RelayTypes, Events
<1>2. /\ log' = [log EXCEPT ![g] = Append(log[g], sending)] /\ unsent' = unsent \ {g}
      /\ cursor' = cursor /\ sending' = sending /\ serves' = serves
  BY DEF Enqueue, deployment
<1>3. log \in [Groups -> Seq(Events)] /\ log[g] \in Seq(Events) /\ Len(log[g]) \in Nat
  BY TypeParts, GroupFacts DEF LogTypes
<1>4. /\ log'[g] = Append(log[g], sending)
      /\ \A x \in Groups \ {g} : log'[x] = log[x]
  BY <1>2, <1>3
<1>5. /\ Len(log'[g]) = Len(log[g]) + 1 /\ log'[g][Len(log[g]) + 1] = sending
      /\ \A i \in 1 .. Len(log[g]) : log'[g][i] = log[g][i]
  BY <1>1, <1>3, <1>4, AppendFacts
<1>6. ASSUME NEW x \in Groups, NEW j \in 1 .. Len(log'[x]), NEW f \in Events, f < log'[x][j]
      PROVE  \E i \in 1 .. (j - 1) : log'[x][i] = f
  <2>1. CASE x # g
    BY <2>1, <1>4, <1>6 DEF LogOK
  <2>2. CASE x = g /\ j \in 1 .. Len(log[g])
    <3>1. PICK i \in 1 .. (j - 1) : log[g][i] = f
      BY <2>2, <1>5, <1>6 DEF LogOK
    <3>2. i \in 1 .. Len(log[g])
      BY <2>2, <1>3
    <3> QED BY <2>2, <3>1, <3>2, <1>5
  <2>3. CASE x = g /\ j \notin 1 .. Len(log[g])
    <3>1. j = Len(log[g]) + 1
      BY <2>3, <1>3, <1>5
    <3>2. f <= cursor
      BY <3>1, <2>3, <1>1, <1>5, <1>6, Constants
    <3>3. PICK i \in 1 .. Len(log[g]) : log[g][i] = f
      BY <3>2, <1>1 DEF LogOK
    <3>4. i \in 1 .. (j - 1)
      BY <3>1, <1>3
    <3> QED BY <2>3, <3>3, <3>4, <1>5
  <2> QED BY <2>1, <2>2, <2>3
<1>7. ASSUME NEW x \in Deployed, NEW e \in Events,
             e <= cursor \/ (e = sending /\ x \notin unsent')
      PROVE  \E i \in 1 .. Len(log'[x]) : log'[x][i] = e
  <2>0. x \in Groups
    BY DeployedGroups
  <2>1. CASE x # g
    BY <2>0, <2>1, <1>2, <1>4, <1>7 DEF LogOK
  <2>2. CASE x = g /\ e <= cursor
    <3>1. PICK i \in 1 .. Len(log[g]) : log[g][i] = e
      BY <2>2, <1>1 DEF LogOK
    <3>2. i \in 1 .. Len(log'[g])
      BY <1>3, <1>5
    <3> QED BY <2>2, <3>1, <3>2, <1>5
  <2>3. CASE x = g /\ e = sending
    <3>1. Len(log[g]) + 1 \in 1 .. Len(log'[g])
      BY <1>3, <1>5
    <3> QED BY <2>3, <3>1, <1>5
  <2> QED BY <1>7, <2>1, <2>2, <2>3
<1>8. Deployed' = Deployed
  BY <1>2 DEF Deployed
<1> QED BY <1>2, <1>6, <1>7, <1>8 DEF LogOK

LEMMA LogNext ==
    ASSUME TypeOK, LogOK, Grows, Next
    PROVE  LogOK'
<1>0. Deployed' = Deployed
  BY DEF Grows
<1>1. ASSUME log' = log,
             \A g \in Deployed, e \in Events :
                e <= cursor' \/ (e = sending' /\ g \notin unsent') =>
                    e <= cursor \/ (e = sending /\ g \notin unsent)
      PROVE  LogOK'
  BY <1>0, <1>1 DEF LogOK
<1>2. CASE Publish
  BY <1>1, <1>2 DEF Publish, broker
<1>3. CASE SaveCursor
  <2>1. /\ log' = log /\ cursor' = sending /\ sending' = 0 /\ unsent = {} /\ sending = cursor + 1
        /\ cursor \in Nat
    BY <1>3, TypeParts, Constants DEF SaveCursor, broker, RelayTypes
  <2>2. ASSUME NEW e \in Events, e <= cursor' \/ e = sending'
        PROVE  e <= cursor \/ e = sending
    BY <2>1, <2>2, Constants
  <2> QED BY <1>1, <2>1, <2>2
<1>4. CASE PublishFails \/ ExitMem
  <2>1. log' = log /\ cursor' = cursor /\ sending' = 0
    BY <1>4 DEF PublishFails, ExitMem, broker
  <2>2. \A e \in Events : e # 0
    BY Constants
  <2> QED BY <1>1, <2>1, <2>2
<1>5. ASSUME NEW g \in Groups, Enqueue(g) PROVE LogOK'
  BY <1>5, EnqueueLog
<1>6. CASE UNCHANGED <<relay, log>>
  BY <1>1, <1>6 DEF relay
<1>7. ASSUME NEW w \in Workers, Consume(w) PROVE UNCHANGED <<relay, log>>
  BY <1>7 DEF Consume, Receive, PollFetches, Seen, Atomically, HandlerBroken, CommitRecords,
              CommitFails, SetOffsets, Rejoin, broker
<1>8. ASSUME NEW w \in Workers, HandlerFails(w) \/ Halts(w) \/ Restart(w)
      PROVE  UNCHANGED <<relay, log>>
  BY <1>8 DEF HandlerFails, Halts, PollFails, CommitFails, ExitKafka, Restart, broker
<1>9. ASSUME NEW g \in Groups, Rebalance(g) \/ Evict(g) \/ Reassign(g)
      PROVE  UNCHANGED <<relay, log>>
  BY <1>9 DEF Rebalance, Evict, Reassign
<1> QED
  BY <1>2, <1>3, <1>4, <1>5, <1>6, <1>7, <1>8, <1>9 DEF Next, Relays, Environment, Halts

(* What was published before the event w handles is applied, or lost. *)
LEMMA EarlierDone ==
    ASSUME TypeOK, OffsetsOK, ChannelsOK, NothingSkipped, LogOK, NEW w \in Workers,
           pc[w] = "tx", NEW f \in Events, f < Current(w)
    PROVE  DoneIn(effects, f, serves[w]) \/ <<f, serves[w]>> \in lost
<1> DEFINE g == serves[w]
<1>0. /\ pc[w] \in Working /\ g \in Groups /\ g \in Deployed
      /\ fetched[w].at \in 1 .. Len(log[g]) /\ fetched[w].at \in Nat
  BY LoopFacts, CurrentFacts DEF Working
<1>1. PICK i \in 1 .. (fetched[w].at - 1) : log[g][i] = f
  BY <1>0 DEF LogOK, Current
<1>2. CASE bus = "kafka"
  <2>1. UpTo(effects, log[g], g, fetched[w].at - 1)
    BY <1>0, <1>2 DEF OffsetsOK, LoopOK, DoneUpTo
  <2> QED BY <1>1, <2>1 DEF UpTo
<1>3. CASE bus = "mem"
  <2>1. fetched[w].at <= position[g] /\ position[g] \in Nat
    BY <1>0, <1>3, GroupFacts DEF ChannelsOK
  <2>2. i \in 1 .. position[g] /\ i # fetched[w].at
    BY <1>0, <1>1, <2>1
  <2>3. Accounted(g, i)
    BY <1>0, <2>2, AccountedFor
  <2>4. ASSUME NEW v \in Served(g), fetched[v].at = i PROVE FALSE
    BY <1>3, <2>2, <2>4 DEF Served, ChannelsOK
  <2> QED BY <1>1, <2>3, <2>4 DEF Accounted
<1> QED BY <1>2, <1>3, TypeParts DEF RelayTypes

LEMMA OrderForm ==
    InOrder <=> \A e, f \in Events, g \in Deployed, h \in Handlers :
        f < e /\ effects[<<e, g, h>>] > 0 => DoneIn(effects, f, g) \/ <<f, g>> \in lost
BY DEF InOrder, Done, DoneIn

LEMMA OrderNext ==
    ASSUME InTransaction, TypeOK, Stored, OffsetsOK, ChannelsOK, NothingSkipped, LogOK, InOrder,
           Grows, Next
    PROVE  InOrder'
<1> SUFFICES ASSUME NEW e \in Events, NEW f \in Events, NEW g \in Deployed, NEW h \in Handlers,
                    f < e, effects'[<<e, g, h>>] > 0
             PROVE  DoneIn(effects', f, g) \/ <<f, g>> \in lost'
  BY DEF InOrder, Done, DoneIn, Grows
<1>0. g \in Groups /\ <<e, g, h>> \in Marks
  BY DeployedGroups DEF Marks
<1>1. CASE effects[<<e, g, h>>] > 0
  <2>1. DoneIn(effects, f, g) \/ <<f, g>> \in lost
    BY <1>1, OrderForm
  <2> QED BY <1>0, <2>1, KeepsDone DEF Grows
<1>2. CASE ~(effects[<<e, g, h>>] > 0)
  <2>1. PICK w \in Workers : Atomically(w)
    BY <1>2 DEF Next, Relays, Publish, Enqueue, SaveCursor, Consume, Receive, PollFetches, Seen,
       HandlerBroken, CommitRecords, CommitFails, SetOffsets, Rejoin, Environment, PublishFails,
       ExitMem, HandlerFails, PollFails, ExitKafka, Restart, Rebalance, Evict, Reassign, stores
  <2>2. pc[w] = "tx" /\ pc[w] \in Working /\ CommitOnce(w)
    BY <2>1 DEF Atomically, Working
  <2>3. <<e, g, h>> = Mark(w)
    BY <1>0, <1>2, <2>2, CommitGrows
  <2>4. e = Current(w) /\ g = serves[w]
    BY <2>3 DEF Mark
  <2>5. DoneIn(effects, f, g) \/ <<f, g>> \in lost
    BY <2>2, <2>4, EarlierDone
  <2> QED BY <1>0, <2>5, KeepsDone DEF Grows
<1> QED BY <1>1, <1>2

-----------------------------------------------------------------------------
(* The invariant. *)

LEMMA InvInit == Init => ConsumerInv
<1> SUFFICES ASSUME Init PROVE ConsumerInv
  OBVIOUS
<1>1. TypeOK
  BY TypeInit
<1>2. \A w \in Workers : pc[w] = "idle" /\ next[w] = 1
  BY DEF Init
<1>3. \A g \in Groups : position[g] = 0 /\ Len(log[g]) = 0
  BY DEF Init
<1>4. Stored
  BY DEF Init, Stored, Marks
<1>5. Progress
  BY <1>2 DEF Progress
<1>6. OffsetsOK
  <2>1. \A g \in Groups : UpTo(effects, log[g], g, 0)
    BY DEF UpTo
  <2>2. ASSUME NEW w \in Workers PROVE LoopOK(w)
    <3>1. next[w] - 1 = 0 /\ pc[w] \notin Working /\ pc[w] # "commit" /\ serves[w] \in Groups
      BY <1>1, <1>2, LoopFacts DEF Working
    <3> QED BY <3>1, <2>1 DEF LoopOK, DoneUpTo
  <2> QED BY <1>3, <2>1, <2>2 DEF OffsetsOK, DoneUpTo
<1>7. ChannelsOK
  <2>1. bus = "mem" => \A v, w \in Workers : serves[v] = serves[w] => v = w
    BY ConsumerAssumption DEF Init, Deploys
  <2> QED BY <2>1, <1>2 DEF ChannelsOK
<1>8. NothingSkipped
  <2>1. \A g \in Deployed : position[g] = 0
    BY <1>1, <1>3, DeployedGroups
  <2> QED BY <2>1 DEF NothingSkipped
<1>9. LogOK
  <2>1. \A e \in Events : ~(e <= cursor) /\ e # sending
    BY Constants DEF Init
  <2> QED BY <1>3, <2>1 DEF LogOK
<1>10. InOrder
  <2>1. ASSUME NEW e \in Events, NEW g \in Deployed, NEW h \in Handlers
        PROVE  ~(effects[<<e, g, h>>] > 0)
    <3>1. g \in Groups
      BY <1>1, DeployedGroups
    <3> QED BY <3>1 DEF Init
  <2> QED BY <2>1 DEF InOrder
<1> QED BY <1>1, <1>4, <1>5, <1>6, <1>7, <1>8, <1>9, <1>10 DEF ConsumerInv

LEMMA InvStutter ==
    ASSUME ConsumerInv, UNCHANGED vars
    PROVE  ConsumerInv'
<1>1. UNCHANGED <<deployment, relay, broker, loop, stores, lost>>
  BY DEF vars
<1>2. /\ UNCHANGED <<bus, serves, cursor, sending, unsent, log, position, assigned, evicted>>
      /\ UNCHANGED <<pc, next, fetched, handler, nacked, markers, effects, lost>>
  BY <1>1 DEF deployment, relay, broker, loop, stores
<1>3. TypeOK'
  BY TypeStutter DEF ConsumerInv
<1>4. Stored' /\ Progress'
  BY <1>2 DEF ConsumerInv, Stored, Progress, Current
<1>5. OffsetsOK'
  BY <1>2 DEF ConsumerInv, OffsetsOK, LoopOK, DoneUpTo
<1>6. ChannelsOK'
  BY <1>2 DEF ConsumerInv, ChannelsOK
<1>7. NothingSkipped'
  BY <1>2 DEF ConsumerInv, NothingSkipped, Done, Deployed, Served
<1>8. LogOK' /\ InOrder'
  BY <1>2 DEF ConsumerInv, LogOK, InOrder, Done, Deployed
<1> QED BY <1>3, <1>4, <1>5, <1>6, <1>7, <1>8 DEF ConsumerInv

LEMMA InvNext ==
    ASSUME InTransaction, ConsumerInv, [Next]_vars
    PROVE  ConsumerInv'
<1>1. CASE Next
  <2>0. /\ TypeOK /\ Stored /\ Progress /\ OffsetsOK /\ ChannelsOK /\ NothingSkipped /\ LogOK
        /\ InOrder
    BY DEF ConsumerInv
  <2>1. TypeOK'
    BY <2>0, TypeNext
  <2>2. Grows /\ Stored'
    <3>1. CASE Relays
      BY <2>0, <3>1, RelayGrows DEF Stored, stores
    <3>2. CASE (\E w \in Workers : Consume(w)) \/ Environment
      BY <2>0, <3>2, LoopGrows
    <3> QED BY <1>1, <3>1, <3>2 DEF Next
  <2>3. Progress'
    BY <1>1, <2>0, <2>2, ProgressNext
  <2>4. OffsetsOK'
    BY <1>1, <2>0, <2>2, OffsetsNext
  <2>5. ChannelsOK'
    BY <1>1, <2>0, <2>2, ChannelsNext
  <2>6. NothingSkipped'
    BY <1>1, <2>0, <2>1, <2>2, <2>4, SkippedNext
  <2>7. LogOK'
    BY <1>1, <2>0, <2>2, LogNext
  <2>8. InOrder'
    BY <1>1, <2>0, <2>2, OrderNext
  <2> QED BY <2>1, <2>2, <2>3, <2>4, <2>5, <2>6, <2>7, <2>8 DEF ConsumerInv
<1>2. CASE UNCHANGED vars
  BY <1>2, InvStutter
<1> QED BY <1>1, <1>2

LEMMA InvHolds == ASSUME InTransaction PROVE Spec => []ConsumerInv
<1>1. Init => ConsumerInv
  BY InvInit
<1>2. ConsumerInv /\ [Next]_vars => ConsumerInv'
  BY InvNext
<1> QED BY <1>1, <1>2, PTL DEF Spec

(* Exactly once, for every handler that records its marker in the           *)
(* transaction of its effect (Consumer.deliver): republishing, redelivery,  *)
(* a member that lost its partition and any exit commit no effect twice.    *)
THEOREM EffectsOnce == ASSUME InTransaction PROVE Spec => []EffectOnce
<1>1. ConsumerInv => EffectOnce
  <2> SUFFICES ASSUME ConsumerInv, NEW m \in DOMAIN effects PROVE effects[m] <= 1
    BY DEF EffectOnce
  <2>1. m \in Marks
    BY TypeParts DEF ConsumerInv, StoreTypes
  <2> QED BY <2>1 DEF ConsumerInv, Stored
<1> QED BY <1>1, InvHolds, PTL

(* Neither bus moves past an event that a handler of the group has not      *)
(* applied, unless a process exit dropped it: the offset is committed after *)
(* the handlers, a failed record is sought back to, and the in-memory       *)
(* dispatch keeps the envelope until all have succeeded.                    *)
THEOREM NoEventSkipped == ASSUME InTransaction PROVE Spec => []NothingSkipped
<1>1. ConsumerInv => NothingSkipped
  BY DEF ConsumerInv
<1> QED BY <1>1, InvHolds, PTL

(* No group applies an event before an earlier one, over retries,           *)
(* republished events and rebalances, except past one a process exit lost.  *)
THEOREM EventsInOrder == ASSUME InTransaction PROVE Spec => []InOrder
<1>1. ConsumerInv => InOrder
  BY DEF ConsumerInv
<1> QED BY <1>1, InvHolds, PTL
=============================================================================
