---------------------------- MODULE OutboxRelay ----------------------------
(***************************************************************************)
(* The write-only transactional outbox and the relays that pump it to the  *)
(* bus.  Producers (events.OutboxPublisher over an OutboxStore) stamp an   *)
(* event with the clock, insert its row and commit it with the aggregate.  *)
(* Replicas of a Relay elect a leader, read forward from the sidecar       *)
(* cursor in (created_time, id) order, publish, and move the cursor.       *)
(*                                                                         *)
(* An event is its id, a natural number, ids being compared by ReadAfter;  *)
(* producers take them up in any order, as UUIDs have none.  Each event is *)
(* produced by a transaction of its own.                                   *)
(***************************************************************************)
EXTENDS Naturals, FiniteSets

CONSTANTS Events, NoEvent, Relays, NoRelay,
          Poison,       \* events the bus never accepts
          SerialTx,     \* TRUE: one producing transaction at a time (MemoryTxRunner)
          CoarseClock,  \* TRUE: two stamps may be equal
          Sequenced,    \* TRUE: the tenant_event_seq table has been migrated
          LeaderKind,   \* "single": SingleProcessLeader, "pg": PGAdvisoryLeader
          MaxAttempts,  \* the relays' poison cutoff
          Limit,        \* the batch size
          MaxFaults,    \* bound on transient errors of the bus and the stores
          MaxExits,     \* bound on Run loops that are cancelled or crash
          MaxLosses,    \* bound on broken database sessions of a leader
          MaxDrops      \* bound on calls of the retention task

ASSUME OutboxAssumption ==
    /\ Events \subseteq Nat \ {0} /\ IsFiniteSet(Events)
    /\ NoEvent \notin Events
    /\ NoRelay \notin Relays
    /\ Poison \subseteq Events
    /\ {SerialTx, CoarseClock, Sequenced} \subseteq BOOLEAN
    /\ LeaderKind \in {"single", "pg"}
    /\ {MaxAttempts, Limit} \subseteq Nat \ {0}
    /\ {MaxFaults, MaxExits, MaxLosses, MaxDrops} \subseteq Nat

VARIABLES
    phase,      \* phase[e]: how far e's producing transaction is
    stamp,      \* stamp[e]: the row's created_time
    seq,        \* seq[e]: the row's event_seq, 0 when unsequenced
    clock,      \* the last stamp handed out
    nextSeq,    \* the tenant's committed allocator row
    seqLock,    \* the transaction that holds the allocator row
    late,       \* history: events committed behind the position of a committed one
    cursor,     \* the sidecar row: position and head-failure count
    dead,       \* the sidecar's dead letters
    published,  \* events the bus has accepted at least once
    tries,      \* tries[e]: failed publishes of e so far, up to MaxAttempts
    holder,     \* who holds the leader's lock
    pc,         \* pc[r]: where replica r's Run loop is
    leading,    \* leading[r]: Run's local flag
    view,       \* view[r]: PumpOnce's cursor and headFailures
    batch,      \* batch[r]: what is left of the batch PumpOnce read
    faults, exits, losses, drops

producer == <<phase, stamp, seq, clock, nextSeq, seqLock, late>>
relay == <<pc, leading, view, batch>>
sidecar == <<cursor, dead>>
bounds == <<faults, exits, losses, drops>>
vars == <<producer, relay, sidecar, published, tries, holder, bounds>>

-----------------------------------------------------------------------------
(* Positions: (created_time, id), compared lexicographically. *)

Positions == [time : Nat, id : Nat]

StartOfStream == [time |-> 0, id |-> 0]

Before(p, q) == p.time < q.time \/ (p.time = q.time /\ p.id < q.id)

PosOf(e) == [time |-> stamp[e], id |-> e]

Cursors == [pos : Positions, fails : Nat]

(* The rows a scan sees are those of committed transactions. *)
Visible == {e \in Events : phase[e] = "committed"}

(* What was ever committed, retention or not. *)
Stored == {e \in Events : phase[e] \in {"committed", "dropped"}}

(* ReadAfter: the first Limit rows strictly after the cursor. *)
ReadAfter(p) ==
    LET after == {e \in Visible : Before(p, PosOf(e))}
    IN  {e \in after : Cardinality({f \in after : Before(PosOf(f), PosOf(e))}) < Limit}

(* The oldest event of a batch. *)
Oldest(es) == CHOOSE e \in es : \A f \in es \ {e} : Before(PosOf(e), PosOf(f))

-----------------------------------------------------------------------------
(* The producer: Publish and Append inside Atomically. *)

Open == {e \in Events : phase[e] \in {"stamped", "appended"}}

(* Publish reads the clock.  Under the in-memory runner the transaction     *)
(* already holds the outbox, so no other one is open.                       *)
Publish(e) ==
    /\ phase[e] = "none"
    /\ SerialTx => Open = {}
    /\ \E t \in {clock, clock + 1} :
          /\ t > clock \/ (CoarseClock /\ t > 0)
          /\ clock' = t
          /\ stamp' = [stamp EXCEPT ![e] = t]
    /\ phase' = [phase EXCEPT ![e] = "stamped"]
    /\ UNCHANGED <<seq, nextSeq, seqLock, late, relay, sidecar, published, tries, holder, bounds>>

(* Mutant: the allocator row is read without FOR UPDATE. *)
AppendUnlocked(e) ==
    /\ phase[e] = "stamped"
    /\ seq' = [seq EXCEPT ![e] = nextSeq + 1]
    /\ phase' = [phase EXCEPT ![e] = "appended"]
    /\ UNCHANGED <<stamp, clock, nextSeq, seqLock, late, relay, sidecar, published, tries, holder, bounds>>

(* Append takes the allocator's row lock, which the transaction keeps until *)
(* it ends, and inserts the row.                                            *)
Append(e) ==
    /\ phase[e] = "stamped"
    /\ IF Sequenced
         THEN /\ seqLock = NoEvent
              /\ seqLock' = e
              /\ seq' = [seq EXCEPT ![e] = nextSeq + 1]
         ELSE UNCHANGED <<seqLock, seq>>
    /\ phase' = [phase EXCEPT ![e] = "appended"]
    /\ UNCHANGED <<stamp, clock, nextSeq, late, relay, sidecar, published, tries, holder, bounds>>

Unlock(e) == seqLock' = IF seqLock = e THEN NoEvent ELSE seqLock

Commit(e) ==
    /\ phase[e] = "appended"
    /\ phase' = [phase EXCEPT ![e] = "committed"]
    /\ nextSeq' = IF Sequenced THEN seq[e] ELSE nextSeq
    /\ late' = IF \E f \in Stored : Before(PosOf(e), PosOf(f)) THEN late \cup {e} ELSE late
    /\ Unlock(e)
    /\ UNCHANGED <<stamp, seq, clock, relay, sidecar, published, tries, holder, bounds>>

(* The unit of work fails and its row is discarded. *)
Abort(e) ==
    /\ e \in Open
    /\ phase' = [phase EXCEPT ![e] = "aborted"]
    /\ Unlock(e)
    /\ UNCHANGED <<stamp, seq, clock, nextSeq, late, relay, sidecar, published, tries, holder, bounds>>

(* RunRetention drops what is older than its window, measured from now. *)
DropPartitionsBefore(t) ==
    /\ drops < MaxDrops
    /\ \E e \in Visible : stamp[e] < t
    /\ phase' = [e \in Events |-> IF e \in Visible /\ stamp[e] < t THEN "dropped" ELSE phase[e]]
    /\ drops' = drops + 1
    /\ UNCHANGED <<stamp, seq, clock, nextSeq, seqLock, late, relay, sidecar, published, tries,
                   holder, faults, exits, losses>>

-----------------------------------------------------------------------------
(* Leadership. *)

(* What TryAcquire answers a replica that does not lead. *)
TryAcquire(r) == holder = NoRelay

(* The lock after r's Release: an advisory lock belongs to its session,     *)
(* the in-process one to nobody.                                            *)
Released(r) == IF LeaderKind = "single" \/ holder = r THEN NoRelay ELSE holder

(* A database session that breaks releases its advisory lock; the replica   *)
(* is not told.                                                             *)
SessionLost(r) ==
    /\ LeaderKind = "pg"
    /\ losses < MaxLosses
    /\ holder = r
    /\ holder' = NoRelay
    /\ losses' = losses + 1
    /\ UNCHANGED <<producer, relay, sidecar, published, tries, faults, exits, drops>>

-----------------------------------------------------------------------------
(* Run and PumpOnce, one action per call of the stores and the bus. *)

Goto(r, label) == pc' = [pc EXCEPT ![r] = label]

NoView == [pos |-> StartOfStream, fails |-> 0]

(* PumpOnce returns, or the process ends: the pass's locals are gone. *)
Leave(r, label) ==
    /\ Goto(r, label)
    /\ view' = [view EXCEPT ![r] = NoView]
    /\ batch' = [batch EXCEPT ![r] = {}]

(* A tick without leadership: win it and pump.  A replica that loses idles. *)
Acquire(r) ==
    /\ pc[r] = "tick"
    /\ ~leading[r]
    /\ TryAcquire(r)
    /\ holder' = r
    /\ leading' = [leading EXCEPT ![r] = TRUE]
    /\ Goto(r, "load")
    /\ UNCHANGED <<producer, view, batch, sidecar, published, tries, bounds>>

(* A tick with it: the flag alone is enough to pump again. *)
Tick(r) ==
    /\ pc[r] = "tick"
    /\ leading[r]
    /\ Goto(r, "load")
    /\ UNCHANGED <<producer, leading, view, batch, sidecar, published, tries, holder, bounds>>

LoadCursor(r) ==
    /\ pc[r] = "load"
    /\ view' = [view EXCEPT ![r] = cursor]
    /\ Goto(r, "read")
    /\ UNCHANGED <<producer, leading, batch, sidecar, published, tries, holder, bounds>>

Read(r) ==
    /\ pc[r] = "read"
    /\ LET rows == ReadAfter(view[r].pos)
       IN  IF rows = {}
             THEN Leave(r, "tick")
             ELSE /\ batch' = [batch EXCEPT ![r] = rows]
                  /\ Goto(r, "publish")
                  /\ UNCHANGED view
    /\ UNCHANGED <<producer, leading, sidecar, published, tries, holder, bounds>>

(* Mutant: the head-failure count survives a successful publish. *)
PublishOkKeepsCount(r) ==
    /\ pc[r] = "publish"
    /\ Oldest(batch[r]) \notin Poison
    /\ published' = published \cup {Oldest(batch[r])}
    /\ view' = [view EXCEPT ![r].pos = PosOf(Oldest(batch[r]))]
    /\ Goto(r, "save")
    /\ UNCHANGED <<producer, leading, batch, sidecar, tries, holder, bounds>>

(* The bus accepts the head. *)
PublishOk(r) ==
    /\ pc[r] = "publish"
    /\ Oldest(batch[r]) \notin Poison
    /\ published' = published \cup {Oldest(batch[r])}
    /\ view' = [view EXCEPT ![r] = [pos |-> PosOf(Oldest(batch[r])), fails |-> 0]]
    /\ Goto(r, "save")
    /\ UNCHANGED <<producer, leading, batch, sidecar, tries, holder, bounds>>

(* The counter at which the head is given up. *)
GivesUp(n) == n >= MaxAttempts

(* Mutant: the batch goes on after a failed head. *)
PublishFailsSkips(r) ==
    /\ pc[r] = "publish"
    /\ Oldest(batch[r]) \in Poison
    /\ batch[r] # {Oldest(batch[r])}
    /\ batch' = [batch EXCEPT ![r] = @ \ {Oldest(@)}]
    /\ UNCHANGED <<producer, pc, leading, view, sidecar, published, tries, holder, bounds>>

(* The bus refuses the head, or accepts it and the answer is lost. *)
PublishFails(r) ==
    LET e == Oldest(batch[r])
        n == view[r].fails + 1
    IN  /\ pc[r] = "publish"
        /\ \/ e \in Poison /\ UNCHANGED <<published, faults>>
           \/ /\ e \notin Poison
              /\ faults < MaxFaults
              /\ faults' = faults + 1
              /\ published' \in {published, published \cup {e}}
        /\ view' = [view EXCEPT ![r].fails = n]
        /\ tries' = [tries EXCEPT ![e] = IF @ < MaxAttempts THEN @ + 1 ELSE @]
        /\ Goto(r, IF GivesUp(n) THEN "deadLetter" ELSE "saveFails")
        /\ UNCHANGED <<producer, leading, batch, sidecar, holder, exits, losses, drops>>

(* Mutants: the cursor moves on although the head failed; the count is lost. *)
AfterFailureAdvances(r) == [view[r] EXCEPT !.pos = PosOf(Oldest(batch[r]))]
AfterFailureForgets(r) == [view[r] EXCEPT !.fails = 0]

(* What the sidecar keeps after a failure: the position as it was, and the  *)
(* new count.                                                               *)
AfterFailure(r) == view[r]

(* Advance past the published event and go on with the batch. *)
SaveCursor(r) ==
    /\ pc[r] = "save"
    /\ cursor' = view[r]
    /\ LET rest == batch[r] \ {Oldest(batch[r])}
       IN  IF rest = {}
             THEN Leave(r, "tick")
             ELSE /\ batch' = [batch EXCEPT ![r] = rest]
                  /\ Goto(r, "publish")
                  /\ UNCHANGED view
    /\ UNCHANGED <<producer, leading, dead, published, tries, holder, bounds>>

SaveFailures(r) ==
    /\ pc[r] = "saveFails"
    /\ cursor' = AfterFailure(r)
    /\ Leave(r, "tick")
    /\ UNCHANGED <<producer, leading, dead, published, tries, holder, bounds>>

DeadLetter(r) ==
    /\ pc[r] = "deadLetter"
    /\ dead' = dead \cup {Oldest(batch[r])}
    /\ Goto(r, "savePast")
    /\ UNCHANGED <<producer, leading, view, batch, cursor, published, tries, holder, bounds>>

(* Advance past the dead-lettered head; the pass ends with an error. *)
SavePast(r) ==
    /\ pc[r] = "savePast"
    /\ cursor' = [pos |-> PosOf(Oldest(batch[r])), fails |-> 0]
    /\ Leave(r, "tick")
    /\ UNCHANGED <<producer, leading, dead, published, tries, holder, bounds>>

(* A store call of the pass fails: PumpOnce returns, the loop goes on.      *)
StoreFault(r) ==
    /\ faults < MaxFaults
    /\ pc[r] \in {"load", "read", "save", "saveFails", "deadLetter", "savePast"}
    /\ faults' = faults + 1
    /\ Leave(r, "tick")
    /\ UNCHANGED <<producer, leading, sidecar, published, tries, holder,
                   exits, losses, drops>>

(* The context is cancelled between two passes: Run returns and releases.   *)
Stop(r) ==
    /\ exits < MaxExits
    /\ pc[r] = "tick"
    /\ holder' = Released(r)
    /\ leading' = [leading EXCEPT ![r] = FALSE]
    /\ Leave(r, "down")
    /\ exits' = exits + 1
    /\ UNCHANGED <<producer, sidecar, published, tries, faults, losses, drops>>

(* The replica dies and its sessions end with it. *)
Crash(r) ==
    /\ LeaderKind = "pg"
    /\ exits < MaxExits
    /\ pc[r] # "down"
    /\ holder' = IF holder = r THEN NoRelay ELSE holder
    /\ leading' = [leading EXCEPT ![r] = FALSE]
    /\ Leave(r, "down")
    /\ exits' = exits + 1
    /\ UNCHANGED <<producer, sidecar, published, tries, faults, losses, drops>>

(* A new process runs the relay. *)
Start(r) ==
    /\ pc[r] = "down"
    /\ Goto(r, "tick")
    /\ UNCHANGED <<producer, leading, view, batch, sidecar, published, tries, holder, bounds>>

-----------------------------------------------------------------------------
Init ==
    /\ phase = [e \in Events |-> "none"]
    /\ stamp = [e \in Events |-> 0]
    /\ seq = [e \in Events |-> 0]
    /\ clock = 0 /\ nextSeq = 0 /\ seqLock = NoEvent /\ late = {}
    /\ cursor = NoView
    /\ dead = {} /\ published = {}
    /\ tries = [e \in Events |-> 0]
    /\ holder = NoRelay
    /\ pc = [r \in Relays |-> "tick"]
    /\ leading = [r \in Relays |-> FALSE]
    /\ view = [r \in Relays |-> NoView]
    /\ batch = [r \in Relays |-> {}]
    /\ faults = 0 /\ exits = 0 /\ losses = 0 /\ drops = 0

Produce(e) == Publish(e) \/ Append(e) \/ Commit(e) \/ Abort(e)

(* What a replica does on its own. *)
Pump(r) ==
    \/ Acquire(r) \/ Tick(r) \/ LoadCursor(r) \/ Read(r)
    \/ PublishOk(r) \/ PublishFails(r) \/ SaveCursor(r)
    \/ SaveFailures(r) \/ DeadLetter(r) \/ SavePast(r)

Environment(r) == StoreFault(r) \/ SessionLost(r) \/ Stop(r) \/ Crash(r) \/ Start(r)

Next ==
    \/ \E e \in Events : Produce(e)
    \/ \E r \in Relays : Pump(r) \/ Environment(r)
    \/ \E t \in 1 .. clock : DropPartitionsBefore(t)

Spec == Init /\ [][Next]_vars

(* The ticker of a running replica fires and its calls return; an open      *)
(* transaction ends; a replica that is down is restarted.                   *)
FairSpec ==
    /\ Spec
    /\ \A r \in Relays : WF_vars(Pump(r)) /\ WF_vars(Start(r))
    /\ \A e \in Events : WF_vars(Append(e)) /\ WF_vars(Commit(e) \/ Abort(e))

-----------------------------------------------------------------------------
(* Properties. *)

Labels == {"down", "tick", "load", "read", "publish", "save", "saveFails",
           "deadLetter", "savePast"}

(* Types; and a replica that works on a batch has one, without duplicates   *)
(* of a position, so PumpOnce's range loop has a head to take.              *)
TypeOK ==
    /\ phase \in [Events -> {"none", "stamped", "appended", "committed", "aborted", "dropped"}]
    /\ stamp \in [Events -> Nat] /\ seq \in [Events -> Nat]
    /\ clock \in Nat /\ nextSeq \in Nat /\ seqLock \in Events \cup {NoEvent}
    /\ late \subseteq Events
    /\ cursor \in Cursors
    /\ dead \subseteq Events /\ published \subseteq Events
    /\ tries \in [Events -> 0 .. MaxAttempts]
    /\ holder \in Relays \cup {NoRelay}
    /\ pc \in [Relays -> Labels] /\ leading \in [Relays -> BOOLEAN]
    /\ view \in [Relays -> Cursors] /\ batch \in [Relays -> SUBSET Events]
    /\ {faults, exits, losses, drops} \subseteq Nat
    /\ \A r \in Relays :
          pc[r] \in {"publish", "save", "saveFails", "deadLetter", "savePast"} => batch[r] # {}

Resolved == published \cup dead

(* A scan orders the rows it sees, so an event whose transaction commits    *)
(* behind a later position may be missed (InCommitOrder below).             *)
InOrder == Visible \ late

(* The cursor never passes a committed event that was neither published nor *)
(* dead-lettered, as nothing ever goes back for it, across crashes, failed  *)
(* saves and two replicas that both believe they lead.                      *)
NoEventLost == \A e \in InOrder : ~Before(cursor.pos, PosOf(e)) => e \in Resolved

(* Head-of-line order: an event reaches the bus only when every committed   *)
(* event before it has been published or dead-lettered, also across         *)
(* crashes, failed saves and two replicas that both believe they lead.      *)
HeadOfLine ==
    \A e \in published : \A f \in InOrder : Before(PosOf(f), PosOf(e)) => f \in Resolved

(* An event is dead-lettered only after MaxAttempts failed publishes of     *)
(* that same event: the count in the sidecar is never another event's, as   *)
(* long as no late commit or retention changes the head (see OwnFailures).  *)
EarnedDeadLetter == late = {} /\ drops = 0 => \A e \in dead : tries[e] = MaxAttempts

(* An event whose transaction did not commit never leaves the outbox. *)
NoPhantom == Resolved \subseteq Stored

(* The committed events of a tenant are numbered without a gap or a repeat, *)
(* whatever commits and aborts.                                             *)
SeqGapFree ==
    Sequenced => /\ {seq[e] : e \in Stored} = 1 .. Cardinality(Stored)
                 /\ nextSeq = Cardinality(Stored)

(* One replica pumps, as long as no leader's session has broken. *)
SingleLeader == losses = 0 => Cardinality({r \in Relays : leading[r]}) <= 1

(* Every committed event is published or dead-lettered in the end, a        *)
(* poisoned one included, and blocks nothing for ever; unless it committed  *)
(* out of order, or retention has dropped it.                               *)
EventuallyResolved ==
    \A e \in Events : (e \in InOrder) ~> (e \in Resolved \/ phase[e] = "dropped")

-----------------------------------------------------------------------------
(* What the documentation says and the code does not do. *)

(* "the cursor never skips or repeats a row" (ReadAfter), whenever its      *)
(* transaction commits.                                                     *)
InCommitOrder == \A e \in Visible : ~Before(cursor.pos, PosOf(e)) => e \in Resolved

(* A dead letter is a row that failed MaxAttempts publishes itself. *)
OwnFailures == \A e \in dead : tries[e] = MaxAttempts

(* A tenant's events reach the bus in event_seq order. *)
SeqOrder ==
    \A e \in published : \A f \in Stored : seq[f] < seq[e] => f \in Resolved

(* Two replicas that lead at once do so briefly. *)
Overlap == Cardinality({r \in Relays : leading[r]}) > 1
OverlapIsBrief == Overlap ~> ~Overlap

(* Retention never drops an event the relay has not dealt with. *)
RetentionBehindCursor == \A e \in Stored : phase[e] = "dropped" => e \in Resolved
=============================================================================
