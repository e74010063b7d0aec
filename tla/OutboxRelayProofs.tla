------------------------- MODULE OutboxRelayProofs --------------------------
(***************************************************************************)
(* Proofs about OutboxRelay, for every finite set of events, every set of  *)
(* replicas, poisoned events, batch size, clock, leader kind and bounds;   *)
(* what is said of the leader, for PGAdvisoryLeader.                       *)
(***************************************************************************)
EXTENDS OutboxRelay, Integers, FiniteSetTheorems, WellFoundedInduction, TLAPS

Phases  == {"none", "stamped", "appended", "committed", "aborted", "dropped"}
Working == {"publish", "save", "saveFails", "deadLetter", "savePast"}

-----------------------------------------------------------------------------
(* The inductive invariant. *)

(* The position of a row, over given stamps. *)
Pos(st, e) == [time |-> st[e], id |-> e]

(* Every event of io, up to position p, is in res. *)
ClearIn(p, io, st, res) == \A f \in io : ~Before(p, Pos(st, f)) => f \in res

(* A cursor is the start of the stream or the position of a row. *)
KnownIn(p, so, st) == p = StartOfStream \/ \E x \in so : p = Pos(st, x)

(* e is the head of the batch es. *)
HeadIn(e, es, st) == e \in es /\ \A f \in es \ {e} : Before(Pos(st, e), Pos(st, f))

(* What lies before a row of es is in es, or in res. *)
LineIn(es, io, st, res) ==
    \A b \in es, f \in io : Before(Pos(st, f), Pos(st, b)) => f \in res

(* A position that has passed nothing. *)
AtOK(p, so, io, st, res) == KnownIn(p, so, st) /\ ClearIn(p, io, st, res)

(* A replica at label l with position p and batch es: its position has      *)
(* passed nothing, what lies before a row of its batch is in the batch or   *)
(* dealt with, and it moves past a head that is published, or dead-lettered. *)
ReplicaOK(l, p, es, so, io, st, pub, res) ==
    /\ AtOK(p, so, io, st, res)
    /\ es \subseteq so /\ LineIn(es, io, st, es \cup res)
    /\ \A h \in es : HeadIn(h, es, st) =>
          (l = "save" => h \in pub) /\ (l = "savePast" => h \in res)

CursorOK == AtOK(cursor.pos, Stored, InOrder, stamp, Resolved)

ReplicasOK ==
    \A r \in Relays :
        ReplicaOK(pc[r], view[r].pos, batch[r], Stored, InOrder, stamp, published, Resolved)

RelayInv == TypeOK /\ NoPhantom /\ CursorOK /\ ReplicasOK /\ HeadOfLine

(* No late commit and no retention has changed the head of a stream. *)
Calm == late = {} /\ drops = 0

(* h is the row of so that a scan from p begins with. *)
FirstAfter(p, h, so, st) ==
    /\ h \in so /\ Before(p, Pos(st, h))
    /\ \A f \in so \ {h} : Before(p, Pos(st, f)) => Before(Pos(st, h), Pos(st, f))

(* The n failures counted with position p are those of the row after it. *)
CountOK(p, n, so, st, tr) ==
    \/ n = 0
    \/ \E h \in so : FirstAfter(p, h, so, st) /\ (tr[h] >= n \/ tr[h] = MaxAttempts)

(* A batch es is what comes right after the replica's position p. *)
NextOK(l, p, n, es, so, st) ==
    /\ l \in Working =>
          \A f \in so : Before(p, Pos(st, f)) =>
              f \in es \/ \A b \in es : Before(Pos(st, b), Pos(st, f))
    /\ l \in Working \ {"save"} => \A b \in es : Before(p, Pos(st, b))
    /\ l = "save" => n = 0 /\ \A h \in es : HeadIn(h, es, st) => p = Pos(st, h)
    /\ l = "deadLetter" => n >= MaxAttempts

CountsOK ==
    Calm => /\ CountOK(cursor.pos, cursor.fails, Stored, stamp, tries)
            /\ \A r \in Relays :
                  /\ CountOK(view[r].pos, view[r].fails, Stored, stamp, tries)
                  /\ NextOK(pc[r], view[r].pos, view[r].fails, batch[r], Stored, stamp)

NoneDropped == drops = 0 => \A e \in Events : phase[e] # "dropped"

CountInv == RelayInv /\ NoneDropped /\ CountsOK /\ EarnedDeadLetter

(* One transaction at a time holds the allocator, and takes its next number. *)
SeqInv ==
    Sequenced =>
        /\ nextSeq = Cardinality(Stored)
        /\ {seq[e] : e \in Stored} = 1 .. nextSeq
        /\ \A e \in Events : phase[e] = "appended" <=> seqLock = e
        /\ seqLock # NoEvent => seq[seqLock] = nextSeq + 1

-----------------------------------------------------------------------------
(* Positions are totally ordered, and a batch has a head. *)

LEMMA Constants ==
    /\ \A e \in Events : e \in Nat /\ e > 0
    /\ MaxAttempts \in Nat /\ MaxAttempts > 0 /\ Limit \in Nat /\ Limit > 0
    /\ NoEvent \notin Events /\ NoRelay \notin Relays /\ IsFiniteSet(Events)
    /\ {MaxFaults, MaxExits, MaxLosses, MaxDrops} \subseteq Nat
BY OutboxAssumption

LEMMA NatMin ==
    ASSUME NEW T, T \subseteq Nat, T # {}
    PROVE  \E x \in T : \A y \in T : x <= y
<1> DEFINE R == {p \in Nat \X Nat : p[1] < p[2]}
<1>1. IsWellFoundedOn(R, Nat)
  BY NatLessThanWellFounded DEF OpToRel
<1>2. \A x, y \in T : ~(<<y, x>> \in R) => x <= y
  OBVIOUS
<1> HIDE DEF R
<1>3. \E x \in T : \A y \in T : ~(<<y, x>> \in R)
  BY <1>1, WFMin
<1> QED BY <1>2, <1>3

LEMMA PosType ==
    ASSUME NEW st \in [Events -> Nat], NEW e \in Events
    PROVE  Pos(st, e) \in Positions /\ Pos(st, e).time = st[e] /\ Pos(st, e).id = e
BY Constants DEF Pos, Positions

LEMMA BeforeOrder ==
    /\ \A p \in Positions : ~Before(p, p)
    /\ \A p, q \in Positions : ~(Before(p, q) /\ Before(q, p))
    /\ \A p, q, s \in Positions : Before(p, q) /\ Before(q, s) => Before(p, s)
BY DEF Before, Positions

LEMMA StartFirst ==
    ASSUME NEW st \in [Events -> Nat], NEW e \in Events
    PROVE  StartOfStream \in Positions /\ Before(StartOfStream, Pos(st, e))
<1>1. StartOfStream \in Positions /\ StartOfStream.time = 0 /\ StartOfStream.id = 0
  BY DEF StartOfStream, Positions
<1> QED BY <1>1, PosType, Constants DEF Before

LEMMA BeforeTotal ==
    ASSUME NEW st \in [Events -> Nat], NEW e \in Events, NEW f \in Events, e # f
    PROVE  Before(Pos(st, e), Pos(st, f)) \/ Before(Pos(st, f), Pos(st, e))
BY PosType, Constants DEF Before

LEMMA HeadExists ==
    ASSUME NEW st \in [Events -> Nat], NEW es \in SUBSET Events, es # {}
    PROVE  \E h \in es : HeadIn(h, es, st)
<1> DEFINE T == {st[e] : e \in es}
<1>1. PICK t \in T : \A y \in T : t <= y
  <2>1. T \subseteq Nat /\ T # {}
    OBVIOUS
  <2> HIDE DEF T
  <2> QED BY <2>1, NatMin
<1> DEFINE I == {e \in es : st[e] = t}
<1>2. PICK h \in I : \A y \in I : h <= y
  <2>1. I \subseteq Nat /\ I # {}
    BY <1>1, Constants
  <2> HIDE DEF I
  <2> QED BY <2>1, NatMin
<1>3. h \in es /\ h \in Events /\ st[h] = t
  BY <1>2
<1>4. ASSUME NEW f \in es \ {h} PROVE Before(Pos(st, h), Pos(st, f))
  <2>1. /\ t <= st[f] /\ (st[f] = t => h <= f) /\ h # f /\ h \in Nat /\ f \in Nat
        /\ st[f] \in Nat /\ st[h] \in Nat /\ f \in Events
    BY <1>1, <1>2, <1>3, Constants
  <2> QED BY <2>1, <1>3, PosType DEF Before
<1> QED BY <1>3, <1>4 DEF HeadIn

LEMMA OneHead ==
    ASSUME NEW st \in [Events -> Nat], NEW es \in SUBSET Events, NEW g, NEW h,
           HeadIn(g, es, st), HeadIn(h, es, st)
    PROVE  g = h
BY PosType, BeforeOrder DEF HeadIn

LEMMA OldestIsHead ==
    ASSUME stamp \in [Events -> Nat], NEW es \in SUBSET Events, es # {}
    PROVE  Oldest(es) \in es /\ Oldest(es) \in Events /\ HeadIn(Oldest(es), es, stamp)
<1>1. \E h \in es : \A f \in es \ {h} : Before(PosOf(h), PosOf(f))
  BY HeadExists DEF HeadIn, Pos, PosOf
<1>2. /\ Oldest(es) \in es
      /\ \A f \in es \ {Oldest(es)} : Before(PosOf(Oldest(es)), PosOf(f))
  BY <1>1 DEF Oldest
<1> HIDE DEF Oldest
<1> QED BY <1>2 DEF HeadIn, Pos, PosOf

-----------------------------------------------------------------------------
(* Types, in parts. *)

ProducerTypes ==
    /\ phase \in [Events -> Phases]
    /\ stamp \in [Events -> Nat] /\ seq \in [Events -> Nat]
    /\ clock \in Nat /\ nextSeq \in Nat /\ seqLock \in Events \cup {NoEvent}
    /\ late \subseteq Events

StoreTypes ==
    /\ cursor \in Cursors
    /\ dead \subseteq Events /\ published \subseteq Events
    /\ tries \in [Events -> 0 .. MaxAttempts]

ReplicaTypes ==
    /\ holder \in Relays \cup {NoRelay}
    /\ pc \in [Relays -> Labels] /\ leading \in [Relays -> BOOLEAN]
    /\ view \in [Relays -> Cursors] /\ batch \in [Relays -> SUBSET Events]

BatchTypes == \A r \in Relays : pc[r] \in Working => batch[r] # {}

BoundTypes == faults \in Nat /\ exits \in Nat /\ losses \in Nat /\ drops \in Nat

LEMMA TypeParts ==
    TypeOK <=> ProducerTypes /\ StoreTypes /\ ReplicaTypes /\ BatchTypes /\ BoundTypes
<1>1. BoundTypes <=> {faults, exits, losses, drops} \subseteq Nat
  BY DEF BoundTypes
<1> QED
  BY <1>1 DEF TypeOK, ProducerTypes, StoreTypes, ReplicaTypes, BatchTypes, Phases, Working

LEMMA TypePartsNext ==
    ASSUME ProducerTypes', StoreTypes', ReplicaTypes', BatchTypes', BoundTypes'
    PROVE  TypeOK'
BY TypeParts, PTL

LEMMA NoViewType == NoView \in Cursors /\ NoView.pos = StartOfStream /\ NoView.fails = 0
BY DEF NoView, Cursors, StartOfStream, Positions

LEMMA ViewFacts ==
    ASSUME TypeOK, NEW r \in Relays
    PROVE  /\ view[r] \in Cursors /\ view[r].pos \in Positions /\ view[r].fails \in Nat
           /\ batch[r] \in SUBSET Events /\ pc[r] \in Labels
           /\ (pc[r] \in Working => batch[r] # {})
<1>1. /\ view[r] \in Cursors /\ batch[r] \in SUBSET Events /\ pc[r] \in Labels
      /\ (pc[r] \in Working => batch[r] # {})
  BY TypeParts DEF ReplicaTypes, BatchTypes
<1> QED BY <1>1 DEF Cursors

LEMMA StampType == ASSUME TypeOK PROVE stamp \in [Events -> Nat]
BY TypeParts DEF ProducerTypes

(* The head of the batch that a replica is at. *)
LEMMA HeadFacts ==
    ASSUME TypeOK, NEW r \in Relays, pc[r] \in Working
    PROVE  /\ Oldest(batch[r]) \in batch[r] /\ Oldest(batch[r]) \in Events
           /\ HeadIn(Oldest(batch[r]), batch[r], stamp)
           /\ PosOf(Oldest(batch[r])) \in Positions
           /\ PosOf(Oldest(batch[r])) = Pos(stamp, Oldest(batch[r]))
<1>1. /\ Oldest(batch[r]) \in batch[r] /\ Oldest(batch[r]) \in Events
      /\ HeadIn(Oldest(batch[r]), batch[r], stamp)
  BY ViewFacts, StampType, OldestIsHead
<1> QED BY <1>1, StampType, PosType DEF PosOf, Pos

LEMMA CursorType ==
    ASSUME NEW p \in Positions, NEW n \in Nat
    PROVE  /\ [pos |-> p, fails |-> n] \in Cursors
           /\ [pos |-> p, fails |-> n].pos = p /\ [pos |-> p, fails |-> n].fails = n
BY DEF Cursors

-----------------------------------------------------------------------------
(* Every action preserves the types. *)

(* Replica r goes to l with cursor v and batch b. *)
Moved(r, l, v, b) ==
    /\ pc' = [pc EXCEPT ![r] = l]
    /\ view' = [view EXCEPT ![r] = v]
    /\ batch' = [batch EXCEPT ![r] = b]

LEMMA MovedAt ==
    ASSUME TypeOK, NEW r \in Relays, NEW l, NEW v, NEW b, Moved(r, l, v, b)
    PROVE  /\ pc'[r] = l /\ view'[r] = v /\ batch'[r] = b
           /\ \A q \in Relays \ {r} :
                 pc'[q] = pc[q] /\ view'[q] = view[q] /\ batch'[q] = batch[q]
<1> ReplicaTypes
  BY TypeParts
<1> QED BY DEF ReplicaTypes, Moved

LEMMA Stays ==
    ASSUME TypeOK, NEW r \in Relays
    PROVE  /\ pc = [pc EXCEPT ![r] = pc[r]] /\ view = [view EXCEPT ![r] = view[r]]
           /\ batch = [batch EXCEPT ![r] = batch[r]]
<1> ReplicaTypes
  BY TypeParts
<1> QED BY DEF ReplicaTypes

LEMMA MovedType ==
    ASSUME TypeOK, NEW r \in Relays, NEW l \in Labels, NEW v \in Cursors,
           NEW b \in SUBSET Events, Moved(r, l, v, b), l \in Working => b # {},
           holder' \in Relays \cup {NoRelay}, leading' \in [Relays -> BOOLEAN]
    PROVE  ReplicaTypes' /\ BatchTypes'
<1> ReplicaTypes /\ BatchTypes
  BY TypeParts
<1>1. ReplicaTypes'
  BY DEF ReplicaTypes, Moved
<1>2. BatchTypes'
  <2> SUFFICES ASSUME NEW q \in Relays, pc'[q] \in Working PROVE batch'[q] # {}
    BY DEF BatchTypes
  <2> QED BY MovedAt, ViewFacts
<1> QED BY <1>1, <1>2

LEMMA LeaveMoves ==
    ASSUME NEW r \in Relays, NEW l, Leave(r, l)
    PROVE  Moved(r, l, NoView, {})
BY DEF Leave, Goto, Moved

LEMMA GotoMoves ==
    ASSUME TypeOK, NEW r \in Relays, NEW l, Goto(r, l), UNCHANGED <<view, batch>>
    PROVE  Moved(r, l, view[r], batch[r])
BY Stays DEF Goto, Moved

(* The actions of a replica as moves. *)
LEMMA ReadMoves ==
    ASSUME TypeOK, NEW r \in Relays, Read(r)
    PROVE  \/ Moved(r, "tick", NoView, {})
           \/ /\ ReadAfter(view[r].pos) # {}
              /\ Moved(r, "publish", view[r], ReadAfter(view[r].pos))
<1>1. CASE ReadAfter(view[r].pos) = {}
  BY <1>1, LeaveMoves DEF Read
<1>2. CASE ReadAfter(view[r].pos) # {}
  <2>1. Moved(r, "publish", view[r], ReadAfter(view[r].pos))
    BY <1>2, Stays DEF Read, Goto, Moved
  <2> QED BY <1>2, <2>1
<1> QED BY <1>1, <1>2

LEMMA PublishOkMoves ==
    ASSUME TypeOK, NEW r \in Relays, PublishOk(r)
    PROVE  Moved(r, "save", [pos |-> PosOf(Oldest(batch[r])), fails |-> 0], batch[r])
BY Stays DEF PublishOk, Goto, Moved

LEMMA PublishFailsMoves ==
    ASSUME TypeOK, NEW r \in Relays, PublishFails(r)
    PROVE  \E l \in {"deadLetter", "saveFails"} :
             /\ l = "deadLetter" => view[r].fails + 1 >= MaxAttempts
             /\ Moved(r, l, [pos |-> view[r].pos, fails |-> view[r].fails + 1], batch[r])
<1> DEFINE n == view[r].fails + 1
           l == IF GivesUp(n) THEN "deadLetter" ELSE "saveFails"
<1>1. [view[r] EXCEPT !.fails = n] = [pos |-> view[r].pos, fails |-> n]
  BY ViewFacts DEF Cursors
<1>2. view' = [view EXCEPT ![r] = [view[r] EXCEPT !.fails = n]]
  BY DEF PublishFails
<1>3. view' = [view EXCEPT ![r] = [pos |-> view[r].pos, fails |-> n]]
  BY <1>1, <1>2
<1>4. pc' = [pc EXCEPT ![r] = l] /\ batch' = batch
  BY DEF PublishFails, Goto
<1>5. l \in {"deadLetter", "saveFails"} /\ (l = "deadLetter" => n >= MaxAttempts)
  BY DEF GivesUp
<1> HIDE DEF l
<1>6. Moved(r, l, [pos |-> view[r].pos, fails |-> n], batch[r])
  BY <1>3, <1>4, Stays DEF Moved
<1> QED BY <1>5, <1>6

LEMMA SaveCursorMoves ==
    ASSUME TypeOK, NEW r \in Relays, SaveCursor(r)
    PROVE  \/ Moved(r, "tick", NoView, {})
           \/ /\ batch[r] \ {Oldest(batch[r])} # {}
              /\ Moved(r, "publish", view[r], batch[r] \ {Oldest(batch[r])})
<1> DEFINE rest == batch[r] \ {Oldest(batch[r])}
<1>1. CASE rest = {}
  BY <1>1, LeaveMoves DEF SaveCursor
<1>2. CASE rest # {}
  <2>1. Moved(r, "publish", view[r], rest)
    BY <1>2, Stays DEF SaveCursor, Goto, Moved
  <2> QED BY <1>2, <2>1
<1> QED BY <1>1, <1>2

LEMMA ReadAfterType == ASSUME NEW p PROVE ReadAfter(p) \in SUBSET Events
BY DEF ReadAfter, Visible

LEMMA PumpType ==
    ASSUME TypeOK, NEW r \in Relays, Pump(r)
    PROVE  TypeOK'
<1> ProducerTypes /\ StoreTypes /\ ReplicaTypes /\ BatchTypes /\ BoundTypes
  BY TypeParts
<1>0. /\ "load" \in Labels /\ "read" \in Labels /\ "tick" \in Labels /\ "publish" \in Labels
      /\ "save" \in Labels /\ "saveFails" \in Labels /\ "deadLetter" \in Labels
      /\ "savePast" \in Labels /\ "load" \notin Working /\ "read" \notin Working
      /\ "tick" \notin Working /\ {} \in SUBSET Events
  BY DEF Labels, Working
<1>p. ASSUME UNCHANGED producer PROVE ProducerTypes'
  BY <1>p DEF producer, ProducerTypes
<1>s. ASSUME UNCHANGED <<sidecar, published, tries>> PROVE StoreTypes'
  BY <1>s DEF sidecar, StoreTypes
<1>b. ASSUME UNCHANGED bounds PROVE BoundTypes'
  BY <1>b DEF bounds, BoundTypes
<1>l. ASSUME UNCHANGED <<leading, holder>>
      PROVE  holder' \in Relays \cup {NoRelay} /\ leading' \in [Relays -> BOOLEAN]
  BY <1>l DEF ReplicaTypes
<1>1. ASSUME Acquire(r) \/ Tick(r) PROVE TypeOK'
  <2>1. /\ UNCHANGED <<producer, sidecar, published, tries, bounds>>
        /\ Moved(r, "load", view[r], batch[r])
    BY <1>1, GotoMoves DEF Acquire, Tick
  <2>2. holder' \in Relays \cup {NoRelay} /\ leading' \in [Relays -> BOOLEAN]
    BY <1>1 DEF Acquire, Tick, ReplicaTypes
  <2>3. ReplicaTypes' /\ BatchTypes'
    BY <1>0, <2>1, <2>2, ViewFacts, MovedType
  <2> QED BY <2>1, <2>3, <1>p, <1>s, <1>b, TypePartsNext
<1>2. ASSUME LoadCursor(r) PROVE TypeOK'
  <2>1. /\ UNCHANGED <<producer, sidecar, published, tries, bounds, leading, holder>>
        /\ Moved(r, "read", cursor, batch[r])
    BY <1>2, Stays DEF LoadCursor, Goto, Moved
  <2>2. cursor \in Cursors
    BY DEF StoreTypes
  <2>3. ReplicaTypes' /\ BatchTypes'
    BY <1>0, <1>l, <2>1, <2>2, ViewFacts, MovedType
  <2> QED BY <2>1, <2>3, <1>p, <1>s, <1>b, TypePartsNext
<1>3. ASSUME Read(r) PROVE TypeOK'
  <2>1. UNCHANGED <<producer, sidecar, published, tries, bounds, leading, holder>>
    BY <1>3 DEF Read
  <2>2. ReplicaTypes' /\ BatchTypes'
    BY <1>0, <1>3, <1>l, <2>1, ReadMoves, ReadAfterType, NoViewType, ViewFacts, MovedType
  <2> QED BY <2>1, <2>2, <1>p, <1>s, <1>b, TypePartsNext
<1>4. ASSUME PublishOk(r) PROVE TypeOK'
  <2>1. UNCHANGED <<producer, sidecar, tries, bounds, leading, holder>> /\ pc[r] \in Working
    BY <1>4 DEF PublishOk, Working
  <2>2. [pos |-> PosOf(Oldest(batch[r])), fails |-> 0] \in Cursors
    BY <2>1, HeadFacts, CursorType
  <2>3. ReplicaTypes' /\ BatchTypes'
    BY <1>0, <1>4, <1>l, <2>1, <2>2, PublishOkMoves, ViewFacts, MovedType
  <2>4. StoreTypes'
    BY <1>4, <2>1, HeadFacts DEF PublishOk, StoreTypes, sidecar
  <2> QED BY <2>1, <2>3, <2>4, <1>p, <1>b, TypePartsNext
<1>5. ASSUME PublishFails(r) PROVE TypeOK'
  <2>1. UNCHANGED <<producer, sidecar, leading, holder, exits, losses, drops>> /\ pc[r] \in Working
    BY <1>5 DEF PublishFails, Working
  <2>2. view[r].pos \in Positions /\ view[r].fails + 1 \in Nat
    BY ViewFacts
  <2>3. [pos |-> view[r].pos, fails |-> view[r].fails + 1] \in Cursors
    BY <2>2, CursorType
  <2>4. ReplicaTypes' /\ BatchTypes'
    BY <1>0, <1>5, <1>l, <2>1, <2>3, PublishFailsMoves, ViewFacts, MovedType
  <2>5. StoreTypes'
    <3> DEFINE e == Oldest(batch[r])
    <3>1. e \in Events
      BY <2>1, HeadFacts
    <3>2. /\ published' \in {published, published \cup {e}}
          /\ tries' = [tries EXCEPT ![e] = IF @ < MaxAttempts THEN @ + 1 ELSE @]
      BY <1>5 DEF PublishFails
    <3> HIDE DEF e
    <3>3. tries' \in [Events -> 0 .. MaxAttempts]
      BY <3>1, <3>2, Constants DEF StoreTypes
    <3> QED BY <2>1, <3>1, <3>2, <3>3 DEF StoreTypes, sidecar
  <2>6. BoundTypes'
    BY <1>5, <2>1 DEF PublishFails, BoundTypes
  <2> QED BY <2>1, <2>4, <2>5, <2>6, <1>p, TypePartsNext
<1>6. ASSUME SaveCursor(r) PROVE TypeOK'
  <2>1. /\ UNCHANGED <<producer, dead, published, tries, bounds, leading, holder>>
        /\ cursor' = view[r]
    BY <1>6 DEF SaveCursor
  <2>2. ReplicaTypes' /\ BatchTypes'
    <3>1. batch[r] \ {Oldest(batch[r])} \in SUBSET Events /\ view[r] \in Cursors
      BY ViewFacts
    <3>2. CASE Moved(r, "tick", NoView, {})
      BY <1>0, <1>l, <2>1, <3>2, NoViewType, MovedType
    <3>3. CASE /\ batch[r] \ {Oldest(batch[r])} # {}
               /\ Moved(r, "publish", view[r], batch[r] \ {Oldest(batch[r])})
      BY <1>0, <1>l, <2>1, <3>1, <3>3, MovedType
    <3> QED BY <1>6, <3>2, <3>3, SaveCursorMoves
  <2>3. StoreTypes'
    BY <2>1, ViewFacts DEF StoreTypes
  <2> QED BY <2>1, <2>2, <2>3, <1>p, <1>b, TypePartsNext
<1>7. ASSUME SaveFailures(r) \/ SavePast(r) PROVE TypeOK'
  <2>1. /\ UNCHANGED <<producer, dead, published, tries, bounds, leading, holder>>
        /\ Moved(r, "tick", NoView, {}) /\ pc[r] \in Working
    BY <1>7, LeaveMoves DEF SaveFailures, SavePast, Working
  <2>2. cursor' \in Cursors
    BY <1>7, <2>1, ViewFacts, HeadFacts, CursorType DEF SaveFailures, SavePast, AfterFailure
  <2>3. ReplicaTypes' /\ BatchTypes'
    BY <1>0, <1>l, <2>1, NoViewType, MovedType
  <2>4. StoreTypes'
    BY <2>1, <2>2 DEF StoreTypes
  <2> QED BY <2>1, <2>3, <2>4, <1>p, <1>b, TypePartsNext
<1>8. ASSUME DeadLetter(r) PROVE TypeOK'
  <2>1. /\ UNCHANGED <<producer, cursor, published, tries, bounds, leading, holder>>
        /\ Moved(r, "savePast", view[r], batch[r]) /\ pc[r] \in Working
        /\ dead' = dead \cup {Oldest(batch[r])}
    BY <1>8, GotoMoves DEF DeadLetter, Working
  <2>2. StoreTypes'
    BY <2>1, HeadFacts DEF StoreTypes
  <2>3. ReplicaTypes' /\ BatchTypes'
    BY <1>0, <1>l, <2>1, ViewFacts, MovedType
  <2> QED BY <2>1, <2>2, <2>3, <1>p, <1>b, TypePartsNext
<1> QED BY <1>1, <1>2, <1>3, <1>4, <1>5, <1>6, <1>7, <1>8 DEF Pump

LEMMA EnvironmentMoves ==
    ASSUME TypeOK, NEW r \in Relays, Environment(r)
    PROVE  /\ UNCHANGED <<producer, sidecar, published, tries, drops>>
           /\ \/ UNCHANGED <<pc, view, batch>>
              \/ \E l \in {"tick", "down"} : Moved(r, l, NoView, {})
              \/ Moved(r, "tick", view[r], batch[r])
<1>1. CASE StoreFault(r) \/ Stop(r) \/ Crash(r)
  BY <1>1, LeaveMoves DEF StoreFault, Stop, Crash
<1>2. CASE SessionLost(r)
  BY <1>2 DEF SessionLost, relay
<1>3. CASE Start(r)
  BY <1>3, GotoMoves DEF Start, bounds
<1> QED BY <1>1, <1>2, <1>3 DEF Environment

LEMMA EnvironmentType ==
    ASSUME TypeOK, NEW r \in Relays, Environment(r)
    PROVE  TypeOK'
<1> ProducerTypes /\ StoreTypes /\ ReplicaTypes /\ BatchTypes /\ BoundTypes
  BY TypeParts
<1>0. /\ "tick" \in Labels /\ "down" \in Labels /\ "tick" \notin Working
      /\ "down" \notin Working /\ {} \in SUBSET Events
  BY DEF Labels, Working
<1>1. holder' \in Relays \cup {NoRelay} /\ leading' \in [Relays -> BOOLEAN]
  BY DEF Environment, StoreFault, SessionLost, Stop, Crash, Start, Released, relay, ReplicaTypes
<1>2. BoundTypes'
  BY DEF Environment, StoreFault, SessionLost, Stop, Crash, Start, BoundTypes, bounds
<1>3. ReplicaTypes' /\ BatchTypes'
  <2>1. CASE UNCHANGED <<pc, view, batch>>
    BY <2>1, <1>1 DEF ReplicaTypes, BatchTypes
  <2>2. CASE \E l \in {"tick", "down"} : Moved(r, l, NoView, {})
    BY <2>2, <1>0, <1>1, NoViewType, MovedType
  <2>3. CASE Moved(r, "tick", view[r], batch[r])
    BY <2>3, <1>0, <1>1, ViewFacts, MovedType
  <2> QED BY <2>1, <2>2, <2>3, EnvironmentMoves
<1>4. ProducerTypes' /\ StoreTypes'
  BY EnvironmentMoves DEF ProducerTypes, StoreTypes, producer, sidecar
<1> QED BY <1>2, <1>3, <1>4, TypePartsNext

LEMMA ProduceType ==
    ASSUME TypeOK, \/ \E e \in Events : Produce(e)
                   \/ \E t \in 1 .. clock : DropPartitionsBefore(t)
    PROVE  TypeOK'
<1> ProducerTypes /\ StoreTypes /\ ReplicaTypes /\ BatchTypes /\ BoundTypes
  BY TypeParts
<1>1. ASSUME UNCHANGED <<relay, sidecar, published, tries, holder>>
      PROVE  StoreTypes' /\ ReplicaTypes' /\ BatchTypes'
  BY <1>1 DEF relay, sidecar, StoreTypes, ReplicaTypes, BatchTypes
<1>2. ASSUME NEW e \in Events, Produce(e) PROVE TypeOK'
  <2>1. UNCHANGED <<relay, sidecar, published, tries, holder, bounds>>
    BY <1>2 DEF Produce, Publish, Append, Commit, Abort
  <2>2. BoundTypes'
    BY <2>1 DEF bounds, BoundTypes
  <2>3. CASE Publish(e)
    <3>1. ProducerTypes'
      BY <2>3 DEF Publish, ProducerTypes, Phases
    <3> QED BY <2>1, <2>2, <3>1, <1>1, TypePartsNext
  <2>4. CASE Append(e)
    <3>1. ProducerTypes'
      BY <2>4 DEF Append, ProducerTypes, Phases
    <3> QED BY <2>1, <2>2, <3>1, <1>1, TypePartsNext
  <2>5. CASE Commit(e)
    <3>1. ProducerTypes'
      BY <2>5 DEF Commit, Unlock, ProducerTypes, Phases
    <3> QED BY <2>1, <2>2, <3>1, <1>1, TypePartsNext
  <2>6. CASE Abort(e)
    <3>1. ProducerTypes'
      BY <2>6 DEF Abort, Unlock, ProducerTypes, Phases
    <3> QED BY <2>1, <2>2, <3>1, <1>1, TypePartsNext
  <2> QED BY <1>2, <2>3, <2>4, <2>5, <2>6 DEF Produce
<1>3. ASSUME NEW t, DropPartitionsBefore(t) PROVE TypeOK'
  <2>1. UNCHANGED <<relay, sidecar, published, tries, holder>>
    BY <1>3 DEF DropPartitionsBefore
  <2>2. ProducerTypes'
    BY <1>3 DEF DropPartitionsBefore, ProducerTypes, Phases
  <2>3. BoundTypes'
    BY <1>3 DEF DropPartitionsBefore, BoundTypes
  <2> QED BY <2>1, <2>2, <2>3, <1>1, TypePartsNext
<1> QED BY <1>2, <1>3

LEMMA TypeInit == Init => TypeOK
<1> SUFFICES ASSUME Init PROVE TypeOK
  OBVIOUS
<1>1. ProducerTypes
  BY DEF Init, ProducerTypes, Phases
<1>2. StoreTypes
  BY NoViewType, Constants DEF Init, StoreTypes
<1>3. ReplicaTypes
  BY NoViewType DEF Init, ReplicaTypes, Labels
<1>4. BatchTypes
  BY DEF Init, BatchTypes, Working
<1>5. BoundTypes
  BY DEF Init, BoundTypes
<1> QED BY <1>1, <1>2, <1>3, <1>4, <1>5, TypeParts

LEMMA TypeNext ==
    ASSUME TypeOK, [Next]_vars
    PROVE  TypeOK'
<1>1. CASE UNCHANGED vars
  BY <1>1 DEF TypeOK, vars, producer, relay, sidecar, bounds
<1>2. CASE Next
  BY <1>2, PumpType, EnvironmentType, ProduceType DEF Next
<1> QED BY <1>1, <1>2

(* Every replica that is between the read of a batch and its last save has  *)
(* a row to work on (PumpOnce's loop never runs over its batch), and the    *)
(* stores, the allocator and the failure counts keep their types.           *)
THEOREM TypeCorrect == Spec => []TypeOK
<1>1. Init => TypeOK
  BY TypeInit
<1>2. TypeOK /\ [Next]_vars => TypeOK'
  BY TypeNext
<1> QED BY <1>1, <1>2, PTL DEF Spec

-----------------------------------------------------------------------------
(* What no step undoes: events stay stored, stamped and dealt with, and one *)
(* that newly counts as in order comes after all that is stored.            *)

Grows ==
    /\ Stored \subseteq Stored' /\ Stored' \subseteq Events
    /\ published \subseteq published' /\ Resolved \subseteq Resolved'
    /\ \A x \in Stored : stamp'[x] = stamp[x]
    /\ \A f \in InOrder' : f \in InOrder \/ \A x \in Stored : Before(Pos(stamp', x), Pos(stamp', f))

LEMMA SetFacts ==
    /\ InOrder \subseteq Visible /\ Visible \subseteq Stored /\ Stored \subseteq Events
    /\ published \subseteq Resolved /\ dead \subseteq Resolved
BY DEF InOrder, Visible, Stored, Resolved

LEMMA SetFactsNext ==
    /\ InOrder' \subseteq Visible' /\ Visible' \subseteq Stored' /\ Stored' \subseteq Events
    /\ published' \subseteq Resolved' /\ dead' \subseteq Resolved'
BY DEF InOrder, Visible, Stored, Resolved

LEMMA GrowsPos ==
    ASSUME Grows, NEW x \in Stored
    PROVE  Pos(stamp', x) = Pos(stamp, x)
BY DEF Grows, Pos

LEMMA StampTypeNext == ASSUME TypeOK' PROVE stamp' \in [Events -> Nat]
BY DEF TypeOK

LEMMA AtKept ==
    ASSUME TypeOK, TypeOK', Grows, NEW p, AtOK(p, Stored, InOrder, stamp, Resolved)
    PROVE  AtOK(p, Stored', InOrder', stamp', Resolved')
<1>1. KnownIn(p, Stored', stamp')
  BY GrowsPos DEF AtOK, KnownIn, Grows
<1>2. ASSUME NEW f \in InOrder', ~Before(p, Pos(stamp', f)) PROVE f \in Resolved'
  <2>0. f \in Events
    BY SetFactsNext
  <2>1. CASE f \in InOrder
    BY <1>2, <2>1, GrowsPos, SetFacts DEF AtOK, ClearIn, Grows
  <2>2. CASE \A x \in Stored : Before(Pos(stamp', x), Pos(stamp', f))
    <3>1. p # StartOfStream
      BY <1>2, <2>0, StampTypeNext, StartFirst
    <3>2. PICK x \in Stored : p = Pos(stamp, x)
      BY <3>1 DEF AtOK, KnownIn
    <3> QED BY <1>2, <2>2, <3>2, GrowsPos
  <2> QED BY <2>1, <2>2 DEF Grows
<1> QED BY <1>1, <1>2 DEF AtOK, ClearIn

LEMMA LineKept ==
    ASSUME TypeOK, TypeOK', Grows, NEW es \in SUBSET Stored, NEW res, NEW more, res \subseteq more,
           LineIn(es, InOrder, stamp, res)
    PROVE  LineIn(es, InOrder', stamp', more)
<1> SUFFICES ASSUME NEW b \in es, NEW f \in InOrder', Before(Pos(stamp', f), Pos(stamp', b))
             PROVE  f \in more
  BY DEF LineIn
<1>0. b \in Stored /\ b \in Events /\ f \in Events /\ Pos(stamp', b) = Pos(stamp, b)
  BY SetFacts, SetFactsNext, GrowsPos
<1>1. CASE f \in InOrder
  BY <1>0, <1>1, SetFacts, GrowsPos DEF LineIn
<1>2. CASE \A x \in Stored : Before(Pos(stamp', x), Pos(stamp', f))
  <2>1. Pos(stamp', b) \in Positions /\ Pos(stamp', f) \in Positions
    BY <1>0, StampTypeNext, PosType
  <2> QED BY <1>0, <1>2, <2>1, BeforeOrder
<1> QED BY <1>1, <1>2 DEF Grows

LEMMA ReplicaKept ==
    ASSUME TypeOK, TypeOK', Grows, NEW l, NEW p, NEW es,
           ReplicaOK(l, p, es, Stored, InOrder, stamp, published, Resolved)
    PROVE  ReplicaOK(l, p, es, Stored', InOrder', stamp', published', Resolved')
<1>1. AtOK(p, Stored', InOrder', stamp', Resolved')
  BY AtKept DEF ReplicaOK
<1>2. es \subseteq Stored /\ es \subseteq Stored'
  BY DEF ReplicaOK, Grows
<1>3. LineIn(es, InOrder', stamp', es \cup Resolved')
  <2>1. es \cup Resolved \subseteq es \cup Resolved'
    BY DEF Grows
  <2> QED BY <1>2, <2>1, LineKept DEF ReplicaOK
<1>4. ASSUME NEW h \in es, HeadIn(h, es, stamp')
      PROVE  (l = "save" => h \in published') /\ (l = "savePast" => h \in Resolved')
  <2>1. HeadIn(h, es, stamp)
    BY <1>2, <1>4, GrowsPos DEF HeadIn
  <2> QED BY <2>1 DEF ReplicaOK, Grows
<1> QED BY <1>1, <1>2, <1>3, <1>4 DEF ReplicaOK

LEMMA LineKeptPublished ==
    ASSUME RelayInv, TypeOK', Grows
    PROVE  LineIn(published, InOrder', stamp', Resolved')
<1>1. LineIn(published, InOrder, stamp, Resolved)
  BY DEF RelayInv, HeadOfLine, LineIn, Pos, PosOf
<1>2. published \in SUBSET Stored
  BY SetFacts DEF RelayInv, NoPhantom
<1> QED BY <1>1, <1>2, LineKept DEF RelayInv, Grows

LEMMA LineIsHeadOfLine ==
    ASSUME LineIn(published', InOrder', stamp', Resolved') PROVE HeadOfLine'
BY DEF HeadOfLine, LineIn, Pos, PosOf

LEMMA ReplicaNow ==
    ASSUME RelayInv, NEW r \in Relays
    PROVE  ReplicaOK(pc[r], view[r].pos, batch[r], Stored, InOrder, stamp, published, Resolved)
BY DEF RelayInv, ReplicasOK

(* A step that moves replica r, and leaves the others where they are. *)
LEMMA StepKeeps ==
    ASSUME RelayInv, TypeOK', Grows, NEW r \in Relays, NEW l, NEW v, NEW b, Moved(r, l, v, b),
           ReplicaOK(l, v.pos, b, Stored', InOrder', stamp', published', Resolved'),
           AtOK(cursor'.pos, Stored', InOrder', stamp', Resolved'),
           LineIn(published', InOrder', stamp', Resolved'), Resolved' \subseteq Stored'
    PROVE  RelayInv'
<1>0. TypeOK
  BY DEF RelayInv
<1>1. ReplicasOK'
  <2> SUFFICES ASSUME NEW q \in Relays
               PROVE  ReplicaOK(pc'[q], view'[q].pos, batch'[q],
                                Stored', InOrder', stamp', published', Resolved')
    BY DEF ReplicasOK
  <2>1. CASE q = r
    BY <1>0, <2>1, MovedAt
  <2>2. CASE q # r
    <3>1. pc'[q] = pc[q] /\ view'[q] = view[q] /\ batch'[q] = batch[q]
      BY <1>0, <2>2, MovedAt
    <3>2. ReplicaOK(pc[q], view[q].pos, batch[q], Stored', InOrder', stamp', published', Resolved')
      BY <1>0, ReplicaNow, ReplicaKept
    <3> QED BY <3>1, <3>2
  <2> QED BY <2>1, <2>2
<1>2. CursorOK'
  BY DEF CursorOK
<1>3. HeadOfLine'
  BY LineIsHeadOfLine
<1>4. NoPhantom'
  BY DEF NoPhantom
<1> QED BY <1>1, <1>2, <1>3, <1>4 DEF RelayInv

(* A step that moves no replica. *)
LEMMA QuietKeeps ==
    ASSUME RelayInv, TypeOK', Grows, UNCHANGED <<pc, view, batch, cursor, published, dead>>
    PROVE  RelayInv'
<1>0. TypeOK /\ Resolved' = Resolved
  BY DEF RelayInv, Resolved
<1>1. ReplicasOK'
  <2> SUFFICES ASSUME NEW q \in Relays
               PROVE  ReplicaOK(pc'[q], view'[q].pos, batch'[q],
                                Stored', InOrder', stamp', published', Resolved')
    BY DEF ReplicasOK
  <2>1. ReplicaOK(pc[q], view[q].pos, batch[q], Stored', InOrder', stamp', published', Resolved')
    BY <1>0, ReplicaNow, ReplicaKept
  <2> QED BY <2>1
<1>2. CursorOK'
  <2>1. AtOK(cursor.pos, Stored', InOrder', stamp', Resolved')
    BY <1>0, AtKept DEF RelayInv, CursorOK
  <2> QED BY <2>1 DEF CursorOK
<1>3. HeadOfLine'
  BY LineKeptPublished, LineIsHeadOfLine
<1>4. NoPhantom'
  BY <1>0 DEF RelayInv, NoPhantom, Grows
<1> QED BY <1>1, <1>2, <1>3, <1>4 DEF RelayInv

-----------------------------------------------------------------------------
(* The head of a batch, and what a read returns. *)

LEMMA LineOfHead ==
    ASSUME NEW st \in [Events -> Nat], NEW io \in SUBSET Events, NEW es \in SUBSET Events,
           NEW res, NEW h, HeadIn(h, es, st), LineIn(es, io, st, es \cup res)
    PROVE  /\ \A f \in io : Before(Pos(st, f), Pos(st, h)) => f \in res
           /\ ClearIn(Pos(st, h), io, st, res \cup {h})
           /\ LineIn({h}, io, st, res)
<1>0. h \in es /\ h \in Events
  BY DEF HeadIn
<1>1. ASSUME NEW f \in io, Before(Pos(st, f), Pos(st, h)) PROVE f \in res
  <2>1. f \in es \cup res
    BY <1>0, <1>1 DEF LineIn
  <2>2. f \notin es
    <3>1. Pos(st, f) \in Positions /\ Pos(st, h) \in Positions
      BY <1>0, PosType
    <3>2. f # h
      BY <1>1, <3>1, BeforeOrder
    <3> QED BY <1>1, <3>1, <3>2, BeforeOrder DEF HeadIn
  <2> QED BY <2>1, <2>2
<1>2. ASSUME NEW f \in io, ~Before(Pos(st, h), Pos(st, f)) PROVE f \in res \cup {h}
  BY <1>0, <1>1, <1>2, BeforeTotal
<1> QED BY <1>1, <1>2 DEF ClearIn, LineIn

(* A read returns a prefix: a row before a returned one is returned too. *)
LEMMA ReadPrefix ==
    ASSUME TypeOK, NEW p \in Positions, NEW b \in ReadAfter(p), NEW f \in Visible,
           Before(p, PosOf(f)), Before(PosOf(f), PosOf(b))
    PROVE  f \in ReadAfter(p)
<1> DEFINE after == {e \in Visible : Before(p, PosOf(e))}
           ahead(x) == {g \in after : Before(PosOf(g), PosOf(x))}
<1>0. \A x \in Visible : PosOf(x) \in Positions
  BY StampType, PosType, SetFacts DEF PosOf, Pos
<1>1. ahead(f) \subseteq ahead(b)
  <2>1. b \in Visible
    BY DEF ReadAfter
  <2> QED BY <1>0, <2>1, BeforeOrder
<1>2. IsFiniteSet(ahead(b))
  BY Constants, FS_Subset, SetFacts
<1>3. Cardinality(ahead(b)) < Limit
  BY DEF ReadAfter
<1>4. /\ Cardinality(ahead(f)) <= Cardinality(ahead(b))
      /\ Cardinality(ahead(f)) \in Nat /\ Cardinality(ahead(b)) \in Nat
  <2> HIDE DEF ahead
  <2> QED BY <1>1, <1>2, FS_Subset, FS_CardinalityType
<1>5. Cardinality(ahead(f)) < Limit
  <2> HIDE DEF ahead
  <2> QED BY <1>3, <1>4, Constants
<1> QED BY <1>5 DEF ReadAfter

LEMMA ReadRows ==
    ASSUME NEW p, NEW b \in ReadAfter(p)
    PROVE  b \in Visible /\ b \in Stored /\ Before(p, PosOf(b))
BY DEF ReadAfter, Visible, Stored

-----------------------------------------------------------------------------
(* Every step keeps RelayInv. *)

LEMMA ProducersGrow ==
    ASSUME TypeOK, TypeOK', UNCHANGED <<published, dead>>, Stored \subseteq Stored',
           \A x \in Stored : stamp'[x] = stamp[x],
           \A f \in InOrder' : f \in InOrder \/ \A x \in Stored : Before(Pos(stamp', x), Pos(stamp', f))
    PROVE  Grows
BY SetFactsNext DEF Grows, Resolved

LEMMA ProduceGrows ==
    ASSUME TypeOK, TypeOK', NEW e \in Events, Produce(e)
    PROVE  Grows
<1> ProducerTypes
  BY TypeParts
<1>0. UNCHANGED <<published, dead>>
  BY DEF Produce, Publish, Append, Commit, Abort, sidecar
<1>1. CASE Publish(e)
  <2>1. phase[e] = "none" /\ phase' = [phase EXCEPT ![e] = "stamped"] /\ late' = late
    BY <1>1 DEF Publish
  <2>2. \A x \in Stored : stamp'[x] = stamp[x]
    BY <1>1, <2>1 DEF Publish, ProducerTypes, Stored
  <2>3. Stored \subseteq Stored' /\ InOrder' \subseteq InOrder
    BY <2>1 DEF ProducerTypes, Stored, InOrder, Visible
  <2> QED BY <1>0, <2>2, <2>3, ProducersGrow
<1>2. CASE Append(e) \/ Abort(e)
  <2>1. /\ phase[e] \in {"stamped", "appended"}
        /\ \E ph \in {"appended", "aborted"} : phase' = [phase EXCEPT ![e] = ph]
        /\ late' = late /\ stamp' = stamp
    BY <1>2 DEF Append, Abort, Open
  <2>2. Stored \subseteq Stored' /\ InOrder' \subseteq InOrder
    BY <2>1 DEF ProducerTypes, Stored, InOrder, Visible
  <2> QED BY <1>0, <2>1, <2>2, ProducersGrow
<1>3. CASE Commit(e)
  <2>1. /\ phase[e] = "appended" /\ phase' = [phase EXCEPT ![e] = "committed"] /\ stamp' = stamp
        /\ late' = IF \E f \in Stored : Before(PosOf(e), PosOf(f)) THEN late \cup {e} ELSE late
    BY <1>3 DEF Commit
  <2>2. Stored \subseteq Stored' /\ e \notin Stored
    BY <2>1 DEF ProducerTypes, Stored
  <2>3. ASSUME NEW f \in InOrder', f \notin InOrder, NEW x \in Stored
        PROVE  Before(Pos(stamp', x), Pos(stamp', f))
    <3>1. f = e /\ e \notin late'
      BY <2>1, <2>3 DEF ProducerTypes, InOrder, Visible
    <3>2. ~Before(PosOf(e), PosOf(x))
      BY <2>1, <3>1
    <3>3. x \in Events /\ x # e
      BY <2>2, SetFacts
    <3> QED BY <2>1, <3>1, <3>2, <3>3, BeforeTotal DEF ProducerTypes, Pos, PosOf
  <2> QED BY <1>0, <2>1, <2>2, <2>3, ProducersGrow
<1> QED BY <1>1, <1>2, <1>3 DEF Produce

LEMMA DropGrows ==
    ASSUME TypeOK, TypeOK', NEW t, DropPartitionsBefore(t)
    PROVE  Grows
<1> ProducerTypes
  BY TypeParts
<1>1. /\ UNCHANGED <<published, dead, stamp, late>>
      /\ phase' = [e \in Events |-> IF e \in Visible /\ stamp[e] < t THEN "dropped" ELSE phase[e]]
  BY DEF DropPartitionsBefore, sidecar
<1>2. Stored \subseteq Stored' /\ InOrder' \subseteq InOrder
  BY <1>1 DEF ProducerTypes, Stored, InOrder, Visible
<1> QED BY <1>1, <1>2, ProducersGrow

LEMMA RelayGrows ==
    ASSUME TypeOK, UNCHANGED <<phase, stamp, late>>, published \subseteq published', dead \subseteq dead'
    PROVE  /\ Grows /\ Stored' = Stored /\ InOrder' = InOrder /\ stamp' = stamp
           /\ Resolved' = published' \cup dead'
<1>1. Visible' = Visible /\ Stored' = Stored
  BY DEF Visible, Stored
<1>2. InOrder' = InOrder
  BY <1>1 DEF InOrder
<1>3. Resolved' = published' \cup dead' /\ Resolved \subseteq Resolved'
  BY DEF Resolved
<1> QED BY <1>1, <1>2, <1>3, SetFacts DEF Grows

LEMMA StartOK ==
    ASSUME NEW st \in [Events -> Nat], NEW io \in SUBSET Events, NEW so, NEW res
    PROVE  AtOK(StartOfStream, so, io, st, res)
BY StartFirst DEF AtOK, KnownIn, ClearIn

(* A replica without a batch, at the start of the stream. *)
LEMMA IdleOK ==
    ASSUME TypeOK', NEW l
    PROVE  ReplicaOK(l, NoView.pos, {}, Stored', InOrder', stamp', published', Resolved')
<1>1. InOrder' \in SUBSET Events
  BY SetFactsNext
<1>2. AtOK(StartOfStream, Stored', InOrder', stamp', Resolved')
  BY <1>1, StampTypeNext, StartOK
<1> QED BY <1>2, NoViewType DEF ReplicaOK, LineIn

LEMMA CursorKept ==
    ASSUME RelayInv, TypeOK', Grows
    PROVE  AtOK(cursor.pos, Stored', InOrder', stamp', Resolved')
BY AtKept DEF RelayInv, CursorOK

(* Where a replica's head stands. *)
LEMMA HeadStands ==
    ASSUME RelayInv, NEW r \in Relays, pc[r] \in Working
    PROVE  LET h == Oldest(batch[r])
           IN  /\ h \in batch[r] /\ h \in Stored /\ HeadIn(h, batch[r], stamp)
               /\ KnownIn(Pos(stamp, h), Stored, stamp)
               /\ ClearIn(Pos(stamp, h), InOrder, stamp, Resolved \cup {h})
               /\ LineIn({h}, InOrder, stamp, Resolved)
               /\ PosOf(h) = Pos(stamp, h)
<1> DEFINE h == Oldest(batch[r])
<1>0. TypeOK
  BY DEF RelayInv
<1>1. h \in batch[r] /\ HeadIn(h, batch[r], stamp) /\ PosOf(h) = Pos(stamp, h)
  BY <1>0, HeadFacts
<1>2. batch[r] \subseteq Stored /\ LineIn(batch[r], InOrder, stamp, batch[r] \cup Resolved)
  BY ReplicaNow DEF ReplicaOK
<1>3. InOrder \in SUBSET Events /\ batch[r] \in SUBSET Events
  BY <1>2, SetFacts
<1> HIDE DEF h
<1>4. ClearIn(Pos(stamp, h), InOrder, stamp, Resolved \cup {h}) /\ LineIn({h}, InOrder, stamp, Resolved)
  BY <1>0, <1>1, <1>2, <1>3, StampType, LineOfHead
<1>5. KnownIn(Pos(stamp, h), Stored, stamp)
  BY <1>1, <1>2 DEF KnownIn
<1> QED BY <1>1, <1>2, <1>4, <1>5 DEF h

(* Moves that publish and dead-letter nothing, and leave the cursor alone. *)
LEMMA MoveKeeps ==
    ASSUME RelayInv, TypeOK', UNCHANGED <<phase, stamp, late, published, dead>>,
           NEW r \in Relays, NEW l, NEW v, NEW b, Moved(r, l, v, b),
           ReplicaOK(l, v.pos, b, Stored, InOrder, stamp, published, Resolved),
           AtOK(cursor'.pos, Stored, InOrder, stamp, Resolved)
    PROVE  RelayInv'
<1>0. TypeOK
  BY DEF RelayInv
<1>1. Grows /\ Stored' = Stored /\ InOrder' = InOrder /\ stamp' = stamp /\ published' = published
  BY <1>0, RelayGrows
<1>2. Resolved' = Resolved
  BY DEF Resolved
<1>3. LineIn(published', InOrder', stamp', Resolved')
  BY <1>1, LineKeptPublished
<1>4. Resolved' \subseteq Stored'
  BY <1>1, <1>2 DEF RelayInv, NoPhantom
<1> QED BY <1>1, <1>2, <1>3, <1>4, StepKeeps

LEMMA IdleNow ==
    ASSUME TypeOK, NEW l
    PROVE  ReplicaOK(l, NoView.pos, {}, Stored, InOrder, stamp, published, Resolved)
<1>1. InOrder \in SUBSET Events
  BY SetFacts
<1>2. AtOK(StartOfStream, Stored, InOrder, stamp, Resolved)
  BY <1>1, StampType, StartOK
<1> QED BY <1>2, NoViewType DEF ReplicaOK, LineIn

LEMMA CursorNow ==
    ASSUME RelayInv PROVE AtOK(cursor.pos, Stored, InOrder, stamp, Resolved)
BY DEF RelayInv, CursorOK

(* Outside save and savePast nothing is asked of the head. *)
LEMMA Relabelled ==
    ASSUME RelayInv, NEW r \in Relays, NEW l, l \notin {"save", "savePast"}
    PROVE  ReplicaOK(l, view[r].pos, batch[r], Stored, InOrder, stamp, published, Resolved)
BY ReplicaNow DEF ReplicaOK

LEMMA ReadOK ==
    ASSUME RelayInv, NEW r \in Relays
    PROVE  ReplicaOK("publish", view[r].pos, ReadAfter(view[r].pos),
                     Stored, InOrder, stamp, published, Resolved)
<1> DEFINE p == view[r].pos
           rows == ReadAfter(p)
<1>0. TypeOK /\ p \in Positions
  BY ViewFacts DEF RelayInv
<1>1. AtOK(p, Stored, InOrder, stamp, Resolved)
  BY ReplicaNow DEF ReplicaOK
<1>2. rows \subseteq Stored
  BY ReadRows
<1>3. LineIn(rows, InOrder, stamp, rows \cup Resolved)
  <2> SUFFICES ASSUME NEW b \in rows, NEW f \in InOrder, Before(Pos(stamp, f), Pos(stamp, b))
               PROVE  f \in rows \cup Resolved
    BY DEF LineIn
  <2>1. CASE ~Before(p, Pos(stamp, f))
    BY <1>1, <2>1 DEF AtOK, ClearIn
  <2>2. CASE Before(p, Pos(stamp, f))
    BY <1>0, <2>2, ReadPrefix, SetFacts DEF Pos, PosOf
  <2> QED BY <2>1, <2>2
<1> QED BY <1>1, <1>2, <1>3 DEF ReplicaOK

LEMMA PublishedOK ==
    ASSUME RelayInv, TypeOK', NEW r \in Relays, PublishOk(r)
    PROVE  RelayInv'
<1> DEFINE h == Oldest(batch[r])
           v == [pos |-> PosOf(h), fails |-> 0]
<1>0. TypeOK /\ pc[r] \in Working /\ batch[r] \in SUBSET Events
  BY ViewFacts DEF RelayInv, PublishOk, Working
<1>1. /\ UNCHANGED <<phase, stamp, late, dead, cursor>> /\ published' = published \cup {h}
  BY DEF PublishOk, producer, sidecar
<1>2. /\ Grows /\ Stored' = Stored /\ InOrder' = InOrder /\ stamp' = stamp
      /\ Resolved' = published' \cup dead'
  BY <1>0, <1>1, RelayGrows
<1>3. Resolved' = Resolved \cup {h}
  BY <1>1, <1>2 DEF Resolved
<1>4. Moved(r, "save", v, batch[r])
  BY <1>0, PublishOkMoves
<1>5. v.pos = Pos(stamp, h)
  BY <1>0, HeadFacts
<1>h. /\ h \in batch[r] /\ h \in Stored /\ HeadIn(h, batch[r], stamp)
      /\ KnownIn(Pos(stamp, h), Stored, stamp)
      /\ ClearIn(Pos(stamp, h), InOrder, stamp, Resolved \cup {h})
      /\ LineIn({h}, InOrder, stamp, Resolved)
  BY <1>0, HeadStands
<1> HIDE DEF h, v
<1>6. ReplicaOK("save", v.pos, batch[r], Stored', InOrder', stamp', published', Resolved')
  <2>1. AtOK(v.pos, Stored, InOrder, stamp, Resolved')
    BY <1>3, <1>5, <1>h DEF AtOK
  <2>2. batch[r] \subseteq Stored /\ LineIn(batch[r], InOrder, stamp, batch[r] \cup Resolved')
    BY <1>3, ReplicaNow DEF ReplicaOK, LineIn
  <2>3. \A g \in batch[r] : HeadIn(g, batch[r], stamp) => g = h
    BY <1>0, <1>h, StampType, OneHead
  <2> QED BY <1>1, <1>2, <2>1, <2>2, <2>3 DEF ReplicaOK
<1>7. AtOK(cursor'.pos, Stored', InOrder', stamp', Resolved')
  BY <1>1, <1>2, CursorKept
<1>8. LineIn(published', InOrder', stamp', Resolved')
  <2>1. LineIn(published, InOrder', stamp', Resolved')
    BY <1>2, LineKeptPublished
  <2>2. LineIn({h}, InOrder', stamp', Resolved')
    BY <1>2, <1>3, <1>h DEF LineIn
  <2> QED BY <1>1, <2>1, <2>2 DEF LineIn
<1>9. Resolved' \subseteq Stored'
  BY <1>2, <1>3, <1>h DEF RelayInv, NoPhantom
<1> QED BY <1>2, <1>4, <1>6, <1>7, <1>8, <1>9, StepKeeps

(* A publish that fails may have reached the bus. *)
LEMMA PublishFailedOK ==
    ASSUME RelayInv, TypeOK', NEW r \in Relays, PublishFails(r)
    PROVE  RelayInv'
<1> DEFINE h == Oldest(batch[r])
<1>0. TypeOK /\ pc[r] \in Working /\ batch[r] \in SUBSET Events
  BY ViewFacts DEF RelayInv, PublishFails, Working
<1>1. /\ UNCHANGED <<phase, stamp, late, dead, cursor>>
      /\ published' = published \/ published' = published \cup {h}
  BY DEF PublishFails, producer, sidecar
<1>2. /\ Grows /\ Stored' = Stored /\ InOrder' = InOrder /\ stamp' = stamp
      /\ Resolved' = published' \cup dead'
  BY <1>0, <1>1, RelayGrows
<1>3. Resolved' = Resolved \/ Resolved' = Resolved \cup {h}
  BY <1>1, <1>2 DEF Resolved
<1>4. PICK l \in {"deadLetter", "saveFails"} :
          Moved(r, l, [pos |-> view[r].pos, fails |-> view[r].fails + 1], batch[r])
  BY <1>0, PublishFailsMoves
<1>h. h \in Stored /\ LineIn({h}, InOrder, stamp, Resolved)
  BY <1>0, HeadStands
<1> HIDE DEF h
<1> DEFINE v == [pos |-> view[r].pos, fails |-> view[r].fails + 1]
<1>5. v.pos = view[r].pos
  OBVIOUS
<1> HIDE DEF v
<1>6. ReplicaOK(l, v.pos, batch[r], Stored', InOrder', stamp', published', Resolved')
  BY <1>0, <1>2, <1>5, Relabelled, ReplicaKept
<1>7. AtOK(cursor'.pos, Stored', InOrder', stamp', Resolved')
  BY <1>1, <1>2, CursorKept
<1>8. LineIn(published', InOrder', stamp', Resolved')
  <2>1. LineIn(published, InOrder', stamp', Resolved')
    BY <1>2, LineKeptPublished
  <2>2. LineIn({h}, InOrder', stamp', Resolved')
    BY <1>2, <1>3, <1>h DEF LineIn
  <2> QED BY <1>1, <2>1, <2>2 DEF LineIn
<1>9. Resolved' \subseteq Stored'
  BY <1>2, <1>3, <1>h DEF RelayInv, NoPhantom
<1>10. Moved(r, l, v, batch[r])
  BY <1>4 DEF v
<1> QED BY <1>2, <1>6, <1>7, <1>8, <1>9, <1>10, StepKeeps

LEMMA DeadLetterOK ==
    ASSUME RelayInv, TypeOK', NEW r \in Relays, DeadLetter(r)
    PROVE  RelayInv'
<1> DEFINE h == Oldest(batch[r])
<1>0. TypeOK /\ pc[r] \in Working /\ batch[r] \in SUBSET Events
  BY ViewFacts DEF RelayInv, DeadLetter, Working
<1>1. UNCHANGED <<phase, stamp, late, published, cursor>> /\ dead' = dead \cup {h}
  BY DEF DeadLetter, producer
<1>2. /\ Grows /\ Stored' = Stored /\ InOrder' = InOrder /\ stamp' = stamp
      /\ Resolved' = published' \cup dead'
  BY <1>0, <1>1, RelayGrows
<1>3. Resolved' = Resolved \cup {h}
  BY <1>1, <1>2 DEF Resolved
<1>4. Moved(r, "savePast", view[r], batch[r])
  BY <1>0, GotoMoves DEF DeadLetter
<1>h. h \in Stored /\ HeadIn(h, batch[r], stamp)
  BY <1>0, HeadStands
<1> HIDE DEF h
<1>5. ReplicaOK("savePast", view[r].pos, batch[r], Stored', InOrder', stamp', published', Resolved')
  <2>1. ReplicaOK("load", view[r].pos, batch[r], Stored', InOrder', stamp', published', Resolved')
    BY <1>0, <1>2, Relabelled, ReplicaKept
  <2>2. \A g \in batch[r] : HeadIn(g, batch[r], stamp') => g \in Resolved'
    BY <1>0, <1>2, <1>3, <1>h, StampType, OneHead
  <2> QED BY <2>1, <2>2 DEF ReplicaOK
<1>6. AtOK(cursor'.pos, Stored', InOrder', stamp', Resolved')
  BY <1>1, <1>2, CursorKept
<1>7. LineIn(published', InOrder', stamp', Resolved')
  BY <1>1, <1>2, LineKeptPublished
<1>8. Resolved' \subseteq Stored'
  BY <1>2, <1>3, <1>h DEF RelayInv, NoPhantom
<1> QED BY <1>2, <1>4, <1>5, <1>6, <1>7, <1>8, StepKeeps

LEMMA SaveCursorOK ==
    ASSUME RelayInv, TypeOK', NEW r \in Relays, SaveCursor(r)
    PROVE  RelayInv'
<1> DEFINE h == Oldest(batch[r])
           rest == batch[r] \ {h}
<1>0. TypeOK /\ pc[r] = "save" /\ pc[r] \in Working
  BY DEF RelayInv, SaveCursor, Working
<1>1. UNCHANGED <<phase, stamp, late, published, dead>> /\ cursor' = view[r]
  BY DEF SaveCursor, producer
<1>2. ReplicaOK(pc[r], view[r].pos, batch[r], Stored, InOrder, stamp, published, Resolved)
  BY ReplicaNow
<1>3. AtOK(cursor'.pos, Stored, InOrder, stamp, Resolved)
  BY <1>1, <1>2 DEF ReplicaOK
<1>4. h \in Resolved
  <2>1. h \in batch[r] /\ HeadIn(h, batch[r], stamp)
    BY <1>0, HeadStands
  <2> HIDE DEF h
  <2> QED BY <1>0, <1>2, <2>1, SetFacts DEF ReplicaOK
<1>5. CASE Moved(r, "tick", NoView, {})
  BY <1>0, <1>1, <1>3, <1>5, IdleNow, MoveKeeps
<1>6. CASE Moved(r, "publish", view[r], rest)
  <2> HIDE DEF h
  <2>1. rest \cup Resolved = batch[r] \cup Resolved
    BY <1>4
  <2>2. LineIn(rest, InOrder, stamp, rest \cup Resolved)
    BY <1>2, <2>1 DEF ReplicaOK, LineIn
  <2>3. ReplicaOK("publish", view[r].pos, rest, Stored, InOrder, stamp, published, Resolved)
    BY <1>2, <2>2 DEF ReplicaOK
  <2> QED BY <1>1, <1>3, <1>6, <2>3, MoveKeeps
<1> QED BY <1>0, <1>5, <1>6, SaveCursorMoves

LEMMA SavePastOK ==
    ASSUME RelayInv, TypeOK', NEW r \in Relays, SavePast(r)
    PROVE  RelayInv'
<1> DEFINE h == Oldest(batch[r])
<1>0. TypeOK /\ pc[r] = "savePast" /\ pc[r] \in Working
  BY DEF RelayInv, SavePast, Working
<1>1. UNCHANGED <<phase, stamp, late, published, dead>> /\ cursor' = [pos |-> PosOf(h), fails |-> 0]
  BY DEF SavePast, producer
<1>h. /\ h \in batch[r] /\ HeadIn(h, batch[r], stamp) /\ PosOf(h) = Pos(stamp, h)
      /\ KnownIn(Pos(stamp, h), Stored, stamp)
      /\ ClearIn(Pos(stamp, h), InOrder, stamp, Resolved \cup {h})
  BY <1>0, HeadStands
<1>2. Moved(r, "tick", NoView, {})
  BY LeaveMoves DEF SavePast
<1> HIDE DEF h
<1>3. Resolved \cup {h} = Resolved
  BY <1>0, <1>h, ReplicaNow DEF ReplicaOK
<1>4. cursor'.pos = Pos(stamp, h)
  BY <1>1, <1>h
<1>5. AtOK(cursor'.pos, Stored, InOrder, stamp, Resolved)
  BY <1>3, <1>4, <1>h DEF AtOK
<1> QED BY <1>0, <1>1, <1>2, <1>5, IdleNow, MoveKeeps

LEMMA PumpOK ==
    ASSUME RelayInv, TypeOK', NEW r \in Relays, Pump(r)
    PROVE  RelayInv'
<1>0. TypeOK
  BY DEF RelayInv
<1>1. ASSUME Acquire(r) \/ Tick(r) PROVE RelayInv'
  <2>1. /\ UNCHANGED <<phase, stamp, late, published, dead, cursor>>
        /\ Moved(r, "load", view[r], batch[r])
    BY <1>0, <1>1, GotoMoves DEF Acquire, Tick, producer, sidecar
  <2>2. ReplicaOK("load", view[r].pos, batch[r], Stored, InOrder, stamp, published, Resolved)
    BY Relabelled
  <2> QED BY <2>1, <2>2, CursorNow, MoveKeeps
<1>2. ASSUME LoadCursor(r) PROVE RelayInv'
  <2>1. /\ UNCHANGED <<phase, stamp, late, published, dead, cursor>>
        /\ Moved(r, "read", cursor, batch[r])
    BY <1>0, <1>2, Stays DEF LoadCursor, Goto, Moved, producer, sidecar
  <2>2. ReplicaOK("read", cursor.pos, batch[r], Stored, InOrder, stamp, published, Resolved)
    BY ReplicaNow, CursorNow DEF ReplicaOK
  <2> QED BY <2>1, <2>2, CursorNow, MoveKeeps
<1>3. ASSUME Read(r) PROVE RelayInv'
  <2>1. UNCHANGED <<phase, stamp, late, published, dead, cursor>>
    BY <1>3 DEF Read, producer, sidecar
  <2>2. CASE Moved(r, "tick", NoView, {})
    BY <1>0, <2>1, <2>2, CursorNow, IdleNow, MoveKeeps
  <2>3. CASE Moved(r, "publish", view[r], ReadAfter(view[r].pos))
    BY <2>1, <2>3, CursorNow, ReadOK, MoveKeeps
  <2> QED BY <1>0, <1>3, <2>2, <2>3, ReadMoves
<1>4. ASSUME SaveFailures(r) PROVE RelayInv'
  <2>1. /\ UNCHANGED <<phase, stamp, late, published, dead>> /\ cursor' = view[r]
        /\ Moved(r, "tick", NoView, {})
    BY <1>4, LeaveMoves DEF SaveFailures, AfterFailure, producer
  <2>2. AtOK(cursor'.pos, Stored, InOrder, stamp, Resolved)
    BY <2>1, ReplicaNow DEF ReplicaOK
  <2> QED BY <1>0, <2>1, <2>2, IdleNow, MoveKeeps
<1> QED
  BY <1>1, <1>2, <1>3, <1>4, PublishedOK, PublishFailedOK, SaveCursorOK, DeadLetterOK,
     SavePastOK DEF Pump

LEMMA EnvironmentOK ==
    ASSUME RelayInv, TypeOK', NEW r \in Relays, Environment(r)
    PROVE  RelayInv'
<1>0. TypeOK
  BY DEF RelayInv
<1>1. UNCHANGED <<phase, stamp, late, published, dead, cursor>>
  BY <1>0, EnvironmentMoves DEF producer, sidecar
<1>2. CASE UNCHANGED <<pc, view, batch>>
  <2>1. Grows
    BY <1>0, <1>1, RelayGrows
  <2> QED BY <1>1, <1>2, <2>1, QuietKeeps
<1>3. ASSUME NEW l, Moved(r, l, NoView, {}) PROVE RelayInv'
  BY <1>0, <1>1, <1>3, CursorNow, IdleNow, MoveKeeps
<1>4. CASE Moved(r, "tick", view[r], batch[r])
  <2>1. ReplicaOK("tick", view[r].pos, batch[r], Stored, InOrder, stamp, published, Resolved)
    BY Relabelled
  <2> QED BY <1>1, <1>4, <2>1, CursorNow, MoveKeeps
<1> QED BY <1>0, <1>2, <1>3, <1>4, EnvironmentMoves

LEMMA RelayInit == Init => RelayInv
<1> SUFFICES ASSUME Init PROVE RelayInv
  OBVIOUS
<1>1. TypeOK
  BY TypeInit
<1>2. Stored = {} /\ Resolved = {} /\ InOrder = {}
  BY DEF Init, Stored, Resolved, InOrder, Visible
<1>3. \A r \in Relays : view[r] = NoView /\ batch[r] = {}
  BY DEF Init
<1>4. ReplicasOK
  BY <1>1, <1>3, IdleNow DEF ReplicasOK
<1>5. CursorOK
  <2>1. cursor.pos = StartOfStream
    BY NoViewType DEF Init
  <2> QED BY <1>1, <1>2, <2>1, StampType, StartOK DEF CursorOK
<1>6. NoPhantom /\ HeadOfLine
  BY <1>2 DEF NoPhantom, HeadOfLine
<1> QED BY <1>1, <1>4, <1>5, <1>6 DEF RelayInv

LEMMA RelayNext ==
    ASSUME RelayInv, [Next]_vars
    PROVE  RelayInv'
<1>0. TypeOK /\ TypeOK'
  BY TypeNext DEF RelayInv
<1>1. CASE UNCHANGED vars
  <2>1. UNCHANGED <<phase, stamp, late, published, dead, pc, view, batch, cursor>>
    BY <1>1 DEF vars, producer, relay, sidecar
  <2>2. Grows
    BY <1>0, <2>1, RelayGrows
  <2> QED BY <1>0, <2>1, <2>2, QuietKeeps
<1>2. ASSUME NEW e \in Events, Produce(e) PROVE RelayInv'
  <2>1. UNCHANGED <<pc, view, batch, cursor, published, dead>>
    BY <1>2 DEF Produce, Publish, Append, Commit, Abort, relay, sidecar
  <2> QED BY <1>0, <1>2, <2>1, ProduceGrows, QuietKeeps
<1>3. ASSUME NEW t, DropPartitionsBefore(t) PROVE RelayInv'
  <2>1. UNCHANGED <<pc, view, batch, cursor, published, dead>>
    BY <1>3 DEF DropPartitionsBefore, relay, sidecar
  <2> QED BY <1>0, <1>3, <2>1, DropGrows, QuietKeeps
<1> QED BY <1>0, <1>1, <1>2, <1>3, PumpOK, EnvironmentOK DEF Next

LEMMA RelayAlways == Spec => []RelayInv
<1>1. Init => RelayInv
  BY RelayInit
<1>2. RelayInv /\ [Next]_vars => RelayInv'
  BY RelayNext
<1> QED BY <1>1, <1>2, PTL DEF Spec

(* PumpOnce never moves the sidecar cursor past a committed event that was  *)
(* neither accepted by the bus nor dead-lettered: whatever the batch size,  *)
(* with any number of replicas that believe they lead, across crashes,      *)
(* failed saves and broken sessions.                                        *)
THEOREM NothingIsLost == Spec => []NoEventLost
<1>1. RelayInv => NoEventLost
  BY DEF RelayInv, CursorOK, AtOK, ClearIn, NoEventLost, Pos, PosOf
<1> QED BY <1>1, RelayAlways, PTL

(* PumpOnce hands an event to the bus only when every event committed in    *)
(* order before it has been published or dead-lettered, although a stale    *)
(* leader pumps the same stream.                                            *)
THEOREM StreamInOrder == Spec => []HeadOfLine
<1>1. RelayInv => HeadOfLine
  BY DEF RelayInv
<1> QED BY <1>1, RelayAlways, PTL

(* Only events whose transaction committed reach the bus or the dead        *)
(* letters: a row that Append inserted and the unit of work rolled back is  *)
(* never pumped.                                                            *)
THEOREM OnlyCommitted == Spec => []NoPhantom
<1>1. RelayInv => NoPhantom
  BY DEF RelayInv
<1> QED BY <1>1, RelayAlways, PTL

-----------------------------------------------------------------------------
(* The failure count belongs to the head, while nothing commits late and    *)
(* nothing is dropped.                                                      *)

TriesGrow == \A e \in Events : tries'[e] >= tries[e]

LEMMA TriesType ==
    ASSUME TypeOK, NEW e \in Events
    PROVE  tries[e] \in Nat /\ tries[e] <= MaxAttempts
BY TypeParts, Constants DEF StoreTypes

LEMMA TriesTypeNext ==
    ASSUME TypeOK', NEW e \in Events
    PROVE  tries'[e] \in Nat /\ tries'[e] <= MaxAttempts
<1>1. tries' \in [Events -> 0 .. MaxAttempts]
  BY DEF TypeOK
<1> QED BY <1>1, Constants

LEMMA CountKept ==
    ASSUME TypeOK, TypeOK', Grows, TriesGrow, Stored' = InOrder', NEW p, NEW n \in Nat,
           CountOK(p, n, Stored, stamp, tries)
    PROVE  CountOK(p, n, Stored', stamp', tries')
<1>1. CASE n = 0
  BY <1>1 DEF CountOK
<1>2. CASE n # 0
  <2>1. PICK h \in Stored : /\ FirstAfter(p, h, Stored, stamp)
                            /\ tries[h] >= n \/ tries[h] = MaxAttempts
    BY <1>2 DEF CountOK
  <2>2. h \in Events /\ h \in Stored' /\ Pos(stamp', h) = Pos(stamp, h)
    BY SetFacts, GrowsPos DEF Grows
  <2>3. tries'[h] >= n \/ tries'[h] = MaxAttempts
    BY <2>1, <2>2, TriesType, TriesTypeNext, Constants DEF TriesGrow
  <2>4. ASSUME NEW f \in Stored' \ {h}, Before(p, Pos(stamp', f))
        PROVE  Before(Pos(stamp', h), Pos(stamp', f))
    <3>1. CASE f \in InOrder
      BY <2>1, <2>2, <2>4, <3>1, SetFacts, GrowsPos DEF FirstAfter
    <3>2. CASE \A x \in Stored : Before(Pos(stamp', x), Pos(stamp', f))
      BY <3>2
    <3> QED BY <3>1, <3>2 DEF Grows
  <2>5. FirstAfter(p, h, Stored', stamp')
    BY <2>1, <2>2, <2>4 DEF FirstAfter
  <2> QED BY <2>2, <2>3, <2>5 DEF CountOK
<1> QED BY <1>1, <1>2

LEMMA NextKept ==
    ASSUME TypeOK, TypeOK', Grows, Stored' = InOrder', NEW l, NEW p, NEW n,
           NEW es \in SUBSET Stored, NextOK(l, p, n, es, Stored, stamp)
    PROVE  NextOK(l, p, n, es, Stored', stamp')
<1>0. \A b \in es : Pos(stamp', b) = Pos(stamp, b)
  BY GrowsPos
<1>1. ASSUME l \in Working, NEW f \in Stored', Before(p, Pos(stamp', f))
      PROVE  f \in es \/ \A b \in es : Before(Pos(stamp', b), Pos(stamp', f))
  <2>1. CASE f \in InOrder
    <3>1. f \in Stored /\ Pos(stamp', f) = Pos(stamp, f)
      BY <2>1, SetFacts, GrowsPos
    <3> QED BY <1>0, <1>1, <3>1 DEF NextOK
  <2>2. CASE \A x \in Stored : Before(Pos(stamp', x), Pos(stamp', f))
    BY <2>2
  <2> QED BY <2>1, <2>2 DEF Grows
<1>2. \A h \in es : HeadIn(h, es, stamp') => HeadIn(h, es, stamp)
  BY <1>0 DEF HeadIn
<1> QED BY <1>0, <1>1, <1>2 DEF NextOK

LEMMA CalmInOrder ==
    ASSUME NoneDropped', Calm' PROVE Stored' = InOrder'
<1>1. late' = {} /\ \A e \in Events : phase'[e] # "dropped"
  BY DEF NoneDropped, Calm
<1> QED BY <1>1 DEF Stored, InOrder, Visible

LEMMA CalmNow ==
    ASSUME NoneDropped, Calm PROVE Stored = InOrder /\ Stored = Visible
<1>1. late = {} /\ \A e \in Events : phase[e] # "dropped"
  BY DEF NoneDropped, Calm
<1> QED BY <1>1 DEF Stored, InOrder, Visible

LEMMA CalmStep ==
    ASSUME TypeOK, NoneDropped, [Next]_vars
    PROVE  NoneDropped' /\ (Calm' => Calm)
<1> ProducerTypes /\ BoundTypes
  BY TypeParts
<1>1. CASE UNCHANGED vars
  BY <1>1 DEF vars, producer, bounds, NoneDropped, Calm
<1>2. ASSUME NEW r \in Relays, Pump(r) PROVE NoneDropped' /\ (Calm' => Calm)
  <2>1. UNCHANGED <<phase, late, drops>>
    BY <1>2 DEF Pump, Acquire, Tick, LoadCursor, Read, PublishOk, PublishFails, SaveCursor,
                SaveFailures, DeadLetter, SavePast, producer, bounds
  <2> QED BY <2>1 DEF NoneDropped, Calm
<1>3. ASSUME NEW r \in Relays, Environment(r) PROVE NoneDropped' /\ (Calm' => Calm)
  <2>1. UNCHANGED <<phase, late, drops>>
    BY <1>3, EnvironmentMoves DEF producer
  <2> QED BY <2>1 DEF NoneDropped, Calm
<1>4. ASSUME NEW e \in Events, Produce(e) PROVE NoneDropped' /\ (Calm' => Calm)
  <2>1. drops' = drops /\ late \subseteq late'
    BY <1>4 DEF Produce, Publish, Append, Commit, Abort, bounds
  <2>2. \E ph \in {"stamped", "appended", "committed", "aborted"} : phase' = [phase EXCEPT ![e] = ph]
    BY <1>4 DEF Produce, Publish, Append, Commit, Abort
  <2> QED BY <2>1, <2>2 DEF NoneDropped, Calm, ProducerTypes
<1>5. ASSUME NEW t, DropPartitionsBefore(t) PROVE NoneDropped' /\ (Calm' => Calm)
  <2>1. drops' = drops + 1 /\ drops \in Nat
    BY <1>5 DEF DropPartitionsBefore, BoundTypes
  <2>2. drops' # 0
    BY <2>1
  <2> QED BY <2>2 DEF NoneDropped, Calm
<1> QED BY <1>1, <1>2, <1>3, <1>4, <1>5 DEF Next

(* A step that moves replica r, or no replica at all. *)
LEMMA StepCounts ==
    ASSUME CountInv, RelayInv', NoneDropped', Grows, TriesGrow, Calm' => Calm,
           Calm' => CountOK(cursor'.pos, cursor'.fails, Stored', stamp', tries'),
           NEW r \in Relays, NEW l, NEW v, NEW b, Moved(r, l, v, b),
           Calm' => /\ CountOK(v.pos, v.fails, Stored', stamp', tries')
                    /\ NextOK(l, v.pos, v.fails, b, Stored', stamp')
    PROVE  CountsOK'
<1>0. TypeOK /\ TypeOK'
  BY DEF CountInv, RelayInv
<1> SUFFICES ASSUME Calm', NEW q \in Relays
             PROVE  /\ CountOK(view'[q].pos, view'[q].fails, Stored', stamp', tries')
                    /\ NextOK(pc'[q], view'[q].pos, view'[q].fails, batch'[q], Stored', stamp')
  BY DEF CountsOK
<1>1. CASE q = r
  BY <1>0, <1>1, MovedAt
<1>2. CASE q # r
  <2>1. pc'[q] = pc[q] /\ view'[q] = view[q] /\ batch'[q] = batch[q]
    BY <1>0, <1>2, MovedAt
  <2>2. /\ CountOK(view[q].pos, view[q].fails, Stored, stamp, tries)
        /\ NextOK(pc[q], view[q].pos, view[q].fails, batch[q], Stored, stamp)
    BY DEF CountInv, CountsOK
  <2>3. view[q].fails \in Nat
    BY <1>0, ViewFacts
  <2>4. batch[q] \in SUBSET Stored
    BY ReplicaNow DEF ReplicaOK, CountInv
  <2>5. CountOK(view[q].pos, view[q].fails, Stored', stamp', tries')
    BY <1>0, <2>2, <2>3, CountKept, CalmInOrder
  <2>6. NextOK(pc[q], view[q].pos, view[q].fails, batch[q], Stored', stamp')
    BY <1>0, <2>2, <2>4, NextKept, CalmInOrder
  <2> QED BY <2>1, <2>5, <2>6
<1> QED BY <1>1, <1>2

LEMMA QuietCounts ==
    ASSUME CountInv, RelayInv', NoneDropped', Grows, Calm' => Calm,
           UNCHANGED <<pc, view, batch, cursor, tries>>
    PROVE  CountsOK'
<1>0. TypeOK /\ TypeOK' /\ TriesGrow
  <2>1. TypeOK /\ TypeOK'
    BY DEF CountInv, RelayInv
  <2> QED BY <2>1, TriesType DEF TriesGrow
<1>1. cursor.fails \in Nat
  BY <1>0, TypeParts DEF StoreTypes, Cursors
<1> SUFFICES ASSUME Calm'
             PROVE  /\ CountOK(cursor'.pos, cursor'.fails, Stored', stamp', tries')
                    /\ \A q \in Relays :
                          /\ CountOK(view'[q].pos, view'[q].fails, Stored', stamp', tries')
                          /\ NextOK(pc'[q], view'[q].pos, view'[q].fails, batch'[q], Stored', stamp')
  BY DEF CountsOK
<1>2. CountOK(cursor.pos, cursor.fails, Stored', stamp', tries')
  BY <1>0, <1>1, CountKept, CalmInOrder DEF CountInv, CountsOK
<1>3. ASSUME NEW q \in Relays
      PROVE  /\ CountOK(view[q].pos, view[q].fails, Stored', stamp', tries')
             /\ NextOK(pc[q], view[q].pos, view[q].fails, batch[q], Stored', stamp')
  <2>1. /\ CountOK(view[q].pos, view[q].fails, Stored, stamp, tries)
        /\ NextOK(pc[q], view[q].pos, view[q].fails, batch[q], Stored, stamp)
    BY DEF CountInv, CountsOK
  <2>2. view[q].fails \in Nat
    BY <1>0, ViewFacts
  <2>3. batch[q] \in SUBSET Stored
    BY ReplicaNow DEF ReplicaOK, CountInv
  <2>4. CountOK(view[q].pos, view[q].fails, Stored', stamp', tries')
    BY <1>0, <2>1, <2>2, CountKept, CalmInOrder
  <2>5. NextOK(pc[q], view[q].pos, view[q].fails, batch[q], Stored', stamp')
    BY <1>0, <2>1, <2>3, NextKept, CalmInOrder
  <2> QED BY <2>4, <2>5
<1> QED BY <1>2, <1>3

(* The head of a batch is the row right after the replica's position. *)
LEMMA HeadIsFirst ==
    ASSUME CountInv, Calm, NEW r \in Relays, pc[r] \in Working \ {"save"}
    PROVE  FirstAfter(view[r].pos, Oldest(batch[r]), Stored, stamp)
<1> DEFINE h == Oldest(batch[r])
<1>1. h \in batch[r] /\ h \in Stored /\ HeadIn(h, batch[r], stamp)
  BY HeadStands DEF CountInv
<1>2. NextOK(pc[r], view[r].pos, view[r].fails, batch[r], Stored, stamp)
  BY DEF CountInv, CountsOK
<1> HIDE DEF h
<1>3. ASSUME NEW f \in Stored \ {h}, Before(view[r].pos, Pos(stamp, f))
      PROVE  Before(Pos(stamp, h), Pos(stamp, f))
  BY <1>1, <1>2, <1>3 DEF NextOK, HeadIn
<1>4. FirstAfter(view[r].pos, h, Stored, stamp)
  BY <1>1, <1>2, <1>3 DEF NextOK, FirstAfter
<1> QED BY <1>4 DEF h

LEMMA OneFirst ==
    ASSUME NEW st \in [Events -> Nat], NEW so \in SUBSET Events, NEW p, NEW g, NEW h,
           FirstAfter(p, g, so, st), FirstAfter(p, h, so, st)
    PROVE  g = h
BY PosType, BeforeOrder DEF FirstAfter

(* What the replica counts, it counts of its head. *)
LEMMA HeadIsCounted ==
    ASSUME CountInv, Calm, NEW r \in Relays, pc[r] \in Working \ {"save"}, view[r].fails # 0
    PROVE  \/ tries[Oldest(batch[r])] >= view[r].fails
           \/ tries[Oldest(batch[r])] = MaxAttempts
<1>0. stamp \in [Events -> Nat] /\ Stored \in SUBSET Events
  BY StampType, SetFacts DEF CountInv, RelayInv
<1>1. CountOK(view[r].pos, view[r].fails, Stored, stamp, tries)
  BY DEF CountInv, CountsOK
<1>2. PICK g \in Stored : /\ FirstAfter(view[r].pos, g, Stored, stamp)
                          /\ tries[g] >= view[r].fails \/ tries[g] = MaxAttempts
  BY <1>1 DEF CountOK
<1>3. g = Oldest(batch[r])
  BY <1>0, <1>2, HeadIsFirst, OneFirst
<1> QED BY <1>2, <1>3

LEMMA EarnedKept ==
    ASSUME CountInv, TypeOK', TriesGrow, Calm' => Calm, dead' = dead
    PROVE  EarnedDeadLetter'
<1> SUFFICES ASSUME Calm', NEW e \in dead PROVE tries'[e] = MaxAttempts
  BY DEF EarnedDeadLetter, Calm
<1>1. TypeOK /\ tries[e] = MaxAttempts
  BY DEF CountInv, RelayInv, EarnedDeadLetter, Calm
<1>2. e \in Events
  BY <1>1, TypeParts DEF StoreTypes
<1> QED BY <1>1, <1>2, TriesTypeNext, Constants DEF TriesGrow

LEMMA TriesSame ==
    ASSUME TypeOK, tries' = tries PROVE TriesGrow
BY TriesType DEF TriesGrow

(* A replica that is not at a batch has nothing to count against it. *)
LEMMA NotWorking ==
    ASSUME NEW l, l \notin Working, NEW p, NEW n, NEW es, NEW so, NEW st
    PROVE  NextOK(l, p, n, es, so, st)
BY DEF NextOK, Working

LEMMA NoCount ==
    ASSUME NEW p, NEW so, NEW st, NEW tr PROVE CountOK(p, 0, so, st, tr)
BY DEF CountOK

LEMMA CountsNow ==
    ASSUME CountInv, Calm, NEW r \in Relays
    PROVE  /\ CountOK(cursor.pos, cursor.fails, Stored, stamp, tries)
           /\ CountOK(view[r].pos, view[r].fails, Stored, stamp, tries)
           /\ NextOK(pc[r], view[r].pos, view[r].fails, batch[r], Stored, stamp)
BY DEF CountInv, CountsOK

(* A pass of replica r that counts no failure. *)
LEMMA PassCounts ==
    ASSUME CountInv, RelayInv', NoneDropped', Calm' => Calm,
           UNCHANGED <<phase, stamp, late, tries>>, published \subseteq published', dead \subseteq dead',
           Calm => CountOK(cursor'.pos, cursor'.fails, Stored, stamp, tries),
           NEW r \in Relays, NEW l, NEW v, NEW b, Moved(r, l, v, b),
           Calm => /\ CountOK(v.pos, v.fails, Stored, stamp, tries)
                   /\ NextOK(l, v.pos, v.fails, b, Stored, stamp)
    PROVE  CountsOK' /\ (dead' = dead => EarnedDeadLetter')
<1>0. TypeOK /\ TypeOK'
  BY DEF CountInv, RelayInv
<1>1. Grows /\ TriesGrow /\ Stored' = Stored
  BY <1>0, RelayGrows, TriesSame
<1>2. CountsOK'
  BY <1>1, StepCounts
<1> QED BY <1>0, <1>1, <1>2, EarnedKept

LEMMA IdlePass ==
    ASSUME CountInv, RelayInv', NoneDropped', Calm' => Calm,
           UNCHANGED <<phase, stamp, late, tries, dead, published>>,
           Calm => CountOK(cursor'.pos, cursor'.fails, Stored, stamp, tries),
           NEW r \in Relays, NEW l, l \notin Working, Moved(r, l, NoView, {})
    PROVE  CountsOK' /\ EarnedDeadLetter'
<1>1. CountOK(NoView.pos, NoView.fails, Stored, stamp, tries)
  BY NoViewType, NoCount
<1>2. NextOK(l, NoView.pos, NoView.fails, {}, Stored, stamp)
  BY NotWorking
<1> QED BY <1>1, <1>2, PassCounts

LEMMA ReadCounts ==
    ASSUME CountInv, Calm, NEW r \in Relays
    PROVE  NextOK("publish", view[r].pos, view[r].fails, ReadAfter(view[r].pos), Stored, stamp)
<1> DEFINE p == view[r].pos
           rows == ReadAfter(p)
<1>0. TypeOK /\ p \in Positions /\ stamp \in [Events -> Nat]
  BY ViewFacts, StampType DEF CountInv, RelayInv
<1>1. \A b \in rows : b \in Events /\ Before(p, Pos(stamp, b))
  BY ReadRows, SetFacts DEF Pos, PosOf
<1>2. ASSUME NEW f \in Stored, Before(p, Pos(stamp, f)), NEW b \in rows, f \notin rows
      PROVE  Before(Pos(stamp, b), Pos(stamp, f))
  <2>1. f \in Visible /\ f \in Events /\ b # f
    BY <1>2, CalmNow, SetFacts DEF CountInv
  <2>2. ~Before(Pos(stamp, f), Pos(stamp, b))
    BY <1>0, <1>2, <2>1, ReadPrefix DEF Pos, PosOf
  <2> QED BY <1>0, <1>1, <2>1, <2>2, BeforeTotal
<1> QED BY <1>1, <1>2 DEF NextOK, Working

LEMMA PublishOkCounts ==
    ASSUME CountInv, RelayInv', NoneDropped', Calm' => Calm, NEW r \in Relays, PublishOk(r)
    PROVE  CountsOK' /\ EarnedDeadLetter'
<1> DEFINE h == Oldest(batch[r])
           v == [pos |-> PosOf(h), fails |-> 0]
<1>0. TypeOK /\ pc[r] = "publish" /\ pc[r] \in Working /\ pc[r] \in Working \ {"save"}
  BY DEF CountInv, RelayInv, PublishOk, Working
<1>1. UNCHANGED <<phase, stamp, late, tries, dead, cursor>> /\ published \subseteq published'
  BY DEF PublishOk, producer, sidecar
<1>2. Moved(r, "save", v, batch[r])
  BY <1>0, PublishOkMoves
<1>3. v.pos = Pos(stamp, h) /\ v.fails = 0
  BY <1>0, HeadFacts
<1>4. h \in batch[r] /\ h \in Stored /\ HeadIn(h, batch[r], stamp)
  BY <1>0, HeadStands DEF CountInv
<1>5. Calm => FirstAfter(view[r].pos, h, Stored, stamp)
  BY <1>0, HeadIsFirst
<1>6. batch[r] \in SUBSET Events /\ view[r].pos \in Positions /\ stamp \in [Events -> Nat]
  BY <1>0, ViewFacts, StampType
<1> HIDE DEF h, v
<1>7. ASSUME Calm PROVE NextOK("save", v.pos, v.fails, batch[r], Stored, stamp)
  <2>1. ASSUME NEW f \in Stored, Before(v.pos, Pos(stamp, f))
        PROVE  f \in batch[r] \/ \A b \in batch[r] : Before(Pos(stamp, b), Pos(stamp, f))
    <3>1. h \in Events /\ f \in Events
      BY <1>4, SetFacts
    <3>2. Pos(stamp, h) \in Positions /\ Pos(stamp, f) \in Positions
      BY <1>6, <3>1, PosType
    <3>3. Before(view[r].pos, Pos(stamp, h))
      BY <1>5, <1>7 DEF FirstAfter
    <3>4. Before(view[r].pos, Pos(stamp, f))
      BY <1>3, <1>6, <2>1, <3>2, <3>3, BeforeOrder
    <3> QED BY <1>0, <1>7, <3>4, CountsNow DEF NextOK
  <2>2. \A g \in batch[r] : HeadIn(g, batch[r], stamp) => v.pos = Pos(stamp, g)
    BY <1>3, <1>4, <1>6, OneHead
  <2> QED BY <1>3, <2>1, <2>2 DEF NextOK, Working
<1>8. CountOK(v.pos, v.fails, Stored, stamp, tries)
  BY <1>3, NoCount
<1> QED BY <1>1, <1>2, <1>7, <1>8, CountsNow, PassCounts

LEMMA SaveCursorCounts ==
    ASSUME CountInv, RelayInv', NoneDropped', Calm' => Calm, NEW r \in Relays, SaveCursor(r)
    PROVE  CountsOK' /\ EarnedDeadLetter'
<1> DEFINE h == Oldest(batch[r])
           rest == batch[r] \ {h}
<1>0. TypeOK /\ pc[r] = "save" /\ pc[r] \in Working /\ "tick" \notin Working
  BY DEF CountInv, RelayInv, SaveCursor, Working
<1>1. UNCHANGED <<phase, stamp, late, tries, dead, published>> /\ cursor' = view[r]
  BY DEF SaveCursor, producer
<1>2. Calm => CountOK(cursor'.pos, cursor'.fails, Stored, stamp, tries)
  BY <1>1, CountsNow
<1>3. CASE Moved(r, "tick", NoView, {})
  BY <1>0, <1>1, <1>2, <1>3, IdlePass
<1>4. CASE Moved(r, "publish", view[r], rest)
  <2>1. h \in batch[r] /\ h \in Events /\ HeadIn(h, batch[r], stamp)
    BY <1>0, HeadFacts
  <2> HIDE DEF h
  <2>2. ASSUME Calm PROVE NextOK("publish", view[r].pos, view[r].fails, rest, Stored, stamp)
    <3>1. NextOK(pc[r], view[r].pos, view[r].fails, batch[r], Stored, stamp)
      BY <2>2, CountsNow
    <3>2. view[r].pos = Pos(stamp, h)
      BY <1>0, <2>1, <3>1 DEF NextOK
    <3>3. ~Before(view[r].pos, Pos(stamp, h))
      <4>1. Pos(stamp, h) \in Positions
        BY <1>0, <2>1, StampType, PosType
      <4> QED BY <3>2, <4>1, BeforeOrder
    <3>4. ASSUME NEW f \in Stored, Before(view[r].pos, Pos(stamp, f))
          PROVE  f \in rest \/ \A b \in rest : Before(Pos(stamp, b), Pos(stamp, f))
      BY <1>0, <3>1, <3>3, <3>4 DEF NextOK
    <3>5. \A b \in rest : Before(view[r].pos, Pos(stamp, b))
      BY <2>1, <3>2 DEF HeadIn
    <3> QED BY <3>4, <3>5 DEF NextOK, Working
  <2> QED BY <1>1, <1>2, <1>4, <2>2, CountsNow, PassCounts
<1> QED BY <1>0, <1>3, <1>4, SaveCursorMoves

LEMMA DeadLetterCounts ==
    ASSUME CountInv, RelayInv', NoneDropped', Calm' => Calm, NEW r \in Relays, DeadLetter(r)
    PROVE  CountsOK' /\ EarnedDeadLetter'
<1> DEFINE h == Oldest(batch[r])
<1>0. TypeOK /\ pc[r] = "deadLetter" /\ pc[r] \in Working \ {"save"} /\ pc[r] \in Working
  BY DEF CountInv, RelayInv, DeadLetter, Working
<1>1. /\ UNCHANGED <<phase, stamp, late, tries, cursor, published>> /\ dead' = dead \cup {h}
      /\ Moved(r, "savePast", view[r], batch[r])
  BY <1>0, GotoMoves DEF DeadLetter, producer
<1>2. ASSUME Calm PROVE NextOK("savePast", view[r].pos, view[r].fails, batch[r], Stored, stamp)
  BY <1>0, <1>2, CountsNow DEF NextOK, Working
<1>3. CountsOK'
  BY <1>1, <1>2, CountsNow, PassCounts
<1>4. ASSUME Calm PROVE tries[h] = MaxAttempts
  <2>1. view[r].fails >= MaxAttempts /\ view[r].fails \in Nat
    BY <1>0, <1>4, CountsNow, ViewFacts DEF NextOK
  <2>2. view[r].fails # 0
    BY <2>1, Constants
  <2>3. tries[h] >= view[r].fails \/ tries[h] = MaxAttempts
    BY <1>0, <1>4, <2>2, HeadIsCounted
  <2>4. h \in Events
    BY <1>0, HeadFacts
  <2> HIDE DEF h
  <2>5. tries[h] \in Nat /\ tries[h] <= MaxAttempts
    BY <1>0, <2>4, TriesType
  <2> QED BY <2>1, <2>3, <2>5, Constants
<1> HIDE DEF h
<1>5. EarnedDeadLetter'
  <2> SUFFICES ASSUME Calm', NEW e \in dead' PROVE tries'[e] = MaxAttempts
    BY DEF EarnedDeadLetter, Calm
  <2> QED BY <1>1, <1>4 DEF CountInv, EarnedDeadLetter, Calm
<1> QED BY <1>3, <1>5

LEMMA PublishFailsCounts ==
    ASSUME CountInv, RelayInv', NoneDropped', Calm' => Calm, NEW r \in Relays, PublishFails(r)
    PROVE  CountsOK' /\ EarnedDeadLetter'
<1> DEFINE h == Oldest(batch[r])
           n == view[r].fails + 1
           v == [pos |-> view[r].pos, fails |-> n]
<1>0. /\ TypeOK /\ TypeOK' /\ pc[r] = "publish" /\ pc[r] \in Working \ {"save"} /\ pc[r] \in Working
  BY DEF CountInv, RelayInv, PublishFails, Working
<1>1. /\ UNCHANGED <<phase, stamp, late, dead, cursor>> /\ published \subseteq published'
      /\ tries' = [tries EXCEPT ![h] = IF @ < MaxAttempts THEN @ + 1 ELSE @]
  BY DEF PublishFails, producer, sidecar
<1>2. PICK l \in {"deadLetter", "saveFails"} :
          (l = "deadLetter" => n >= MaxAttempts) /\ Moved(r, l, v, batch[r])
  BY <1>0, PublishFailsMoves
<1>3. h \in Events /\ h \in Stored
  BY <1>0, HeadStands, HeadFacts DEF CountInv
<1>4. v.pos = view[r].pos /\ v.fails = n /\ n \in Nat /\ view[r].fails \in Nat
  BY <1>0, ViewFacts
<1>5. Calm => FirstAfter(view[r].pos, h, Stored, stamp)
  BY <1>0, HeadIsFirst
<1>6. Calm /\ view[r].fails # 0 => tries[h] >= view[r].fails \/ tries[h] = MaxAttempts
  BY <1>0, HeadIsCounted
<1> HIDE DEF h, v
<1>7. \A e \in Events : /\ tries[e] \in Nat /\ tries[e] <= MaxAttempts
                        /\ tries'[e] = IF e = h /\ tries[e] < MaxAttempts THEN tries[e] + 1 ELSE tries[e]
  <2>1. tries \in [Events -> 0 .. MaxAttempts]
    BY <1>0, TypeParts DEF StoreTypes
  <2> QED BY <1>0, <1>1, <1>3, <2>1, TriesType
<1>8. TriesGrow
  BY <1>7, Constants DEF TriesGrow
<1>9. Grows /\ Stored' = Stored /\ stamp' = stamp
  BY <1>0, <1>1, RelayGrows
<1>10. ASSUME Calm PROVE CountOK(v.pos, v.fails, Stored', stamp', tries')
  <2>1. tries[h] >= view[r].fails \/ tries[h] = MaxAttempts
    BY <1>3, <1>4, <1>6, <1>7, <1>10
  <2>2. tries'[h] >= n \/ tries'[h] = MaxAttempts
    BY <1>3, <1>4, <1>7, <2>1, Constants
  <2> QED BY <1>3, <1>4, <1>5, <1>9, <1>10, <2>2 DEF CountOK
<1>11. ASSUME Calm PROVE NextOK(l, v.pos, v.fails, batch[r], Stored', stamp')
  <2>1. NextOK(pc[r], view[r].pos, view[r].fails, batch[r], Stored, stamp)
    BY <1>11, CountsNow
  <2> HIDE DEF n
  <2> QED BY <1>0, <1>2, <1>4, <1>9, <2>1 DEF NextOK, Working
<1>12. ASSUME Calm' PROVE CountOK(cursor'.pos, cursor'.fails, Stored', stamp', tries')
  <2>1. cursor.fails \in Nat
    BY <1>0, TypeParts DEF StoreTypes, Cursors
  <2> QED BY <1>0, <1>1, <1>8, <1>9, <1>12, <2>1, CountsNow, CountKept, CalmInOrder
<1>13. CountsOK'
  BY <1>2, <1>8, <1>9, <1>10, <1>11, <1>12, StepCounts
<1> QED BY <1>0, <1>1, <1>8, <1>13, EarnedKept

LEMMA PumpCounts ==
    ASSUME CountInv, RelayInv', NoneDropped', Calm' => Calm, NEW r \in Relays, Pump(r)
    PROVE  CountsOK' /\ EarnedDeadLetter'
<1>0. TypeOK /\ "load" \notin Working /\ "read" \notin Working /\ "tick" \notin Working
  BY DEF CountInv, RelayInv, Working
<1>1. ASSUME Acquire(r) \/ Tick(r) PROVE CountsOK' /\ EarnedDeadLetter'
  <2>1. /\ UNCHANGED <<phase, stamp, late, tries, dead, cursor, published>>
        /\ Moved(r, "load", view[r], batch[r])
    BY <1>0, <1>1, GotoMoves DEF Acquire, Tick, producer, sidecar
  <2>2. NextOK("load", view[r].pos, view[r].fails, batch[r], Stored, stamp)
    BY <1>0, NotWorking
  <2> QED BY <2>1, <2>2, CountsNow, PassCounts
<1>2. ASSUME LoadCursor(r) PROVE CountsOK' /\ EarnedDeadLetter'
  <2>1. /\ UNCHANGED <<phase, stamp, late, tries, dead, cursor, published>>
        /\ Moved(r, "read", cursor, batch[r])
    BY <1>0, <1>2, Stays DEF LoadCursor, Goto, Moved, producer, sidecar
  <2>2. NextOK("read", cursor.pos, cursor.fails, batch[r], Stored, stamp)
    BY <1>0, NotWorking
  <2> QED BY <2>1, <2>2, CountsNow, PassCounts
<1>3. ASSUME Read(r) PROVE CountsOK' /\ EarnedDeadLetter'
  <2>1. UNCHANGED <<phase, stamp, late, tries, dead, cursor, published>>
    BY <1>3 DEF Read, producer, sidecar
  <2>2. CASE Moved(r, "tick", NoView, {})
    BY <1>0, <2>1, <2>2, CountsNow, IdlePass
  <2>3. CASE Moved(r, "publish", view[r], ReadAfter(view[r].pos))
    BY <2>1, <2>3, CountsNow, ReadCounts, PassCounts
  <2> QED BY <1>0, <1>3, <2>2, <2>3, ReadMoves
<1>4. ASSUME SaveFailures(r) PROVE CountsOK' /\ EarnedDeadLetter'
  <2>1. /\ UNCHANGED <<phase, stamp, late, tries, dead, published>> /\ cursor' = view[r]
        /\ Moved(r, "tick", NoView, {})
    BY <1>4, LeaveMoves DEF SaveFailures, AfterFailure, producer
  <2> QED BY <1>0, <2>1, CountsNow, IdlePass
<1>5. ASSUME SavePast(r) PROVE CountsOK' /\ EarnedDeadLetter'
  <2>1. /\ UNCHANGED <<phase, stamp, late, tries, dead, published>> /\ cursor'.fails = 0
        /\ Moved(r, "tick", NoView, {})
    BY <1>5, LeaveMoves DEF SavePast, producer
  <2> QED BY <1>0, <2>1, NoCount, IdlePass
<1> QED
  BY <1>1, <1>2, <1>3, <1>4, <1>5, PublishOkCounts, PublishFailsCounts, SaveCursorCounts,
     DeadLetterCounts DEF Pump

LEMMA EnvironmentCounts ==
    ASSUME CountInv, RelayInv', NoneDropped', Calm' => Calm, NEW r \in Relays, Environment(r)
    PROVE  CountsOK' /\ EarnedDeadLetter'
<1>0. TypeOK /\ TypeOK' /\ "tick" \notin Working /\ "down" \notin Working
  BY DEF CountInv, RelayInv, Working
<1>1. UNCHANGED <<phase, stamp, late, tries, dead, cursor, published>>
  BY <1>0, EnvironmentMoves DEF producer, sidecar
<1>2. CASE UNCHANGED <<pc, view, batch>>
  BY <1>0, <1>1, <1>2, RelayGrows, QuietCounts, TriesSame, EarnedKept
<1>3. ASSUME NEW l \in {"tick", "down"}, Moved(r, l, NoView, {})
      PROVE  CountsOK' /\ EarnedDeadLetter'
  BY <1>0, <1>1, <1>3, CountsNow, IdlePass
<1>4. CASE Moved(r, "tick", view[r], batch[r])
  <2>1. NextOK("tick", view[r].pos, view[r].fails, batch[r], Stored, stamp)
    BY <1>0, NotWorking
  <2> QED BY <1>1, <1>4, <2>1, CountsNow, PassCounts
<1> QED BY <1>0, <1>2, <1>3, <1>4, EnvironmentMoves

LEMMA QuietStepCounts ==
    ASSUME CountInv, RelayInv', NoneDropped', Grows, Calm' => Calm,
           UNCHANGED <<pc, view, batch, cursor, tries, dead>>
    PROVE  CountsOK' /\ EarnedDeadLetter'
<1>1. TypeOK /\ TypeOK'
  BY DEF CountInv, RelayInv
<1> QED BY <1>1, QuietCounts, TriesSame, EarnedKept

LEMMA CountNext ==
    ASSUME CountInv, [Next]_vars
    PROVE  CountInv'
<1>0. RelayInv /\ TypeOK /\ NoneDropped
  BY DEF CountInv, RelayInv
<1>1. RelayInv' /\ TypeOK' /\ NoneDropped' /\ (Calm' => Calm)
  BY <1>0, RelayNext, TypeNext, CalmStep
<1>2. CountsOK' /\ EarnedDeadLetter'
  <2>1. CASE UNCHANGED vars
    <3>1. UNCHANGED <<phase, stamp, late, published, dead, pc, view, batch, cursor, tries>>
      BY <2>1 DEF vars, producer, relay, sidecar
    <3> QED BY <1>0, <1>1, <3>1, RelayGrows, QuietStepCounts
  <2>2. ASSUME NEW e \in Events, Produce(e) PROVE CountsOK' /\ EarnedDeadLetter'
    <3>1. UNCHANGED <<pc, view, batch, cursor, tries, dead>>
      BY <2>2 DEF Produce, Publish, Append, Commit, Abort, relay, sidecar
    <3> QED BY <1>0, <1>1, <2>2, <3>1, ProduceGrows, QuietStepCounts
  <2>3. ASSUME NEW t, DropPartitionsBefore(t) PROVE CountsOK' /\ EarnedDeadLetter'
    <3>1. UNCHANGED <<pc, view, batch, cursor, tries, dead>>
      BY <2>3 DEF DropPartitionsBefore, relay, sidecar
    <3> QED BY <1>0, <1>1, <2>3, <3>1, DropGrows, QuietStepCounts
  <2> QED BY <1>1, <2>1, <2>2, <2>3, PumpCounts, EnvironmentCounts DEF Next
<1> QED BY <1>1, <1>2 DEF CountInv

LEMMA CountInit == Init => CountInv
<1> SUFFICES ASSUME Init PROVE CountInv
  OBVIOUS
<1>1. RelayInv
  BY RelayInit
<1>2. NoneDropped /\ EarnedDeadLetter
  BY DEF Init, NoneDropped, EarnedDeadLetter
<1>3. CountOK(cursor.pos, cursor.fails, Stored, stamp, tries)
  <2>1. cursor.fails = 0
    BY NoViewType DEF Init
  <2> QED BY <2>1, NoCount
<1>4. ASSUME NEW r \in Relays
      PROVE  /\ CountOK(view[r].pos, view[r].fails, Stored, stamp, tries)
             /\ NextOK(pc[r], view[r].pos, view[r].fails, batch[r], Stored, stamp)
  <2>1. view[r].fails = 0 /\ pc[r] \notin Working
    BY NoViewType DEF Init, Working
  <2> QED BY <2>1, NoCount, NotWorking
<1> QED BY <1>1, <1>2, <1>3, <1>4 DEF CountInv, CountsOK

(* PumpOnce dead-letters an event only after MaxAttempts publishes of that  *)
(* same event have failed: the count that the sidecar keeps beside the      *)
(* cursor is never another event's, across replicas, crashes and failed     *)
(* saves, while no commit is late and no retention has run.                 *)
THEOREM DeadLettersAreEarned == Spec => []EarnedDeadLetter
<1>1. Init => CountInv
  BY CountInit
<1>2. CountInv /\ [Next]_vars => CountInv'
  BY CountNext
<1>3. CountInv => EarnedDeadLetter
  BY DEF CountInv
<1> QED BY <1>1, <1>2, <1>3, PTL DEF Spec

-----------------------------------------------------------------------------
(* The allocator. *)

LEMMA SeqSame ==
    ASSUME SeqInv, UNCHANGED <<phase, seq, nextSeq, seqLock>>
    PROVE  SeqInv'
BY DEF SeqInv, Stored

LEMMA SeqProduce ==
    ASSUME TypeOK, SeqInv, NEW e \in Events, Produce(e)
    PROVE  SeqInv'
<1> SUFFICES ASSUME Sequenced
             PROVE  /\ nextSeq' = Cardinality(Stored')
                    /\ {seq'[x] : x \in Stored'} = 1 .. nextSeq'
                    /\ \A x \in Events : phase'[x] = "appended" <=> seqLock' = x
                    /\ seqLock' # NoEvent => seq'[seqLock'] = nextSeq' + 1
  BY DEF SeqInv
<1> ProducerTypes
  BY TypeParts
<1>0. /\ nextSeq = Cardinality(Stored) /\ {seq[x] : x \in Stored} = 1 .. nextSeq
      /\ \A x \in Events : phase[x] = "appended" <=> seqLock = x
      /\ seqLock # NoEvent => seq[seqLock] = nextSeq + 1
      /\ phase \in [Events -> Phases] /\ seq \in [Events -> Nat] /\ nextSeq \in Nat
      /\ NoEvent \notin Events /\ seqLock \in Events \cup {NoEvent}
  BY Constants DEF SeqInv, ProducerTypes
<1>1. CASE Publish(e)
  <2>1. /\ phase[e] = "none" /\ phase' = [phase EXCEPT ![e] = "stamped"]
        /\ UNCHANGED <<seq, nextSeq, seqLock>>
    BY <1>1 DEF Publish
  <2>2. Stored' = Stored
    BY <1>0, <2>1 DEF Stored
  <2>3. \A x \in Events : phase'[x] = "appended" <=> seqLock' = x
    BY <1>0, <2>1
  <2> QED BY <1>0, <2>1, <2>2, <2>3
<1>2. CASE Append(e)
  <2>1. /\ phase[e] = "stamped" /\ phase' = [phase EXCEPT ![e] = "appended"]
        /\ seqLock = NoEvent /\ seqLock' = e /\ seq' = [seq EXCEPT ![e] = nextSeq + 1]
        /\ nextSeq' = nextSeq
    BY <1>2 DEF Append
  <2>2. Stored' = Stored /\ e \notin Stored
    BY <1>0, <2>1 DEF Stored
  <2>3. \A x \in Stored : seq'[x] = seq[x]
    BY <1>0, <2>1, <2>2, SetFacts
  <2>4. {seq'[x] : x \in Stored'} = 1 .. nextSeq'
    BY <1>0, <2>1, <2>2, <2>3
  <2>5. \A x \in Events : phase'[x] = "appended" <=> seqLock' = x
    BY <1>0, <2>1
  <2>6. seq'[seqLock'] = nextSeq' + 1
    BY <1>0, <2>1
  <2> QED BY <1>0, <2>1, <2>2, <2>4, <2>5, <2>6
<1>3. CASE Commit(e)
  <2>1. /\ phase[e] = "appended" /\ phase' = [phase EXCEPT ![e] = "committed"]
        /\ nextSeq' = seq[e] /\ seq' = seq /\ seqLock' = IF seqLock = e THEN NoEvent ELSE seqLock
    BY <1>3 DEF Commit, Unlock
  <2>2. seqLock = e /\ seq[e] = nextSeq + 1 /\ seqLock' = NoEvent
    BY <1>0, <2>1
  <2>3. Stored' = Stored \cup {e} /\ e \notin Stored
    BY <1>0, <2>1 DEF Stored
  <2>4. Cardinality(Stored') = Cardinality(Stored) + 1
    <3>1. IsFiniteSet(Stored)
      BY Constants, SetFacts, FS_Subset
    <3> QED BY <2>3, <3>1, FS_AddElement
  <2>5. {seq'[x] : x \in Stored'} = 1 .. nextSeq'
    <3>1. {seq'[x] : x \in Stored'} = {seq[x] : x \in Stored} \cup {nextSeq + 1}
      BY <2>1, <2>2, <2>3
    <3>2. 1 .. (nextSeq + 1) = (1 .. nextSeq) \cup {nextSeq + 1}
      BY <1>0
    <3> QED BY <1>0, <2>1, <2>2, <3>1, <3>2
  <2>6. \A x \in Events : phase'[x] = "appended" <=> seqLock' = x
    BY <1>0, <2>1, <2>2
  <2> QED BY <1>0, <2>1, <2>2, <2>4, <2>5, <2>6
<1>4. CASE Abort(e)
  <2>1. /\ phase[e] \in {"stamped", "appended"} /\ phase' = [phase EXCEPT ![e] = "aborted"]
        /\ UNCHANGED <<seq, nextSeq>> /\ seqLock' = IF seqLock = e THEN NoEvent ELSE seqLock
    BY <1>4 DEF Abort, Unlock, Open
  <2>2. Stored' = Stored
    BY <1>0, <2>1 DEF Stored
  <2>3. \A x \in Events : phase'[x] = "appended" <=> seqLock' = x
    BY <1>0, <2>1
  <2> QED BY <1>0, <2>1, <2>2, <2>3
<1> QED BY <1>1, <1>2, <1>3, <1>4 DEF Produce

LEMMA SeqDrop ==
    ASSUME TypeOK, SeqInv, NEW t, DropPartitionsBefore(t)
    PROVE  SeqInv'
<1> ProducerTypes
  BY TypeParts
<1>1. /\ UNCHANGED <<seq, nextSeq, seqLock>>
      /\ phase' = [e \in Events |-> IF e \in Visible /\ stamp[e] < t THEN "dropped" ELSE phase[e]]
  BY DEF DropPartitionsBefore
<1>2. Stored' = Stored
  BY <1>1 DEF ProducerTypes, Stored, Visible
<1>3. \A e \in Events : phase'[e] = "appended" <=> phase[e] = "appended"
  BY <1>1 DEF ProducerTypes, Visible
<1> QED BY <1>1, <1>2, <1>3 DEF SeqInv

LEMMA SeqInit == Init => SeqInv
<1> SUFFICES ASSUME Init PROVE SeqInv
  OBVIOUS
<1>1. Stored = {} /\ nextSeq = 0 /\ seqLock = NoEvent
  BY DEF Init, Stored
<1>2. Cardinality(Stored) = 0 /\ {seq[e] : e \in Stored} = 1 .. 0
  BY <1>1, FS_EmptySet
<1>3. \A e \in Events : phase[e] = "appended" <=> seqLock = e
  BY <1>1, Constants DEF Init
<1> QED BY <1>1, <1>2, <1>3 DEF SeqInv

LEMMA SeqNext ==
    ASSUME TypeOK, SeqInv, [Next]_vars
    PROVE  SeqInv'
<1>1. CASE UNCHANGED vars
  BY <1>1, SeqSame DEF vars, producer
<1>2. ASSUME NEW r \in Relays, Pump(r) \/ Environment(r) PROVE SeqInv'
  <2>1. UNCHANGED producer
    BY <1>2 DEF Pump, Acquire, Tick, LoadCursor, Read, PublishOk, PublishFails, SaveCursor,
                SaveFailures, DeadLetter, SavePast,
                Environment, StoreFault, SessionLost, Stop, Crash, Start
  <2> QED BY <2>1, SeqSame DEF producer
<1> QED BY <1>1, <1>2, SeqProduce, SeqDrop DEF Next

(* The committed events of a tenant carry 1, 2, ..., n and the allocator    *)
(* row stands at n, whatever commits, aborts and is dropped: Append's row   *)
(* lock covers the allocation up to the end of the transaction.             *)
THEOREM SequenceHasNoGap == Spec => []SeqGapFree
<1>1. Init => TypeOK /\ SeqInv
  BY TypeInit, SeqInit
<1>2. TypeOK /\ SeqInv /\ [Next]_vars => TypeOK' /\ SeqInv'
  BY TypeNext, SeqNext
<1>3. SeqInv => SeqGapFree
  BY DEF SeqInv, SeqGapFree
<1> QED BY <1>1, <1>2, <1>3, PTL DEF Spec

-----------------------------------------------------------------------------
(* The leader. *)

(* Until a session breaks, the flag of a replica is the lock it holds. *)
LeaderInv == losses = 0 => \A r \in Relays : leading[r] => holder = r

LEMMA LeaderPump ==
    ASSUME TypeOK, LeaderInv, NEW r \in Relays, Pump(r) \/ StoreFault(r) \/ Start(r)
    PROVE  LeaderInv'
<1>1. CASE Acquire(r)
  BY <1>1, OutboxAssumption DEF TypeOK, LeaderInv, Acquire, TryAcquire, bounds
<1>2. CASE ~Acquire(r)
  <2>1. UNCHANGED <<leading, holder, losses>>
    BY <1>2 DEF Pump, Tick, LoadCursor, Read, PublishOk, PublishFails, SaveCursor, SaveFailures,
                DeadLetter, SavePast, StoreFault, Start, bounds
  <2> QED BY <2>1 DEF LeaderInv
<1> QED BY <1>1, <1>2

LEMMA LeaderLeaves ==
    ASSUME LeaderKind = "pg", TypeOK, LeaderInv, NEW r \in Relays,
           SessionLost(r) \/ Stop(r) \/ Crash(r)
    PROVE  LeaderInv'
<1>1. CASE SessionLost(r)
  <2>1. losses' # 0
    BY <1>1 DEF SessionLost, TypeOK
  <2> QED BY <2>1 DEF LeaderInv
<1>2. CASE Stop(r) \/ Crash(r)
  <2>1. /\ holder' = IF holder = r THEN NoRelay ELSE holder
        /\ leading' = [leading EXCEPT ![r] = FALSE]
        /\ UNCHANGED losses
    BY <1>2 DEF Stop, Crash, Released
  <2> QED BY <2>1 DEF TypeOK, LeaderInv
<1> QED BY <1>1, <1>2

LEMMA LeaderNext ==
    ASSUME LeaderKind = "pg", TypeOK, LeaderInv, [Next]_vars
    PROVE  LeaderInv'
<1>1. CASE UNCHANGED vars
  BY <1>1 DEF vars, relay, bounds, LeaderInv
<1>2. ASSUME NEW e \in Events, Produce(e) PROVE LeaderInv'
  BY <1>2 DEF Produce, Publish, Append, Commit, Abort, relay, bounds, LeaderInv
<1>3. ASSUME NEW t \in 1 .. clock, DropPartitionsBefore(t) PROVE LeaderInv'
  BY <1>3 DEF DropPartitionsBefore, relay, LeaderInv
<1>4. ASSUME NEW r \in Relays, Pump(r) \/ Environment(r) PROVE LeaderInv'
  BY <1>4, LeaderPump, LeaderLeaves DEF Environment
<1> QED BY <1>1, <1>2, <1>3, <1>4 DEF Next

(* With the advisory lock two replicas never pump at once before a session  *)
(* breaks, whatever stops, dies and starts again: Release frees the lock of *)
(* its own session only, and the flag falls with it (Run, TryAcquire).      *)
THEOREM OneLeader ==
    ASSUME LeaderKind = "pg"
    PROVE  Spec => []SingleLeader
<1>1. Init => TypeOK /\ LeaderInv
  <2>1. Init => LeaderInv
    BY DEF Init, LeaderInv
  <2> QED BY <2>1, TypeInit
<1>2. TypeOK /\ LeaderInv /\ [Next]_vars => TypeOK' /\ LeaderInv'
  BY TypeNext, LeaderNext
<1>3. TypeOK /\ LeaderInv => SingleLeader
  <2> SUFFICES ASSUME TypeOK, LeaderInv, losses = 0
               PROVE  Cardinality({r \in Relays : leading[r]}) <= 1
    BY DEF SingleLeader
  <2> DEFINE Leaders == {r \in Relays : leading[r]}
  <2>1. Leaders \subseteq {holder}
    BY DEF LeaderInv
  <2>2. IsFiniteSet({holder}) /\ Cardinality({holder}) = 1
    BY FS_Singleton
  <2>3. Cardinality(Leaders) <= 1
    BY <2>1, <2>2, FS_Subset
  <2> QED BY <2>3
<1> QED BY <1>1, <1>2, <1>3, PTL DEF Spec
=============================================================================
