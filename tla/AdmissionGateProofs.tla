------------------------- MODULE AdmissionGateProofs ------------------------
(***************************************************************************)
(* Proofs about AdmissionGate, for every set of cells, requests and drains *)
(* and every buffer, number of moves and number of restarts.               *)
(*                                                                         *)
(* What the gate counts is exact, and its cutoff is one, as long as the    *)
(* registry forgets no gate (NeverReset).  That it is a barrier, and       *)
(* aligned with the table, also takes routes that are not deleted and an   *)
(* instance that is not the default cell (RoutesStay): that one admits at  *)
(* epoch 0 whoever has no route, and a deletion starts epochs anew.        *)
(***************************************************************************)
EXTENDS AdmissionGate, TLAPS

RoutesStay == MaxDeletes = 0 /\ ~HereIsDefault

(* The registry never forgets a gate. *)
NeverReset == ~HereIsDefault \/ MaxDeletes = 0

-----------------------------------------------------------------------------
(* The inductive invariant. *)

(* The gate that the registry has. *)
Gate == gates[cur]

Entering == {r \in Requests : rpc[r] = "entering"}

(* The barriers of every drain, whether it has reached its gate or not. *)
AllBars == drained \cup {bar[d] : d \in Drains}

Pending == {watch[i] : i \in 1 .. Len(watch)}

(* An event that opens the gate, and one that closes it. *)
Opening(ev) == ev.source = NoCell /\ ev.active = Here
Closing(ev) == ev.active # Here

(* A move has the route's cell as its source. *)
RouteOK ==
    /\ Resting \/ (source = owner /\ owner \in Cells /\ target \in Cells)
    /\ owner = NoCell <=> epoch = 0
    /\ deletes = 0

(* An event on the channel is a route up to epoch e. *)
EventOK(ev, e) ==
    /\ ~ev.deleted /\ ev.active \in Cells
    /\ ev.source \in {NoCell, ev.active}
    /\ ev.epoch \in Nat /\ ev.epoch <= e

(* The events on the channel are routes of the past, and the last one is    *)
(* the route unless that was dropped.                                       *)
WatchOK ==
    /\ \A ev \in Pending : EventOK(ev, epoch)
    /\ watch # <<>> /\ ~lost => watch[Len(watch)] = Event(owner, epoch, source, FALSE)

Undeleted == MaxDeletes = 0 => \A ev \in Pending : ~ev.deleted

(* Requests and drains are at the gate that the registry has. *)
RefsOK ==
    /\ \A r \in Requests : rpc[r] # "idle" => cur # 0 /\ rgate[r] = cur
    /\ \A d \in Drains : dpc[d] # "idle" => cur # 0 /\ dgate[d] = cur
    /\ cur = 0 => made = 0
    /\ made <= 1

(* Tokens are of the past. *)
TokensOK == \A r \in Admitted : token[r].seq <= Gate.nextSeq

(* A sleeping drain's gate stays shut until it is opened past the barrier,  *)
(* or by an event older than it.                                            *)
CutOK ==
    \A d \in Asleep : Gate.epoch < bar[d] /\ cur \notin ajar => Gate.state # "open"

(* Epochs and barriers are of the past. *)
EpochsOK ==
    /\ \A e \in known : 0 < e /\ e <= epoch
    /\ \A r \in Requests : rpc[r] \in {"entering", "inside"} => token[r].epoch \in known
    /\ cur # 0 => Gate.epoch <= epoch
    /\ \A b \in AllBars : b <= epoch + 1 /\ (Resting => b = 0 \/ b < epoch)

(* The tenant is not here, or a drain of its move has returned clean. *)
Away == owner # Here \/ (~Resting /\ (epoch + 1) \in drained)

(* Whatever epoch a router still believes in is older than a barrier.       *)
Overdue == Away => \A e \in known : \E b \in drained : e < b

(* A gate open at an epoch of the tenant is past every barrier in force,    *)
(* unless a stale event opened it; so is a gate opened lazily.              *)
OpenPast ==
    /\ cur # 0 /\ Gate.state = "open" /\ Gate.epoch > 0 /\ cur \notin ajar =>
          \A b \in Barriers : b <= Gate.epoch
    /\ cur = 0 => \A e \in known, b \in drained : b <= e

(* A handler that came in by such a gate is past every barrier that a drain *)
(* has returned clean for.                                                  *)
InsidePast ==
    \A r \in Inside \ slipped : \A b \in drained : b <= token[r].epoch

(* Before the first announcement there is no gate, and no route. *)
FreshOK == cur = 0 /\ watch = <<>> /\ ~lost => epoch = 0

(* What holds of the gate, whatever the drains, the channel and the table   *)
(* do, and what holds when routes stay.                                     *)
BaseInv == TypeOK /\ Undeleted /\ RefsOK /\ TokensOK /\ InflightExact

CutInv == BaseInv /\ CutOK

GateInv ==
    /\ BaseInv /\ RouteOK /\ WatchOK /\ EpochsOK
    /\ Overdue /\ OpenPast /\ InsidePast /\ FreshOK /\ GateAligned

-----------------------------------------------------------------------------
(* Types. *)

RouteType ==
    /\ owner \in Cells \cup {NoCell} /\ epoch \in Nat
    /\ source \in Cells \cup {NoCell} /\ target \in Cells \cup {NoCell}

ChanType == watch \in Seq(Events) /\ Len(watch) <= Buffer /\ lost \in BOOLEAN

RegType ==
    /\ gates \in [GateIds -> Gates]
    /\ made \in 0 .. (MaxDeletes + 1) /\ cur \in 0 .. made

ReqType ==
    /\ rpc \in [Requests -> {"idle", "entering", "inside", "leaving"}]
    /\ rgate \in [Requests -> 0 .. made]
    /\ token \in [Requests -> [epoch : Nat, seq : Nat]]

DrainType ==
    /\ dpc \in [Drains -> {"idle", "closing", "toWait", "waiting", "woken"}]
    /\ dgate \in [Drains -> 0 .. made]
    /\ bar \in [Drains -> Nat] /\ cutoff \in [Drains -> Nat]
    /\ ctx \in [Drains -> {"live", "done", "told"}]
    /\ result \in [Drains -> {"none", "drained", "forced"}]

HistType ==
    /\ drained \subseteq Nat /\ known \subseteq Nat
    /\ ajar \subseteq GateIds /\ shut \subseteq GateIds /\ slipped \subseteq Requests
    /\ restarts \in Nat /\ deletes \in Nat

LEMMA Constants ==
    /\ NoCell \notin Cells /\ Here \in Cells /\ Here # NoCell
    /\ Buffer \in Nat /\ Buffer > 0 /\ MaxDeletes \in Nat
    /\ MaxSeq \in Nat /\ MaxEpoch \in Nat
BY WatchAssumption, GateAssumption

LEMMA TypeParts ==
    TypeOK <=> RouteType /\ ChanType /\ RegType /\ ReqType /\ DrainType /\ HistType
BY DEF TypeOK, RouteType, ChanType, RegType, ReqType, DrainType, HistType, tenant

LEMMA TypePartsNext ==
    RouteType' /\ ChanType' /\ RegType' /\ ReqType' /\ DrainType' /\ HistType' => TypeOK'
BY TypeParts, PTL

LEMMA GateType ==
    ASSUME RegType, cur # 0
    PROVE  /\ cur \in GateIds /\ Gate \in Gates
           /\ Gate.state \in {"open", "draining", "closed"} /\ Gate.epoch \in Nat
           /\ Gate.nextSeq \in Nat /\ Gate.cutoffSeq \in Nat /\ Gate.inflight \subseteq Nat
<1>1. cur \in GateIds
  BY Constants DEF RegType, GateIds
<1>2. Gate \in Gates
  BY <1>1 DEF RegType, Gate
<1> QED BY <1>1, <1>2 DEF Gates

(* Every new gate has a number. *)
LEMMA FoundType ==
    ASSUME RegType, RefsOK, HistType
    PROVE  /\ Found \in GateIds /\ Found # 0
           /\ Found \in 0 .. (IF cur = 0 THEN made + 1 ELSE made)
           /\ (IF cur = 0 THEN made + 1 ELSE made) \in 0 .. (MaxDeletes + 1)
           /\ made <= (IF cur = 0 THEN made + 1 ELSE made)
<1>1. CASE cur = 0
  BY <1>1, Constants DEF RegType, RefsOK, HistType, Found, GateIds
<1>2. CASE cur # 0
  BY <1>2, Constants DEF RegType, RefsOK, HistType, Found, GateIds
<1> QED BY <1>1, <1>2

LEMMA NewGateType ==
    ASSUME NEW e \in Nat
    PROVE  /\ NewGate(e) \in Gates
           /\ NewGate(e).state = "open" /\ NewGate(e).epoch = e
           /\ NewGate(e).nextSeq = 0 /\ NewGate(e).inflight = {}
BY DEF NewGate, Gates

(* What the operations do to a gate. *)
LEMMA GateOps ==
    ASSUME NEW g \in Gates, NEW e \in Nat
    PROVE  /\ Opened(g, e) \in Gates /\ Draining(g) \in Gates /\ Closed(g) \in Gates
           /\ Opened(g, e).nextSeq = g.nextSeq /\ Opened(g, e).inflight = g.inflight
           /\ e >= g.epoch => Opened(g, e).state = "open" /\ Opened(g, e).epoch = e
           /\ ~(e >= g.epoch) => Opened(g, e) = g
           /\ Draining(g).nextSeq = g.nextSeq /\ Draining(g).inflight = g.inflight
           /\ Draining(g).epoch = g.epoch
           /\ g.state # "closed" => /\ Draining(g).state = "draining"
                                    /\ Draining(g).cutoffSeq = g.nextSeq
           /\ g.state = "closed" => Draining(g) = g
           /\ Draining(g).state # "open"
           /\ Closed(g).nextSeq = g.nextSeq /\ Closed(g).inflight = g.inflight
           /\ Closed(g).epoch = g.epoch /\ Closed(g).state = "closed"
<1>1. CASE e >= g.epoch
  BY <1>1 DEF Opened, Draining, Closed, Gates
<1>2. CASE ~(e >= g.epoch)
  BY <1>2 DEF Opened, Draining, Closed, Gates
<1> QED BY <1>1, <1>2

LEMMA WokenType ==
    ASSUME DrainType, NEW g
    PROVE  /\ Woken(g) \in [Drains -> {"idle", "closing", "toWait", "waiting", "woken"}]
           /\ \A d \in Drains : Woken(g)[d] = dpc[d] \/ (dpc[d] = "waiting" /\ Woken(g)[d] = "woken")
BY DEF Woken, DrainType

-----------------------------------------------------------------------------
(* The channel. *)

LEMMA PendingAppend ==
    ASSUME watch \in Seq(Events), NEW ev \in Events, watch' = Append(watch, ev)
    PROVE  /\ Pending' = Pending \cup {ev} /\ watch' # <<>>
           /\ Len(watch') = Len(watch) + 1 /\ watch'[Len(watch) + 1] = ev
           /\ \A i \in 1 .. Len(watch) : watch'[i] = watch[i]
<1>1. /\ Len(watch') = Len(watch) + 1 /\ watch'[Len(watch) + 1] = ev
      /\ \A i \in 1 .. Len(watch) : watch'[i] = watch[i]
      /\ Len(watch) \in Nat
  OBVIOUS
<1>2. watch' # <<>>
  BY <1>1
<1>3. 1 .. Len(watch') = (1 .. Len(watch)) \cup {Len(watch) + 1}
  BY <1>1
<1>4. Pending' = Pending \cup {ev}
  BY <1>1, <1>3 DEF Pending
<1> QED BY <1>1, <1>2, <1>4

LEMMA PendingTail ==
    ASSUME watch \in Seq(Events), watch # <<>>, watch' = Tail(watch)
    PROVE  /\ Head(watch) \in Pending /\ Head(watch) \in Events /\ Head(watch) = watch[1]
           /\ Pending' \subseteq Pending
           /\ \A x \in Pending : x \in Pending' \/ x = Head(watch)
           /\ watch' \in Seq(Events) /\ Len(watch') = Len(watch) - 1 /\ Len(watch) \in Nat
           /\ Len(watch) >= 1
           /\ \A i \in 1 .. Len(watch') : i + 1 \in 1 .. Len(watch) /\ watch'[i] = watch[i + 1]
<1>1. /\ Len(watch) \in Nat /\ Len(watch) >= 1 /\ Head(watch) = watch[1]
      /\ watch' \in Seq(Events) /\ Len(watch') = Len(watch) - 1
  OBVIOUS
<1>2. \A i \in 1 .. Len(watch') : i + 1 \in 1 .. Len(watch) /\ watch'[i] = watch[i + 1]
  BY <1>1
<1>3. Head(watch) \in Pending /\ Head(watch) \in Events
  BY <1>1 DEF Pending
<1>4. Pending' \subseteq Pending
  BY <1>2 DEF Pending
<1>5. ASSUME NEW x \in Pending, x # Head(watch) PROVE x \in Pending'
  <2>1. PICK i \in 1 .. Len(watch) : x = watch[i]
    BY DEF Pending
  <2>2. i # 1 /\ i - 1 \in 1 .. Len(watch')
    BY <1>1, <1>5, <2>1
  <2>3. x = watch'[i - 1]
    BY <1>2, <2>1, <2>2
  <2> QED BY <2>2, <2>3 DEF Pending
<1> QED BY <1>1, <1>2, <1>3, <1>4, <1>5

(* The event at the head, alone, is the route. *)
LEMMA HeadFirst ==
    ASSUME watch \in Seq(Events), watch # <<>>, watch' = Tail(watch), WatchOK
    PROVE  /\ watch' = <<>> /\ ~lost => Head(watch) = Event(owner, epoch, source, FALSE)
           /\ EventOK(Head(watch), epoch)
<1>1. watch' = <<>> /\ ~lost => Head(watch) = Event(owner, epoch, source, FALSE)
  <2> SUFFICES ASSUME watch' = <<>>, ~lost
               PROVE  Head(watch) = Event(owner, epoch, source, FALSE)
    OBVIOUS
  <2>1. Len(watch) = 1
    BY PendingTail
  <2> QED BY <2>1, PendingTail DEF WatchOK
<1>2. EventOK(Head(watch), epoch)
  BY PendingTail DEF WatchOK
<1> QED BY <1>1, <1>2

-----------------------------------------------------------------------------
(* BaseInv is inductive. *)

(* A step that leaves the table alone. *)
LEMMA QuietTable ==
    ASSUME RouteType, ChanType, Undeleted, UNCHANGED tableVars
    PROVE  RouteType' /\ ChanType' /\ Undeleted' /\ deletes' = deletes
BY DEF RouteType, ChanType, Undeleted, Pending, tableVars, tenant

(* The registry finds a gate, or creates it at epoch e. *)
LEMMA GetOrCreateGate ==
    ASSUME RegType, RefsOK, HistType, NEW e \in Nat, GetOrCreate(e)
    PROVE  /\ RegType' /\ cur' # 0 /\ cur' = Found /\ made <= made' /\ made' \in Nat
           /\ cur # 0 => cur' = cur /\ made' = made /\ Gate' = Gate
           /\ cur = 0 => made' = made + 1 /\ Gate' = NewGate(e)
<1>1. CASE cur = 0
  <2>1. Found \in GateIds /\ cur' = Found /\ made' = made + 1
        /\ gates' = [gates EXCEPT ![Found] = NewGate(e)]
    BY <1>1, FoundType DEF GetOrCreate
  <2>2. gates' \in [GateIds -> Gates] /\ gates'[Found] = NewGate(e)
    BY <2>1, NewGateType DEF RegType
  <2>3. made' \in 0 .. (MaxDeletes + 1) /\ cur' \in 0 .. made' /\ made \in Nat
    BY <1>1, <2>1, FoundType DEF RegType
  <2> QED BY <1>1, <2>1, <2>2, <2>3, FoundType DEF RegType, Gate
<1>2. CASE cur # 0
  BY <1>2 DEF GetOrCreate, Found, RegType, Gate
<1> QED BY <1>1, <1>2

LEMMA TryEnterBase ==
    ASSUME BaseInv, NEW r \in Requests, TryEnter(r)
    PROVE  BaseInv'
<1> USE DEF BaseInv
<1>0. RouteType /\ ChanType /\ RegType /\ ReqType /\ DrainType /\ HistType
  BY TypeParts
<1>1. PICK e \in known : /\ GetOrCreate(e)
                         /\ token' = [token EXCEPT ![r] = [epoch |-> e, seq |-> 0]]
  BY DEF TryEnter
<1>2. /\ rpc[r] = "idle" /\ rgate' = [rgate EXCEPT ![r] = Found]
      /\ rpc' = [rpc EXCEPT ![r] = "entering"]
      /\ UNCHANGED tableVars /\ UNCHANGED <<known, restarts, ajar, shut, slipped>>
      /\ UNCHANGED <<dpc, dgate, bar, cutoff, ctx, result, drained>>
  BY DEF TryEnter, drains, marks
<1>3. e \in Nat
  BY <1>0, <1>1 DEF HistType
<1>4. /\ RegType' /\ cur' # 0 /\ cur' = Found /\ made <= made' /\ made' \in Nat
      /\ cur # 0 => cur' = cur /\ made' = made /\ Gate' = Gate
      /\ cur = 0 => made' = made + 1 /\ Gate' = NewGate(e)
  BY <1>0, <1>1, <1>3, GetOrCreateGate
<1>5. RouteType' /\ ChanType' /\ Undeleted' /\ deletes' = deletes
  BY <1>0, <1>2, QuietTable
<1>6. Admitted' = Admitted /\ (\A q \in Admitted : token'[q] = token[q])
  BY <1>0, <1>1, <1>2 DEF Admitted, ReqType
<1>7. cur = 0 => Admitted = {}
  BY DEF RefsOK, Admitted
<1>8. TypeOK'
  <2>1. 0 .. made \subseteq 0 .. made' /\ Found \in 0 .. made'
    BY <1>0, <1>4 DEF RegType
  <2>2. token' \in [Requests -> [epoch : Nat, seq : Nat]]
    BY <1>0, <1>1, <1>3 DEF ReqType
  <2>3. ReqType' /\ DrainType' /\ HistType'
    BY <1>0, <1>2, <1>5, <2>1, <2>2 DEF ReqType, DrainType, HistType
  <2> QED BY <1>4, <1>5, <2>3, TypePartsNext
<1>9. RefsOK'
  <2>1. ASSUME NEW q \in Requests, rpc'[q] # "idle" PROVE rgate'[q] = cur'
    BY <1>0, <1>2, <1>4, <2>1 DEF RefsOK, ReqType
  <2>2. ASSUME NEW d \in Drains, dpc'[d] # "idle" PROVE dgate'[d] = cur'
    BY <1>2, <1>4, <2>2 DEF RefsOK
  <2>3. made' <= 1
    BY <1>0, <1>4 DEF RefsOK, RegType
  <2> QED BY <1>4, <2>1, <2>2, <2>3 DEF RefsOK
<1>10. TokensOK' /\ InflightExact'
  <2>1. CASE cur = 0
    BY <1>3, <1>4, <1>6, <1>7, <2>1, NewGateType DEF TokensOK, InflightExact, Gate
  <2>2. CASE cur # 0
    BY <1>4, <1>6, <2>2 DEF TokensOK, InflightExact, Gate
  <2> QED BY <2>1, <2>2
<1> QED BY <1>5, <1>8, <1>9, <1>10

LEMMA AdmitBase ==
    ASSUME BaseInv, NEW r \in Requests, Admit(r)
    PROVE  BaseInv'
<1> USE DEF BaseInv
<1>0. RouteType /\ ChanType /\ RegType /\ ReqType /\ DrainType /\ HistType
  BY TypeParts
<1> DEFINE n == Gate.nextSeq + 1
<1>1. cur # 0 /\ rgate[r] = cur /\ rpc[r] = "entering"
  BY DEF Admit, RefsOK
<1>2. /\ gates' = [gates EXCEPT ![cur].nextSeq = n, ![cur].inflight = Gate.inflight \cup {n}]
      /\ token' = [token EXCEPT ![r].seq = n]
      /\ rpc' = [rpc EXCEPT ![r] = "inside"]
      /\ UNCHANGED tableVars /\ UNCHANGED <<cur, made, restarts, known, rgate, ajar, shut>>
      /\ slipped' \in {slipped, slipped \cup {r}}
      /\ UNCHANGED <<dpc, dgate, bar, cutoff, ctx, result, drained>>
  BY <1>1 DEF Admit, Gate, drains
<1>3. /\ cur \in GateIds /\ Gate \in Gates /\ Gate.nextSeq \in Nat
      /\ Gate.inflight \subseteq Nat /\ n \in Nat
  BY <1>0, <1>1, GateType
<1>4. /\ gates' \in [GateIds -> Gates]
      /\ Gate' = [Gate EXCEPT !.nextSeq = n, !.inflight = Gate.inflight \cup {n}]
  BY <1>0, <1>2, <1>3 DEF RegType, Gates, Gate
<1>5. Gate'.nextSeq = n /\ Gate'.inflight = Gate.inflight \cup {n}
  BY <1>3, <1>4 DEF Gates
<1> HIDE DEF n
<1>6. RouteType' /\ ChanType' /\ Undeleted' /\ deletes' = deletes
  BY <1>0, <1>2, QuietTable
<1>7. TypeOK'
  <2>1. ReqType' /\ DrainType' /\ HistType' /\ RegType'
    BY <1>0, <1>2, <1>3, <1>4, <1>6 DEF ReqType, DrainType, HistType, RegType
  <2> QED BY <1>6, <2>1, TypePartsNext
<1>8. /\ Admitted' = Admitted \cup {r} /\ r \notin Admitted
      /\ token'[r].seq = n /\ \A q \in Admitted : token'[q].seq = token[q].seq
  BY <1>0, <1>1, <1>2 DEF Admitted, ReqType
<1>9. \A q \in Admitted : token[q].seq \in Nat /\ token[q].seq <= Gate.nextSeq /\ token[q].seq # n
  BY <1>0, <1>3 DEF TokensOK, Admitted, ReqType, n
<1>10. RefsOK'
  BY <1>0, <1>1, <1>2 DEF RefsOK, ReqType
<1>11. TokensOK'
  BY <1>3, <1>5, <1>8, <1>9 DEF TokensOK, n
<1>12. InflightExact'
  <2>1. Gate.inflight = {token[q].seq : q \in Admitted}
    BY <1>1 DEF InflightExact, Gate
  <2>2. {token'[q].seq : q \in Admitted'} = {token[q].seq : q \in Admitted} \cup {n}
    BY <1>8
  <2>3. \A p, q \in Admitted' : token'[p].seq = token'[q].seq => p = q
    BY <1>8, <1>9 DEF InflightExact
  <2> QED BY <1>5, <2>1, <2>2, <2>3 DEF InflightExact, Gate
<1> QED BY <1>6, <1>7, <1>10, <1>11, <1>12

(* A request is rejected, or its handler has returned. *)
LEMMA RejectLeaveBase ==
    ASSUME BaseInv, NEW r \in Requests, Reject(r) \/ Leave(r)
    PROVE  BaseInv'
<1> USE DEF BaseInv
<1>0. RouteType /\ ChanType /\ RegType /\ ReqType /\ DrainType /\ HistType
  BY TypeParts
<1>1. cur # 0 /\ rgate[r] = cur /\ rpc[r] \in {"entering", "inside"}
  BY DEF Reject, Leave, RefsOK
<1>2. /\ \/ rpc[r] = "entering" /\ Gone(r)
         \/ /\ rpc[r] = "inside" /\ rpc' = [rpc EXCEPT ![r] = "leaving"]
            /\ rgate' = [rgate EXCEPT ![r] = cur] /\ token' = token
      /\ UNCHANGED tableVars /\ UNCHANGED <<gates, cur, made, restarts, known, ajar, shut>>
      /\ slipped' \in {slipped, slipped \ {r}}
      /\ UNCHANGED <<dpc, dgate, bar, cutoff, ctx, result, drained>>
  BY <1>1 DEF Reject, Leave, registry, drains, marks
<1>3. RouteType' /\ ChanType' /\ Undeleted' /\ deletes' = deletes
  BY <1>0, <1>2, QuietTable
<1>4. /\ ReqType' /\ Admitted' = Admitted
      /\ \A q \in Admitted : token'[q] = token[q]
      /\ \A q \in Requests : rpc'[q] # "idle" => rpc[q] # "idle" /\ rgate'[q] = rgate[q]
  <2>1. CASE rpc[r] = "entering" /\ Gone(r)
    BY <1>0, <1>2, <2>1 DEF Gone, NoToken, ReqType, RegType, Admitted
  <2>2. CASE /\ rpc[r] = "inside" /\ rpc' = [rpc EXCEPT ![r] = "leaving"]
             /\ rgate' = [rgate EXCEPT ![r] = cur] /\ token' = token
    BY <1>0, <1>1, <1>2, <2>2 DEF ReqType, RegType, Admitted
  <2> QED BY <1>2, <2>1, <2>2
<1>5. TypeOK'
  <2>1. DrainType' /\ HistType' /\ RegType'
    BY <1>0, <1>2, <1>3 DEF DrainType, HistType, RegType
  <2> QED BY <1>3, <1>4, <2>1, TypePartsNext
<1>6. RefsOK'
  BY <1>2, <1>4 DEF RefsOK
<1>7. TokensOK' /\ InflightExact'
  BY <1>2, <1>4 DEF TokensOK, InflightExact, Gate
<1> QED BY <1>3, <1>5, <1>6, <1>7

(* Waking drains up changes nothing that the invariant depends on. *)
LEMMA WokenKeeps ==
    ASSUME DrainType, RefsOK, NEW g, dpc' = Woken(g) \/ dpc' = dpc,
           UNCHANGED <<dgate, bar, drained, cur, made>>
    PROVE  /\ dpc' \in [Drains -> {"idle", "closing", "toWait", "waiting", "woken"}]
           /\ Asleep' = Asleep /\ Barriers' = Barriers /\ AllBars' = AllBars
           /\ \A d \in Drains : dpc'[d] # "idle" => cur' # 0 /\ dgate'[d] = cur'
<1>1. /\ dpc' \in [Drains -> {"idle", "closing", "toWait", "waiting", "woken"}]
      /\ \A d \in Drains : dpc'[d] = dpc[d] \/ (dpc[d] = "waiting" /\ dpc'[d] = "woken")
  <2>1. CASE dpc' = Woken(g)
    BY <2>1, WokenType
  <2>2. CASE dpc' = dpc
    BY <2>2 DEF DrainType
  <2> QED BY <2>1, <2>2
<1>2. Asleep' = Asleep /\ Barriers' = Barriers /\ AllBars' = AllBars
  BY <1>1 DEF Asleep, Barriers, AllBars
<1> QED BY <1>1, <1>2 DEF RefsOK

LEMMA ReleaseBase ==
    ASSUME BaseInv, NEW r \in Requests, Release(r)
    PROVE  BaseInv'
<1> USE DEF BaseInv
<1>0. RouteType /\ ChanType /\ RegType /\ ReqType /\ DrainType /\ HistType
  BY TypeParts
<1> DEFINE left == Gate.inflight \ {token[r].seq}
<1>1. cur # 0 /\ rpc[r] = "leaving" /\ rgate[r] = cur /\ r \in Admitted
  BY DEF Release, RefsOK, Admitted
<1>2. /\ gates' = [gates EXCEPT ![cur].inflight = left]
      /\ dpc' = Woken(cur) \/ dpc' = dpc
      /\ rpc' = [rpc EXCEPT ![r] = "idle"] /\ rgate' = [rgate EXCEPT ![r] = 0]
      /\ token' = [token EXCEPT ![r] = NoToken]
      /\ UNCHANGED tableVars /\ UNCHANGED <<cur, made, restarts, known, ajar, shut, slipped>>
      /\ UNCHANGED <<dgate, bar, cutoff, ctx, result, drained>>
  BY <1>1 DEF Release, Left, Gate, Gone, marks
<1>3. cur \in GateIds /\ Gate \in Gates /\ Gate.inflight \subseteq Nat
  BY <1>0, <1>1, GateType
<1>4. gates' \in [GateIds -> Gates] /\ Gate' = [Gate EXCEPT !.inflight = left]
  BY <1>0, <1>2, <1>3 DEF RegType, Gates, Gate
<1>5. Gate'.nextSeq = Gate.nextSeq /\ Gate'.inflight = left
  BY <1>3, <1>4 DEF Gates
<1>6. /\ dpc' \in [Drains -> {"idle", "closing", "toWait", "waiting", "woken"}]
      /\ \A d \in Drains : dpc'[d] # "idle" => cur' # 0 /\ dgate'[d] = cur'
  BY <1>0, <1>2, WokenKeeps
<1>7. RouteType' /\ ChanType' /\ Undeleted' /\ deletes' = deletes
  BY <1>0, <1>2, QuietTable
<1>8. TypeOK'
  <2>1. ReqType'
    BY <1>0, <1>2 DEF ReqType, RegType, NoToken
  <2>2. DrainType' /\ HistType' /\ RegType'
    BY <1>0, <1>2, <1>4, <1>6, <1>7 DEF DrainType, HistType, RegType
  <2> QED BY <1>7, <2>1, <2>2, TypePartsNext
<1>9. Admitted' = Admitted \ {r} /\ \A q \in Admitted \ {r} : token'[q] = token[q]
  BY <1>0, <1>1, <1>2 DEF Admitted, ReqType
<1>10. RefsOK'
  BY <1>0, <1>1, <1>2, <1>6 DEF RefsOK, ReqType
<1>11. TokensOK'
  BY <1>5, <1>9 DEF TokensOK
<1>12. InflightExact'
  <2>1. Gate.inflight = {token[q].seq : q \in Admitted}
    BY <1>1 DEF InflightExact, Gate
  <2>2. \A q \in Admitted : token[q].seq = token[r].seq => q = r
    BY <1>1 DEF InflightExact
  <2>3. left = {token'[q].seq : q \in Admitted'}
    BY <1>9, <2>1, <2>2
  <2>4. \A p, q \in Admitted' : token'[p].seq = token'[q].seq => p = q
    BY <1>9 DEF InflightExact
  <2> QED BY <1>5, <2>3, <2>4 DEF InflightExact, Gate
<1> QED BY <1>7, <1>8, <1>10, <1>11, <1>12

LEMMA CloseAndDrainBase ==
    ASSUME BaseInv, NEW d \in Drains, CloseAndDrain(d)
    PROVE  BaseInv'
<1> USE DEF BaseInv
<1>0. RouteType /\ ChanType /\ RegType /\ ReqType /\ DrainType /\ HistType
  BY TypeParts
<1>1. /\ dpc[d] = "idle" /\ GetOrCreate(0)
      /\ dgate' = [dgate EXCEPT ![d] = Found] /\ bar' = [bar EXCEPT ![d] = epoch + 1]
      /\ ctx' = [ctx EXCEPT ![d] = "live"] /\ result' = [result EXCEPT ![d] = "none"]
      /\ dpc' = [dpc EXCEPT ![d] = "closing"]
      /\ UNCHANGED tableVars /\ UNCHANGED <<ajar, shut, slipped>>
      /\ UNCHANGED <<rpc, rgate, token, cutoff, drained, known, restarts>>
  BY DEF CloseAndDrain, requests, marks
<1>2. /\ RegType' /\ cur' # 0 /\ cur' = Found /\ made <= made' /\ made' \in Nat
      /\ cur # 0 => cur' = cur /\ made' = made /\ Gate' = Gate
      /\ cur = 0 => made' = made + 1 /\ Gate' = NewGate(0)
  BY <1>0, <1>1, GetOrCreateGate
<1>3. RouteType' /\ ChanType' /\ Undeleted' /\ deletes' = deletes
  BY <1>0, <1>1, QuietTable
<1>4. Admitted' = Admitted /\ (cur = 0 => Admitted = {})
  BY <1>1 DEF Admitted, RefsOK
<1>5. TypeOK'
  <2>1. 0 .. made \subseteq 0 .. made' /\ Found \in 0 .. made' /\ epoch + 1 \in Nat
    BY <1>0, <1>2 DEF RegType, RouteType
  <2>2. ReqType' /\ DrainType' /\ HistType'
    BY <1>0, <1>1, <1>3, <2>1 DEF ReqType, DrainType, HistType
  <2> QED BY <1>2, <1>3, <2>2, TypePartsNext
<1>6. RefsOK'
  <2>1. ASSUME NEW q \in Requests, rpc'[q] # "idle" PROVE rgate'[q] = cur'
    BY <1>1, <1>2, <2>1 DEF RefsOK
  <2>2. ASSUME NEW x \in Drains, dpc'[x] # "idle" PROVE dgate'[x] = cur'
    BY <1>0, <1>1, <1>2, <2>2 DEF RefsOK, DrainType
  <2>3. made' <= 1
    BY <1>0, <1>2 DEF RefsOK, RegType
  <2> QED BY <1>2, <2>1, <2>2, <2>3 DEF RefsOK
<1>7. TokensOK' /\ InflightExact'
  <2>1. CASE cur = 0
    BY <1>2, <1>4, <2>1, NewGateType, 0 \in Nat DEF TokensOK, InflightExact, Gate
  <2>2. CASE cur # 0
    BY <1>1, <1>2, <1>4, <2>2 DEF TokensOK, InflightExact, Gate
  <2> QED BY <2>1, <2>2
<1> QED BY <1>3, <1>5, <1>6, <1>7

(* A drain that goes on sleeping, or returns: clean only from an empty gate. *)
LEMMA WaitOrReturnDoes ==
    ASSUME DrainType, NEW d \in Drains, NEW g, NEW c \in Nat, WaitOrReturn(d, g, c)
    PROVE  /\ dpc' \in [Drains -> {"idle", "closing", "toWait", "waiting", "woken"}]
           /\ dgate' \in [Drains -> {0} \cup {dgate[x] : x \in Drains}]
           /\ bar' \in [Drains -> Nat] /\ cutoff' \in [Drains -> Nat]
           /\ ctx' \in [Drains -> {"live", "done", "told"}]
           /\ result' \in [Drains -> {"none", "drained", "forced"}]
           /\ \A x \in Drains : x # d => /\ dpc'[x] = dpc[x] /\ result'[x] = result[x]
                                        /\ bar'[x] = bar[x] /\ dgate'[x] = dgate[x]
           /\ dpc'[d] # "idle" => /\ g.inflight # {} /\ bar'[d] = bar[d]
                                  /\ dgate'[d] = dgate[d]
           /\ \/ drained' = drained /\ (result'[d] = "drained" => result[d] = "drained")
              \/ g.inflight = {} /\ drained' = drained \cup {bar[d]}
           /\ \A b \in AllBars' : b \in AllBars \/ b = 0
           /\ Asleep' \subseteq Asleep \cup {d}
           /\ Barriers' \subseteq Barriers \cup {bar[d]}
<1>1. CASE g.inflight # {} /\ ctx[d] = "live"
  <2>1. /\ dpc' = [dpc EXCEPT ![d] = "toWait"] /\ cutoff' = [cutoff EXCEPT ![d] = c]
        /\ UNCHANGED <<dgate, bar, ctx, result, drained>>
    BY <1>1 DEF WaitOrReturn
  <2>2. Asleep' \subseteq Asleep \cup {d} /\ AllBars' = AllBars
    BY <2>1 DEF DrainType, Asleep, AllBars
  <2>3. Barriers' \subseteq Barriers \cup {bar[d]}
    BY <2>1, <2>2 DEF Barriers
  <2> QED BY <1>1, <2>1, <2>2, <2>3 DEF DrainType
<1>2. CASE ~(g.inflight # {} /\ ctx[d] = "live")
  <2>1. /\ dpc' = [dpc EXCEPT ![d] = "idle"] /\ dgate' = [dgate EXCEPT ![d] = 0]
        /\ bar' = [bar EXCEPT ![d] = 0] /\ cutoff' = [cutoff EXCEPT ![d] = 0]
        /\ ctx' = [ctx EXCEPT ![d] = "live"]
        /\ result' = [result EXCEPT ![d] = IF CutDrained(g) THEN "drained" ELSE "forced"]
        /\ drained' = IF CutDrained(g) THEN drained \cup {bar[d]} ELSE drained
    BY <1>2 DEF WaitOrReturn
  <2>2. /\ dpc' \in [Drains -> {"idle", "closing", "toWait", "waiting", "woken"}]
        /\ dgate' \in [Drains -> {0} \cup {dgate[x] : x \in Drains}]
        /\ bar' \in [Drains -> Nat] /\ cutoff' \in [Drains -> Nat]
        /\ ctx' \in [Drains -> {"live", "done", "told"}]
        /\ result' \in [Drains -> {"none", "drained", "forced"}]
        /\ dpc'[d] = "idle" /\ bar'[d] = 0
        /\ \A x \in Drains : x # d => /\ dpc'[x] = dpc[x] /\ result'[x] = result[x]
                                     /\ bar'[x] = bar[x] /\ dgate'[x] = dgate[x]
    BY <2>1 DEF DrainType
  <2>3. \/ drained' = drained /\ (result'[d] = "drained" => result[d] = "drained")
        \/ g.inflight = {} /\ drained' = drained \cup {bar[d]}
    BY <2>1 DEF DrainType, CutDrained
  <2>4. Asleep' \subseteq Asleep /\ d \notin Asleep'
    BY <2>2 DEF Asleep
  <2>5. Barriers' \subseteq Barriers \cup {bar[d]}
    <3>1. \A x \in Asleep' : x \in Asleep /\ bar'[x] = bar[x]
      BY <2>2, <2>4 DEF Asleep
    <3> QED BY <2>3, <3>1 DEF Barriers
  <2>6. \A b \in AllBars' : b \in AllBars \/ b = 0
    BY <2>2, <2>3 DEF AllBars
  <2> QED BY <2>2, <2>3, <2>4, <2>5, <2>6
<1> QED BY <1>1, <1>2

(* A drain shuts the gate, or looks at it again. *)
LEMMA DrainDoes ==
    ASSUME BaseInv, NEW d \in Drains, CloseForBarrier(d) \/ Recheck(d)
    PROVE  /\ cur # 0 /\ dgate[d] = cur /\ dpc[d] # "idle"
           /\ UNCHANGED tableVars
           /\ UNCHANGED <<cur, made, rpc, rgate, token, known, restarts, slipped>>
           /\ ajar' \subseteq ajar /\ shut \subseteq shut' /\ shut' \subseteq shut \cup {cur}
           /\ \E g \in Gates, c \in Nat :
                 /\ g.inflight = Gate.inflight /\ g.nextSeq = Gate.nextSeq
                 /\ g.epoch = Gate.epoch /\ WaitOrReturn(d, g, c)
                 /\ gates' = [gates EXCEPT ![cur] = g] /\ Gate' = g
                 /\ \/ CloseForBarrier(d) /\ g = Draining(Gate)
                    \/ Recheck(d) /\ g = Gate /\ UNCHANGED <<ajar, shut>>
<1> USE DEF BaseInv
<1>0. RouteType /\ ChanType /\ RegType /\ ReqType /\ DrainType /\ HistType
  BY TypeParts
<1>1. cur # 0 /\ dgate[d] = cur /\ dpc[d] # "idle"
  BY DEF CloseForBarrier, Recheck, RefsOK
<1>2. Gate \in Gates /\ cur \in GateIds
  BY <1>0, <1>1, GateType
<1>3. CASE CloseForBarrier(d)
  <2> DEFINE g0 == Draining(Gate)
  <2>1. /\ gates' = [gates EXCEPT ![cur] = g0] /\ WaitOrReturn(d, g0, g0.cutoffSeq)
        /\ UNCHANGED tableVars
        /\ UNCHANGED <<cur, made, rpc, rgate, token, known, restarts, slipped>>
        /\ ajar' = ajar \ {cur} /\ shut' \in {shut, shut \cup {cur}}
    BY <1>1, <1>3 DEF CloseForBarrier, Gate, requests
  <2>2. /\ g0 \in Gates /\ g0.inflight = Gate.inflight /\ g0.nextSeq = Gate.nextSeq
        /\ g0.epoch = Gate.epoch /\ g0 = Draining(Gate)
    BY <1>2, GateOps, 0 \in Nat
  <2> HIDE DEF g0
  <2>3. g0.cutoffSeq \in Nat
    BY <2>2 DEF Gates
  <2>4. Gate' = g0
    BY <1>0, <1>2, <2>1 DEF RegType, Gate
  <2> QED BY <1>1, <1>3, <2>1, <2>2, <2>3, <2>4
<1>4. CASE Recheck(d)
  <2>1. /\ WaitOrReturn(d, Gate, cutoff[d]) /\ UNCHANGED tableVars /\ gates' = gates
        /\ UNCHANGED <<cur, made, rpc, rgate, token, known, restarts, ajar, shut, slipped>>
    BY <1>1, <1>4 DEF Recheck, Gate, requests, registry, marks
  <2>2. gates' = [gates EXCEPT ![cur] = Gate] /\ cutoff[d] \in Nat /\ Gate' = Gate
    BY <1>0, <1>2, <2>1 DEF RegType, Gate, DrainType
  <2> QED BY <1>1, <1>2, <1>4, <2>1, <2>2
<1> QED BY <1>1, <1>3, <1>4

LEMMA DrainBase ==
    ASSUME BaseInv, NEW d \in Drains, CloseForBarrier(d) \/ Recheck(d)
    PROVE  /\ BaseInv'
           /\ \A x \in Drains : result[x] # "drained" /\ result'[x] = "drained" => Gate.inflight = {}
<1> USE DEF BaseInv
<1>0. RouteType /\ ChanType /\ RegType /\ ReqType /\ DrainType /\ HistType
  BY TypeParts
<1>1. /\ cur # 0 /\ dgate[d] = cur /\ dpc[d] # "idle"
      /\ UNCHANGED tableVars
      /\ UNCHANGED <<cur, made, rpc, rgate, token, known, restarts, slipped>>
      /\ ajar' \subseteq ajar /\ shut' \subseteq shut \cup {cur}
  BY DrainDoes
<1>2. PICK g \in Gates, c \in Nat :
         /\ g.inflight = Gate.inflight /\ g.nextSeq = Gate.nextSeq
         /\ WaitOrReturn(d, g, c)
         /\ gates' = [gates EXCEPT ![cur] = g] /\ Gate' = g
  BY DrainDoes
<1>3. /\ dpc' \in [Drains -> {"idle", "closing", "toWait", "waiting", "woken"}]
      /\ dgate' \in [Drains -> {0} \cup {dgate[x] : x \in Drains}]
      /\ bar' \in [Drains -> Nat] /\ cutoff' \in [Drains -> Nat]
      /\ ctx' \in [Drains -> {"live", "done", "told"}]
      /\ result' \in [Drains -> {"none", "drained", "forced"}]
      /\ \A x \in Drains : x # d => /\ dpc'[x] = dpc[x] /\ result'[x] = result[x]
                                   /\ dgate'[x] = dgate[x]
      /\ dpc'[d] # "idle" => dgate'[d] = dgate[d]
      /\ \/ drained' = drained /\ (result'[d] = "drained" => result[d] = "drained")
         \/ g.inflight = {} /\ drained' = drained \cup {bar[d]}
  BY <1>0, <1>2, WaitOrReturnDoes
<1>4. RouteType' /\ ChanType' /\ Undeleted' /\ deletes' = deletes
  BY <1>0, <1>1, QuietTable
<1>5. TypeOK'
  <2>1. drained' \subseteq Nat
    <3>1. bar[d] \in Nat /\ drained \subseteq Nat
      BY <1>0 DEF DrainType, HistType
    <3> QED BY <1>3, <3>1
  <2>2. {0} \cup {dgate[x] : x \in Drains} \subseteq 0 .. made /\ made' = made
    BY <1>0, <1>1 DEF DrainType, RegType
  <2>3. DrainType'
    BY <1>3, <2>2 DEF DrainType
  <2>4. cur \in GateIds
    BY <1>0, <1>1, GateType
  <2>5. RegType' /\ ReqType' /\ HistType'
    BY <1>0, <1>1, <1>2, <1>4, <2>1, <2>4 DEF RegType, ReqType, HistType
  <2> QED BY <1>4, <2>3, <2>5, TypePartsNext
<1>6. RefsOK'
  BY <1>1, <1>3 DEF RefsOK
<1>7. TokensOK' /\ InflightExact'
  <2>1. Admitted' = Admitted
    BY <1>1 DEF Admitted
  <2> QED BY <1>1, <1>2, <2>1 DEF TokensOK, InflightExact, Gate
<1>8. \A x \in Drains : result[x] # "drained" /\ result'[x] = "drained" => Gate.inflight = {}
  BY <1>2, <1>3
<1> QED BY <1>4, <1>5, <1>6, <1>7, <1>8

(* A drain registers as a waiter, or its deadline passes and is broadcast. *)
LEMMA SleeperBase ==
    ASSUME BaseInv, NEW d \in Drains, Wait(d) \/ CtxDone(d) \/ CtxBroadcast(d)
    PROVE  BaseInv'
<1> USE DEF BaseInv
<1>0. RouteType /\ ChanType /\ RegType /\ ReqType /\ DrainType /\ HistType
  BY TypeParts
<1>1. /\ UNCHANGED tableVars
      /\ UNCHANGED <<gates, cur, made, rpc, rgate, token, dgate, bar, cutoff, result, drained,
                     known, restarts, ajar, shut, slipped>>
  BY DEF Wait, CtxDone, CtxBroadcast, registry, requests, marks
<1>2. ctx' \in [Drains -> {"live", "done", "told"}]
  BY <1>0 DEF Wait, CtxDone, CtxBroadcast, DrainType
<1>3. /\ dpc' \in [Drains -> {"idle", "closing", "toWait", "waiting", "woken"}]
      /\ \A x \in Drains : dpc'[x] # "idle" => cur' # 0 /\ dgate'[x] = cur'
  <2>1. CASE Wait(d)
    BY <1>0, <1>1, <2>1 DEF Wait, DrainType, RefsOK
  <2>2. CASE CtxDone(d) \/ CtxBroadcast(d)
    <3>1. dpc' = Woken(dgate[d]) \/ dpc' = dpc
      BY <2>2 DEF CtxDone, CtxBroadcast
    <3> QED BY <1>0, <1>1, <3>1, WokenKeeps
  <2> QED BY <2>1, <2>2
<1>4. RouteType' /\ ChanType' /\ Undeleted' /\ deletes' = deletes
  BY <1>0, <1>1, QuietTable
<1>5. TypeOK'
  <2>1. RegType' /\ ReqType' /\ DrainType' /\ HistType'
    BY <1>0, <1>1, <1>2, <1>3, <1>4 DEF RegType, ReqType, DrainType, HistType
  <2> QED BY <1>4, <2>1, TypePartsNext
<1>6. RefsOK' /\ TokensOK' /\ InflightExact'
  BY <1>1, <1>3 DEF RefsOK, TokensOK, InflightExact, Gate, Admitted
<1> QED BY <1>4, <1>5, <1>6

LEMMA CurrentType ==
    ASSUME RegType, NEW e \in Nat
    PROVE  /\ Current(e) \in Gates
           /\ cur # 0 => Current(e) = Gate
           /\ cur = 0 => Current(e) = NewGate(e)
<1>1. CASE cur = 0
  BY <1>1, NewGateType DEF Current
<1>2. CASE cur # 0
  BY <1>2, GateType DEF Current, Gate
<1> QED BY <1>1, <1>2

LEMMA StoreDoes ==
    ASSUME RegType, RefsOK, HistType, NEW g \in Gates, NEW wakes \in BOOLEAN, Store(g, wakes)
    PROVE  /\ RegType' /\ cur' # 0 /\ Gate' = g /\ made <= made' /\ made' \in Nat
           /\ cur # 0 => cur' = cur /\ made' = made
           /\ cur = 0 => made' = made + 1
           /\ dpc' = Woken(Found) \/ dpc' = dpc
<1>1. /\ Found \in GateIds /\ gates' = [gates EXCEPT ![Found] = g]
      /\ cur' = Found /\ made' = (IF cur = 0 THEN made + 1 ELSE made)
      /\ dpc' = Woken(Found) \/ dpc' = dpc
  BY FoundType DEF Store
<1>2. gates' \in [GateIds -> Gates] /\ gates'[Found] = g
  BY <1>1 DEF RegType
<1>3. /\ made' \in 0 .. (MaxDeletes + 1) /\ cur' \in 0 .. made'
      /\ cur' # 0 /\ made <= made'
  BY <1>1, FoundType
<1>4. made' \in Nat
  BY <1>3, Constants
<1> QED BY <1>1, <1>2, <1>3, <1>4 DEF RegType, Gate, Found

(* What the controller stores keeps the admissions of the gate. *)
LEMMA ReconcileKeeps ==
    ASSUME RegType, NEW ev \in Events, Reconcile(ev) \/ (~HereIsDefault /\ Deleted)
    PROVE  \/ UNCHANGED <<registry, dpc>>
           \/ \E g \in Gates, wakes \in BOOLEAN :
                 /\ Store(g, wakes)
                 /\ cur # 0 => g.nextSeq = Gate.nextSeq /\ g.inflight = Gate.inflight
                 /\ cur = 0 => g.inflight = {}
<1>1. ev.epoch \in Nat /\ 0 \in Nat
  BY DEF Events
<1>2. ASSUME NEW e \in Nat, NEW g, g \in {Draining(Current(e)), Opened(Current(e), e), Closed(Current(e))}
      PROVE  /\ g \in Gates
             /\ cur # 0 => g.nextSeq = Gate.nextSeq /\ g.inflight = Gate.inflight
             /\ cur = 0 => g.inflight = {}
  <2> DEFINE c == Current(e)
  <2>1. c \in Gates /\ (cur # 0 => c = Gate) /\ (cur = 0 => c = NewGate(e) /\ c.inflight = {})
    BY CurrentType, NewGateType
  <2> HIDE DEF c
  <2>2. g \in Gates /\ g.nextSeq = c.nextSeq /\ g.inflight = c.inflight
    BY <1>2, <2>1, GateOps DEF c
  <2> QED BY <2>1, <2>2
<1>3. CASE ~HereIsDefault /\ Deleted
  <2>1. Store(Closed(Current(0)), TRUE)
    BY <1>3 DEF Deleted
  <2> QED BY <1>1, <1>2, <2>1
<1>4. CASE Reconcile(ev)
  <2>1. \/ Store(Draining(Current(0)), FALSE)
        \/ Store(Opened(Current(ev.epoch), ev.epoch), FALSE)
        \/ Store(Closed(Current(0)), TRUE)
        \/ UNCHANGED <<registry, dpc>>
    <3>1. CASE ev.source = Here
      BY <1>4, <3>1, Constants DEF Reconcile
    <3>2. CASE ev.source = NoCell /\ ev.active = Here
      BY <1>4, <3>2, Constants DEF Reconcile
    <3>3. CASE ev.source # Here /\ ev.active \notin {Here, NoCell}
      BY <1>4, <3>3 DEF Reconcile
    <3>4. CASE ev.source # Here /\ ev.active = Here /\ ev.source # NoCell
      BY <1>4, <3>4 DEF Reconcile
    <3>5. CASE ev.source # Here /\ ev.active = NoCell
      BY <1>4, <3>5, Constants DEF Reconcile
    <3> QED BY <3>1, <3>2, <3>3, <3>4, <3>5
  <2>2. CASE Store(Draining(Current(0)), FALSE)
    BY <1>1, <1>2, <2>2
  <2>3. CASE Store(Opened(Current(ev.epoch), ev.epoch), FALSE)
    BY <1>1, <1>2, <2>3
  <2>4. CASE Store(Closed(Current(0)), TRUE)
    BY <1>1, <1>2, <2>4
  <2> QED BY <2>1, <2>2, <2>3, <2>4
<1> QED BY <1>3, <1>4

LEMMA ObserveBase ==
    ASSUME NeverReset, BaseInv, Observe
    PROVE  BaseInv'
<1> USE DEF BaseInv
<1>0. RouteType /\ ChanType /\ RegType /\ ReqType /\ DrainType /\ HistType
  BY TypeParts
<1>1. /\ watch # <<>> /\ watch' = Tail(watch) /\ watch \in Seq(Events)
      /\ UNCHANGED <<owner, epoch, source, target, lost, deletes>>
      /\ UNCHANGED <<rpc, rgate, token, dgate, bar, cutoff, ctx, result, drained, known, restarts>>
      /\ slipped' = slipped /\ ajar' \subseteq ajar \cup {Found} /\ shut' \subseteq shut
  BY <1>0 DEF Observe, tenant, requests, ChanType
<1>2. /\ Head(watch) \in Pending /\ Head(watch) \in Events /\ Pending' \subseteq Pending
      /\ watch' \in Seq(Events) /\ Len(watch') = Len(watch) - 1 /\ Len(watch) \in Nat
  BY <1>1, PendingTail
<1>3. RouteType' /\ ChanType' /\ Undeleted'
  BY <1>0, <1>1, <1>2, Constants DEF RouteType, ChanType, Undeleted
<1>4. Reconcile(Head(watch)) \/ (~HereIsDefault /\ Deleted)
  <2>1. CASE Head(watch).deleted
    BY <1>2, <2>1 DEF Observe, Undeleted, NeverReset
  <2>2. CASE ~Head(watch).deleted
    BY <2>2 DEF Observe
  <2> QED BY <2>1, <2>2
<1>5. /\ RegType' /\ made <= made' /\ made' \in Nat
      /\ cur # 0 => cur' = cur /\ made' = made /\ Gate'.nextSeq = Gate.nextSeq /\ Gate'.inflight = Gate.inflight
      /\ cur = 0 => /\ (cur' = 0 /\ made' = made) \/ (cur' # 0 /\ made' = made + 1)
                    /\ cur' # 0 => Gate'.inflight = {}
      /\ dpc' = Woken(Found) \/ dpc' = dpc
  <2>1. CASE UNCHANGED <<registry, dpc>>
    BY <1>0, <2>1 DEF registry, RegType, Gate
  <2>2. ASSUME NEW g \in Gates, NEW wakes \in BOOLEAN, Store(g, wakes),
               cur # 0 => g.nextSeq = Gate.nextSeq /\ g.inflight = Gate.inflight,
               cur = 0 => g.inflight = {}
        PROVE  <1>5!:
    BY <1>0, <2>2, StoreDoes
  <2> QED BY <1>0, <1>2, <1>4, <2>1, <2>2, ReconcileKeeps
<1>6. /\ dpc' \in [Drains -> {"idle", "closing", "toWait", "waiting", "woken"}]
      /\ \A d \in Drains : dpc'[d] = dpc[d] \/ (dpc[d] = "waiting" /\ dpc'[d] = "woken")
  <2>1. CASE dpc' = dpc
    BY <1>0, <2>1 DEF DrainType
  <2>2. CASE dpc' = Woken(Found)
    BY <1>0, <2>2, WokenType
  <2> QED BY <1>5, <2>1, <2>2
<1>7. TypeOK'
  <2>1. 0 .. made \subseteq 0 .. made'
    BY <1>0, <1>5 DEF RegType
  <2>2. ReqType' /\ DrainType' /\ HistType'
    BY <1>0, <1>1, <1>6, <2>1, FoundType DEF ReqType, DrainType, HistType
  <2> QED BY <1>3, <1>5, <2>2, TypePartsNext
<1>8. RefsOK'
  <2>1. ASSUME NEW q \in Requests, rpc'[q] # "idle" PROVE cur' # 0 /\ rgate'[q] = cur'
    BY <1>1, <1>5, <2>1 DEF RefsOK
  <2>2. ASSUME NEW x \in Drains, dpc'[x] # "idle" PROVE cur' # 0 /\ dgate'[x] = cur'
    BY <1>1, <1>5, <1>6, <2>2 DEF RefsOK
  <2>3. made' <= 1 /\ (cur' = 0 => made' = 0)
    BY <1>0, <1>5 DEF RefsOK, RegType
  <2> QED BY <2>1, <2>2, <2>3 DEF RefsOK
<1>9. TokensOK' /\ InflightExact'
  <2>1. Admitted' = Admitted /\ (cur = 0 => Admitted = {})
    BY <1>1 DEF Admitted, RefsOK
  <2>2. CASE cur = 0
    BY <1>5, <2>1, <2>2 DEF TokensOK, InflightExact, Gate
  <2>3. CASE cur # 0
    BY <1>1, <1>5, <2>1, <2>3 DEF TokensOK, InflightExact, Gate
  <2> QED BY <2>2, <2>3
<1> QED BY <1>3, <1>7, <1>8, <1>9

(* The table changes, and its channel takes or drops the event. *)
LEMMA TableBase ==
    ASSUME BaseInv, TableStep
    PROVE  BaseInv'
<1> USE DEF BaseInv
<1>0. RouteType /\ ChanType /\ RegType /\ ReqType /\ DrainType /\ HistType
  BY TypeParts
<1>1. /\ UNCHANGED <<gates, made, cur, rpc, rgate, token>>
      /\ UNCHANGED <<dpc, dgate, bar, cutoff, ctx, result, drained, restarts>>
      /\ UNCHANGED <<ajar, shut, slipped>>
  BY DEF TableStep, registry, requests, drains, marks
<1>2. /\ RouteType' /\ deletes' \in Nat
      /\ \E ev \in Events : Broadcast(ev) /\ (MaxDeletes = 0 => ~ev.deleted)
  <2>1. ASSUME NEW c \in Cells, Place(c) PROVE <1>2!:
    <3>1. /\ owner' = c /\ epoch' = 1 /\ source' = source /\ target' = target
          /\ Broadcast(Event(c, 1, NoCell, FALSE)) /\ deletes' = deletes
      BY <2>1 DEF Place, Table!Place
    <3>2. Event(c, 1, NoCell, FALSE) \in Events /\ ~Event(c, 1, NoCell, FALSE).deleted
      BY DEF Event, Events
    <3> QED BY <1>0, <3>1, <3>2 DEF RouteType, HistType
  <2>2. ASSUME NEW c \in Cells, BeginMove(c) PROVE <1>2!:
    <3>1. /\ owner' = owner /\ epoch' = epoch /\ source' = owner /\ target' = c
          /\ Broadcast(Event(owner, epoch, owner, FALSE)) /\ deletes' = deletes
      BY <2>2 DEF BeginMove, Table!Begin
    <3>2. /\ Event(owner, epoch, owner, FALSE) \in Events
          /\ ~Event(owner, epoch, owner, FALSE).deleted
      BY <1>0 DEF Event, Events, RouteType
    <3> QED BY <1>0, <3>1, <3>2 DEF RouteType, HistType
  <2>3. ASSUME NextPhase PROVE <1>2!:
    <3>1. /\ UNCHANGED <<owner, epoch, source, target, deletes>>
          /\ Broadcast(Event(owner, epoch, source, FALSE))
      BY <2>3 DEF NextPhase, tenant
    <3>2. /\ Event(owner, epoch, source, FALSE) \in Events
          /\ ~Event(owner, epoch, source, FALSE).deleted
      BY <1>0 DEF Event, Events, RouteType
    <3> QED BY <1>0, <3>1, <3>2 DEF RouteType, HistType
  <2>4. ASSUME NEW c \in Cells, Settle(c) PROVE <1>2!:
    <3>1. /\ owner' = c /\ epoch' = epoch + 2 /\ source' = NoCell /\ target' = NoCell
          /\ Broadcast(Event(c, epoch + 2, NoCell, FALSE)) /\ deletes' = deletes
      BY <2>4 DEF Settle, Table!Settle
    <3>2. /\ Event(c, epoch + 2, NoCell, FALSE) \in Events
          /\ ~Event(c, epoch + 2, NoCell, FALSE).deleted
      BY <1>0 DEF Event, Events, RouteType
    <3>3. RouteType' /\ deletes' \in Nat
      BY <1>0, <3>1 DEF RouteType, HistType
    <3> QED BY <3>1, <3>2, <3>3
  <2>5. ASSUME DeleteRoute PROVE <1>2!:
    <3>1. /\ owner' = NoCell /\ epoch' = 0 /\ source' = NoCell /\ target' = NoCell
          /\ Broadcast(Event(NoCell, 0, NoCell, TRUE)) /\ deletes' = deletes + 1
          /\ deletes < MaxDeletes
      BY <2>5 DEF DeleteRoute
    <3>2. Event(NoCell, 0, NoCell, TRUE) \in Events
      BY DEF Event, Events
    <3>3. MaxDeletes # 0 /\ deletes' \in Nat
      BY <1>0, <3>1 DEF HistType
    <3> QED BY <3>1, <3>2, <3>3 DEF RouteType
  <2> QED BY <2>1, <2>2, <2>3, <2>4, <2>5 DEF TableStep
<1>3. PICK ev \in Events : Broadcast(ev) /\ (MaxDeletes = 0 => ~ev.deleted)
  BY <1>2
<1>4. ChanType' /\ Undeleted'
  <2>1. CASE Len(watch) < Buffer
    <3>1. watch' = Append(watch, ev) /\ watch \in Seq(Events) /\ Len(watch) \in Nat
      BY <1>0, <1>3, <2>1 DEF Broadcast, ChanType
    <3>2. Pending' = Pending \cup {ev} /\ Len(watch') = Len(watch) + 1
      BY <3>1, PendingAppend
    <3>3. watch' \in Seq(Events) /\ Len(watch') <= Buffer
      BY <2>1, <3>1, <3>2, Constants
    <3> QED BY <1>3, <3>2, <3>3 DEF ChanType, Undeleted, Broadcast
  <2>2. CASE ~(Len(watch) < Buffer)
    <3>1. watch' = watch
      BY <1>3, <2>2 DEF Broadcast
    <3> QED BY <1>0, <1>3, <3>1 DEF ChanType, Undeleted, Pending, Broadcast
  <2> QED BY <2>1, <2>2
<1>5. TypeOK'
  <2>1. known' \subseteq Nat
    BY <1>0, <1>2 DEF TableStep, Learns, HistType, RouteType
  <2>2. RegType' /\ ReqType' /\ DrainType' /\ HistType'
    BY <1>0, <1>1, <1>2, <2>1 DEF RegType, ReqType, DrainType, HistType
  <2> QED BY <1>2, <1>4, <2>2, TypePartsNext
<1>6. RefsOK' /\ TokensOK' /\ InflightExact'
  BY <1>1 DEF RefsOK, TokensOK, InflightExact, Gate, Admitted
<1> QED BY <1>4, <1>5, <1>6

LEMMA RestartBase ==
    ASSUME BaseInv, Restart
    PROVE  BaseInv'
<1> USE DEF BaseInv
<1>0. RouteType /\ ChanType /\ RegType /\ ReqType /\ DrainType /\ HistType
  BY TypeParts
<1>1. /\ restarts' = restarts + 1 /\ cur' = 0 /\ made' = 0 /\ watch' = <<>> /\ lost' = TRUE
      /\ gates' = [g \in GateIds |-> NewGate(0)]
      /\ rpc' = [r \in Requests |-> "idle"] /\ rgate' = [r \in Requests |-> 0]
      /\ token' = [r \in Requests |-> NoToken]
      /\ dpc' = [d \in Drains |-> "idle"] /\ dgate' = [d \in Drains |-> 0]
      /\ bar' = [d \in Drains |-> 0] /\ cutoff' = [d \in Drains |-> 0]
      /\ ctx' = [d \in Drains |-> "live"] /\ result' = [d \in Drains |-> "none"]
      /\ ajar' = {} /\ shut' = {} /\ slipped' = {}
      /\ UNCHANGED <<owner, epoch, source, target, deletes, drained>>
  BY DEF Restart, tenant
<1>2. known' \subseteq Nat
  BY <1>0 DEF Restart, NoRouteEpochs, RouteType
<1>3. ChanType' /\ Undeleted' /\ Admitted' = {}
  BY <1>1, Constants DEF ChanType, Undeleted, Pending, Admitted
<1>4. TypeOK'
  <2>1. RegType'
    BY <1>1, NewGateType, Constants, 0 \in Nat DEF RegType
  <2>2. ReqType' /\ DrainType'
    BY <1>1 DEF ReqType, DrainType, NoToken
  <2>3. HistType' /\ RouteType'
    BY <1>0, <1>1, <1>2 DEF HistType, RouteType
  <2> QED BY <1>3, <2>1, <2>2, <2>3, TypePartsNext
<1>5. RefsOK'
  BY <1>1 DEF RefsOK
<1>6. TokensOK' /\ InflightExact'
  BY <1>1, <1>3 DEF TokensOK, InflightExact
<1> QED BY <1>3, <1>4, <1>5, <1>6

LEMMA BaseInvInit == Init => BaseInv
<1> SUFFICES ASSUME Init PROVE BaseInv
  OBVIOUS
<1>1. /\ owner = NoCell /\ epoch = 0 /\ source = NoCell /\ target = NoCell
      /\ watch = <<>> /\ lost = FALSE /\ deletes = 0
  BY DEF Init, TableInit, Table!Init
<1>2. /\ gates = [g \in GateIds |-> NewGate(0)] /\ made = 0 /\ cur = 0
      /\ rpc = [r \in Requests |-> "idle"] /\ rgate = [r \in Requests |-> 0]
      /\ token = [r \in Requests |-> NoToken]
      /\ dpc = [d \in Drains |-> "idle"] /\ dgate = [d \in Drains |-> 0]
      /\ bar = [d \in Drains |-> 0] /\ cutoff = [d \in Drains |-> 0]
      /\ ctx = [d \in Drains |-> "live"] /\ result = [d \in Drains |-> "none"]
      /\ drained = {} /\ known \subseteq Nat /\ restarts = 0
      /\ ajar = {} /\ shut = {} /\ slipped = {}
  BY DEF Init, NoRouteEpochs
<1>3. TypeOK
  <2>1. RouteType
    BY <1>1 DEF RouteType
  <2>0. ChanType
    <3>1. watch \in Seq(Events) /\ Len(watch) = 0
      BY <1>1
    <3>2. Len(watch) <= Buffer
      BY <3>1, Constants
    <3>3. lost \in BOOLEAN
      BY <1>1
    <3> QED BY <3>1, <3>2, <3>3 DEF ChanType
  <2>2. RegType
    BY <1>2, NewGateType, Constants, 0 \in Nat DEF RegType
  <2>3. ReqType /\ DrainType /\ HistType
    BY <1>1, <1>2 DEF ReqType, DrainType, HistType, NoToken
  <2> QED BY <2>0, <2>1, <2>2, <2>3, TypeParts
<1>4. Admitted = {} /\ Undeleted
  BY <1>1, <1>2 DEF Admitted, Undeleted, Pending
<1>5. RefsOK /\ TokensOK /\ InflightExact
  BY <1>2, <1>4, Constants DEF RefsOK, TokensOK, InflightExact
<1> QED BY <1>3, <1>4, <1>5 DEF BaseInv

LEMMA BaseInvNext == NeverReset /\ BaseInv /\ [Next]_vars => BaseInv'
<1> SUFFICES ASSUME NeverReset, BaseInv, [Next]_vars PROVE BaseInv'
  OBVIOUS
<1>1. ASSUME NEW r \in Requests, Enter(r) \/ Exit(r) PROVE BaseInv'
  BY <1>1, TryEnterBase, AdmitBase, RejectLeaveBase, ReleaseBase DEF Enter, Exit
<1>2. ASSUME NEW d \in Drains,
             CloseAndDrain(d) \/ DrainStep(d) \/ CtxDone(d) \/ CtxBroadcast(d)
      PROVE  BaseInv'
  BY <1>2, CloseAndDrainBase, DrainBase, SleeperBase DEF DrainStep
<1>3. ASSUME Observe \/ TableStep \/ Restart PROVE BaseInv'
  BY <1>3, ObserveBase, TableBase, RestartBase
<1>4. ASSUME UNCHANGED vars PROVE BaseInv'
  <2>1. /\ UNCHANGED <<owner, epoch, source, target, watch, lost, deletes, gates, made, cur>>
        /\ UNCHANGED <<rpc, rgate, token, dpc, dgate, bar, cutoff, ctx, result, drained>>
        /\ UNCHANGED <<known, restarts, ajar, shut, slipped>>
    BY <1>4 DEF vars, tableVars, tenant, registry, requests, drains, marks
  <2>2. TypeOK' /\ Undeleted'
    BY <2>1 DEF BaseInv, TypeOK, Undeleted, tenant, Pending
  <2>3. RefsOK' /\ TokensOK' /\ InflightExact'
    BY <2>1 DEF BaseInv, RefsOK, TokensOK, InflightExact, Gate, Admitted
  <2> QED BY <2>2, <2>3 DEF BaseInv
<1> QED BY <1>1, <1>2, <1>3, <1>4 DEF Next

LEMMA BaseInvariant == NeverReset => (Spec => []BaseInv)
<1> SUFFICES ASSUME NeverReset PROVE Spec => []BaseInv
  OBVIOUS
<1>1. NeverReset /\ BaseInv /\ [Next]_vars => BaseInv'
  BY BaseInvNext
<1> QED BY <1>1, BaseInvInit, BaseInvNext, PTL DEF Spec

-----------------------------------------------------------------------------
(* A sleeping drain's gate stays shut: CutInv is inductive. *)

(* A step that neither opens the gate nor puts a drain to sleep. *)
LEMMA CutKept ==
    ASSUME CutOK, Asleep' \subseteq Asleep, \A d \in Asleep' : bar'[d] = bar[d],
           UNCHANGED <<cur, ajar>>,
           Asleep' # {} => Gate'.epoch = Gate.epoch /\ Gate'.state = Gate.state
    PROVE  CutOK'
BY DEF CutOK

(* The gate that requests and the deadlines of drains see is the same. *)
LEMMA CutRequests ==
    ASSUME CutInv, NEW r \in Requests, Enter(r) \/ Exit(r)
    PROVE  CutOK'
<1> USE DEF CutInv, BaseInv
<1>0. RegType /\ ReqType /\ DrainType /\ HistType
  BY TypeParts
<1>1. CASE TryEnter(r)
  <2>1. /\ UNCHANGED <<dpc, dgate, bar, ajar>> /\ \E e \in known : GetOrCreate(e)
    BY <1>1 DEF TryEnter, drains, marks
  <2>2. CASE cur = 0
    <3>1. Asleep' = {}
      BY <2>1, <2>2 DEF RefsOK, Asleep
    <3> QED BY <3>1 DEF CutOK
  <2>3. CASE cur # 0
    <3>1. cur' = cur /\ Gate' = Gate /\ Asleep' = Asleep
      BY <2>1, <2>3 DEF GetOrCreate, Found, Gate, Asleep
    <3> QED BY <2>1, <3>1, CutKept
  <2> QED BY <2>2, <2>3
<1>2. CASE Admit(r) \/ Release(r)
  <2>1. cur # 0 /\ rgate[r] = cur /\ cur \in GateIds /\ Gate \in Gates
    BY <1>0, <1>2, GateType DEF Admit, Release, RefsOK
  <2>2. Gate'.state = Gate.state /\ Gate'.epoch = Gate.epoch
    BY <1>0, <1>2, <2>1 DEF Admit, Release, RegType, Gates, Gate
  <2>3. /\ UNCHANGED <<cur, ajar, made, dgate, bar, drained>>
        /\ dpc' = Woken(cur) \/ dpc' = dpc
    BY <1>2, <2>1 DEF Admit, Release, drains, marks
  <2>4. Asleep' = Asleep
    BY <1>0, <2>3, WokenKeeps
  <2> QED BY <2>2, <2>3, <2>4, CutKept
<1>3. CASE Reject(r) \/ Leave(r)
  <2>1. UNCHANGED <<cur, gates, ajar, dpc, bar>>
    BY <1>3 DEF Reject, Leave, registry, drains, marks
  <2>2. Asleep' = Asleep /\ Gate' = Gate
    BY <2>1 DEF Asleep, Gate
  <2> QED BY <2>1, <2>2, CutKept
<1> QED BY <1>1, <1>2, <1>3 DEF Enter, Exit

LEMMA CutDrains ==
    ASSUME CutInv, NEW d \in Drains,
           CloseAndDrain(d) \/ DrainStep(d) \/ CtxDone(d) \/ CtxBroadcast(d)
    PROVE  CutOK'
<1> USE DEF CutInv, BaseInv
<1>0. RegType /\ ReqType /\ DrainType /\ HistType
  BY TypeParts
<1>1. CASE CloseAndDrain(d)
  <2>1. /\ GetOrCreate(0) /\ dpc[d] = "idle" /\ dpc' = [dpc EXCEPT ![d] = "closing"]
        /\ bar' = [bar EXCEPT ![d] = epoch + 1] /\ ajar' = ajar
    BY <1>1 DEF CloseAndDrain, marks
  <2>2. Asleep' = Asleep /\ \A x \in Asleep : bar'[x] = bar[x]
    BY <1>0, <2>1 DEF Asleep, DrainType
  <2>3. CASE cur = 0
    BY <2>2, <2>3 DEF RefsOK, Asleep, CutOK
  <2>4. CASE cur # 0
    <3>1. cur' = cur /\ Gate' = Gate
      BY <2>1, <2>4 DEF GetOrCreate, Found, Gate
    <3> QED BY <2>1, <2>2, <3>1, CutKept
  <2> QED BY <2>3, <2>4
<1>2. CASE CloseForBarrier(d)
  <2>1. Gate' = Draining(Gate) /\ cur # 0
    BY <1>2, DrainDoes, GateOps DEF Recheck, CloseForBarrier
  <2>2. Gate'.state # "open"
    BY <1>0, <2>1, GateType, GateOps, 0 \in Nat
  <2> QED BY <2>2 DEF CutOK
<1>3. CASE Recheck(d)
  <2>1. /\ UNCHANGED <<cur, ajar, gates>> /\ dgate[d] = cur /\ d \in Asleep
        /\ WaitOrReturn(d, Gate, cutoff[d]) /\ cutoff[d] \in Nat
    BY <1>0, <1>3 DEF Recheck, RefsOK, Asleep, registry, marks, Gate, DrainType
  <2>2. Asleep' \subseteq Asleep /\ \A x \in Asleep' : bar'[x] = bar[x]
    BY <1>0, <2>1, WaitOrReturnDoes DEF Asleep
  <2> QED BY <2>1, <2>2, CutKept DEF Gate
<1>4. CASE Wait(d) \/ CtxDone(d) \/ CtxBroadcast(d)
  <2>1. UNCHANGED <<cur, made, ajar, gates, dgate, bar, drained>>
    BY <1>4 DEF Wait, CtxDone, CtxBroadcast, registry, marks
  <2>2. Asleep' = Asleep
    <3>1. CASE Wait(d)
      BY <1>0, <3>1 DEF Wait, Asleep, DrainType
    <3>2. CASE CtxDone(d) \/ CtxBroadcast(d)
      <4>1. dpc' = Woken(dgate[d]) \/ dpc' = dpc
        BY <3>2 DEF CtxDone, CtxBroadcast
      <4> QED BY <1>0, <2>1, <4>1, WokenKeeps
    <3> QED BY <1>4, <3>1, <3>2
  <2> QED BY <2>1, <2>2, CutKept DEF Gate
<1> QED BY <1>1, <1>2, <1>3, <1>4 DEF DrainStep

(* The controller leaves the admissions of a gate alone. *)
LEMMA ObserveKeeps ==
    ASSUME NeverReset, BaseInv, Observe, cur # 0
    PROVE  cur' = cur /\ Gate'.nextSeq = Gate.nextSeq
<1> USE DEF BaseInv
<1>0. ChanType /\ RegType /\ HistType
  BY TypeParts
<1>1. Head(watch) \in Pending /\ Head(watch) \in Events
  <2>1. watch # <<>> /\ watch' = Tail(watch) /\ watch \in Seq(Events)
    BY <1>0 DEF Observe, ChanType
  <2> QED BY <2>1, PendingTail
<1>2. Reconcile(Head(watch)) \/ (~HereIsDefault /\ Deleted)
  <2>1. CASE Head(watch).deleted
    BY <1>1, <2>1 DEF Observe, Undeleted, NeverReset
  <2>2. CASE ~Head(watch).deleted
    BY <2>2 DEF Observe
  <2> QED BY <2>1, <2>2
<1>3. CASE UNCHANGED <<registry, dpc>>
  BY <1>3 DEF registry, Gate
<1>4. ASSUME NEW g \in Gates, NEW wakes \in BOOLEAN, Store(g, wakes), g.nextSeq = Gate.nextSeq
      PROVE  cur' = cur /\ Gate'.nextSeq = Gate.nextSeq
  BY <1>0, <1>4, StoreDoes
<1> QED BY <1>0, <1>1, <1>2, <1>3, <1>4, ReconcileKeeps

(* What an event does to the gate and to the marks on it. *)
LEMMA ObserveDoes ==
    ASSUME NeverReset, BaseInv, Observe, NEW ev, ev = Head(watch)
    PROVE  /\ ev \in Events /\ ev \in Pending
           /\ \/ /\ UNCHANGED <<registry, dpc>> /\ ~Opens(ev)
                 /\ ~ev.deleted => ~(ev.source = Here)
                 /\ ~ev.deleted => ev.active = NoCell \/ ~(ev.source \in {NoCell, ev.active})
              \/ \E c \in Gates, g \in Gates, wakes \in BOOLEAN :
                    /\ Store(g, wakes) /\ cur' = Found /\ cur' # 0 /\ Gate' = g
                    /\ cur # 0 => c = Gate
                    /\ cur = 0 => c.epoch \in {0, ev.epoch}
                    /\ \/ /\ g = Draining(c) /\ ~Opens(ev) /\ ~ev.deleted /\ ev.source = Here
                          /\ g.state # "open" /\ g.epoch = c.epoch
                       \/ /\ g = Closed(c) /\ ~Opens(ev)
                          /\ ~ev.deleted => ev.active # Here /\ ev.source # Here
                          /\ g.state = "closed" /\ g.epoch = c.epoch
                       \/ /\ Opens(ev) /\ g.state = "open" /\ g.epoch = ev.epoch /\ ~ev.deleted
                          /\ Opening(ev) /\ ev.epoch >= c.epoch
                       \/ /\ ~Opens(ev) /\ g = c /\ cur # 0 /\ ~ev.deleted
                          /\ Opening(ev) /\ ~(ev.epoch >= c.epoch)
<1> USE DEF BaseInv
<1>0. RouteType /\ ChanType /\ RegType /\ ReqType /\ DrainType /\ HistType
  BY TypeParts
<1>1. /\ ev \in Events /\ ev \in Pending /\ ev.epoch \in Nat /\ 0 \in Nat
  <2>1. watch # <<>> /\ watch' = Tail(watch) /\ watch \in Seq(Events)
    BY <1>0 DEF Observe, ChanType
  <2>2. ev \in Events /\ ev \in Pending
    BY <2>1, PendingTail
  <2> QED BY <2>2 DEF Events
<1>2. IF ev.deleted THEN Deleted ELSE Reconcile(ev)
  BY DEF Observe
<1>3. ASSUME NEW e \in Nat
      PROVE  /\ Current(e) \in Gates /\ (cur # 0 => Current(e) = Gate)
             /\ cur = 0 => Current(e).epoch = e
  BY <1>0, <1>3, CurrentType, NewGateType
<1>4. ASSUME NEW g \in Gates, NEW w \in BOOLEAN, Store(g, w)
      PROVE  cur' = Found /\ cur' # 0 /\ Gate' = g
  BY <1>0, <1>4, StoreDoes DEF Store
<1>5. ASSUME Store(Closed(Current(0)), TRUE), ~Opens(ev),
             ~ev.deleted => ev.active # Here /\ ev.source # Here
      PROVE  \E c \in Gates, g \in Gates, wakes \in BOOLEAN :
                /\ Store(g, wakes) /\ cur' = Found /\ cur' # 0 /\ Gate' = g
                /\ cur # 0 => c = Gate
                /\ cur = 0 => c.epoch \in {0, ev.epoch}
                /\ g = Closed(c) /\ g.state = "closed" /\ g.epoch = c.epoch
  <2> DEFINE c0 == Current(0)
             g0 == Closed(c0)
  <2>1. c0 \in Gates /\ (cur # 0 => c0 = Gate) /\ (cur = 0 => c0.epoch = 0)
    BY <1>1, <1>3
  <2> HIDE DEF c0
  <2>2. g0 \in Gates /\ g0.state = "closed" /\ g0.epoch = c0.epoch
    BY <1>1, <2>1, GateOps
  <2>3. Store(g0, TRUE)
    BY <1>5 DEF c0
  <2> HIDE DEF g0
  <2>4. g0 = Closed(c0) /\ cur' = Found /\ cur' # 0 /\ Gate' = g0
    BY <1>4, <2>2, <2>3 DEF g0
  <2> QED BY <2>1, <2>2, <2>3, <2>4
<1>6. CASE ev.deleted
  <2>1. ~HereIsDefault
    BY <1>1, <1>6 DEF Undeleted, NeverReset
  <2>2. Store(Closed(Current(0)), TRUE) /\ ~Opens(ev)
    BY <1>2, <1>6, <2>1 DEF Deleted, Opens
  <2> QED BY <1>1, <1>5, <1>6, <2>2
<1>7. CASE ~ev.deleted /\ ev.source = Here
  <2> DEFINE c0 == Current(0)
             g0 == Draining(c0)
  <2>1. Store(g0, FALSE) /\ ~Opens(ev)
    BY <1>2, <1>7, Constants DEF Reconcile, Opens
  <2>2. c0 \in Gates /\ (cur # 0 => c0 = Gate) /\ (cur = 0 => c0.epoch = 0)
    BY <1>1, <1>3
  <2> HIDE DEF c0
  <2>3. g0 \in Gates /\ g0.state # "open" /\ g0.epoch = c0.epoch /\ g0 = Draining(c0)
    BY <1>1, <2>2, GateOps
  <2> HIDE DEF g0
  <2>4. cur' = Found /\ cur' # 0 /\ Gate' = g0
    BY <1>4, <2>1, <2>3
  <2> QED BY <1>1, <1>7, <2>1, <2>2, <2>3, <2>4
<1>8. CASE ~ev.deleted /\ ev.source = NoCell /\ ev.active = Here
  <2> DEFINE c0 == Current(ev.epoch)
             g0 == Opened(c0, ev.epoch)
  <2>1. Store(g0, FALSE) /\ (Opens(ev) <=> ev.epoch >= c0.epoch)
    BY <1>2, <1>8, Constants DEF Reconcile, Opens
  <2>2. c0 \in Gates /\ (cur # 0 => c0 = Gate) /\ (cur = 0 => c0.epoch = ev.epoch)
    BY <1>1, <1>3
  <2> HIDE DEF c0
  <2>3. /\ g0 \in Gates
        /\ ev.epoch >= c0.epoch => g0.state = "open" /\ g0.epoch = ev.epoch
        /\ ~(ev.epoch >= c0.epoch) => g0 = c0
    BY <1>1, <2>2, GateOps
  <2> HIDE DEF g0
  <2>4. cur' = Found /\ cur' # 0 /\ Gate' = g0
    BY <1>4, <2>1, <2>3
  <2>5. ~(ev.epoch >= c0.epoch) => cur # 0
    BY <1>1, <2>2
  <2>6. Opening(ev)
    BY <1>8 DEF Opening
  <2>7. CASE ev.epoch >= c0.epoch
    BY <1>1, <1>8, <2>1, <2>2, <2>3, <2>4, <2>6, <2>7
  <2>8. CASE ~(ev.epoch >= c0.epoch)
    BY <1>1, <1>8, <2>1, <2>2, <2>3, <2>4, <2>5, <2>6, <2>8
  <2> QED BY <2>7, <2>8
<1>9. CASE ~ev.deleted /\ ev.source # Here /\ ev.active \notin {Here, NoCell}
  <2>1. Store(Closed(Current(0)), TRUE) /\ ~Opens(ev)
    BY <1>2, <1>9 DEF Reconcile, Opens
  <2> QED BY <1>1, <1>5, <1>9, <2>1
<1>10. CASE /\ ~ev.deleted /\ ev.source # Here /\ ev.active \in {Here, NoCell}
            /\ ~(ev.source = NoCell /\ ev.active = Here)
  <2>1. UNCHANGED <<registry, dpc>> /\ ~Opens(ev)
    BY <1>2, <1>10, Constants DEF Reconcile, Opens
  <2> QED BY <1>1, <1>10, <2>1
<1> QED BY <1>6, <1>7, <1>8, <1>9, <1>10

LEMMA CutObserve ==
    ASSUME NeverReset, CutInv, Observe
    PROVE  CutOK'
<1> USE DEF CutInv, BaseInv
<1>0. RegType /\ DrainType /\ ChanType /\ RefsOK
  BY TypeParts
<1> DEFINE ev == Head(watch)
<1>1. /\ bar' = bar /\ UNCHANGED <<dgate, drained>>
      /\ ajar' = IF Opens(ev) /\ \E b \in Barriers : b > ev.epoch
                 THEN ajar \cup {Found}
                 ELSE {x \in ajar : gates'[x].state = "open" /\ (Opens(ev) => x # Found)}
  BY DEF Observe
<1>2. ev = Head(watch)
  OBVIOUS
<1> HIDE DEF ev
<1>3. CASE cur = 0
  <2>1. Asleep' = {}
    <3>1. dpc' = Woken(Found) \/ dpc' = dpc
      BY DEF Observe, Deleted, Reconcile, Store
    <3>2. Asleep = {}
      BY <1>3 DEF RefsOK, Asleep
    <3> QED BY <1>0, <3>1, <3>2, WokenType DEF Asleep
  <2> QED BY <2>1 DEF CutOK
<1>4. CASE UNCHANGED <<registry, dpc>> /\ ~Opens(ev)
  <2> SUFFICES ASSUME NEW d \in Asleep', Gate'.epoch < bar'[d], cur' \notin ajar'
               PROVE  Gate'.state # "open"
    BY DEF CutOK
  <2>1. Gate' = Gate /\ cur' = cur /\ d \in Asleep /\ gates'[cur] = Gate
    BY <1>4 DEF registry, Gate, Asleep
  <2> QED BY <1>1, <1>4, <2>1 DEF CutOK
<1>5. ASSUME NEW c \in Gates, NEW g \in Gates, NEW wakes \in BOOLEAN, cur # 0,
             Store(g, wakes), cur' = Found, Gate' = g, c = Gate,
             \/ ~Opens(ev) /\ g.state # "open"
             \/ Opens(ev) /\ g.epoch = ev.epoch
             \/ ~Opens(ev) /\ g = c
      PROVE  CutOK'
  <2>1. Found = cur /\ cur' = cur /\ gates'[cur] = g
    BY <1>5 DEF Found, Gate
  <2>2. Asleep' = Asleep /\ Barriers' = Barriers
    <3>1. (dpc' = Woken(Found) \/ dpc' = dpc) /\ made' = made
      BY <1>5 DEF Store
    <3> QED BY <1>0, <1>1, <2>1, <3>1, WokenKeeps
  <2> SUFFICES ASSUME NEW d \in Asleep, g.epoch < bar[d], cur \notin ajar'
               PROVE  g.state # "open"
    BY <1>1, <1>5, <2>1, <2>2 DEF CutOK
  <2>3. bar[d] \in Barriers /\ bar[d] \in Nat /\ g.epoch \in Nat
    BY <1>0 DEF Barriers, Asleep, DrainType, Gates
  <2>4. CASE Opens(ev) /\ g.epoch = ev.epoch
    BY <1>1, <2>1, <2>3, <2>4
  <2>5. CASE ~Opens(ev) /\ g = c
    BY <1>1, <1>5, <2>1, <2>5 DEF CutOK
  <2> QED BY <1>5, <2>4, <2>5
<1> QED BY <1>2, <1>3, <1>4, <1>5, ObserveDoes

LEMMA CutInvNext == NeverReset /\ CutInv /\ [Next]_vars => CutInv'
<1> SUFFICES ASSUME NeverReset, CutInv, [Next]_vars PROVE CutInv'
  OBVIOUS
<1>1. BaseInv'
  BY BaseInvNext DEF CutInv
<1>2. CASE TableStep \/ UNCHANGED vars
  <2>1. UNCHANGED <<gates, cur, ajar, dpc, bar>>
    BY <1>2 DEF TableStep, vars, registry, drains, marks
  <2> QED BY <1>1, <2>1 DEF CutInv, CutOK, Asleep, Gate
<1>3. CASE Restart
  <2>1. Asleep' = {}
    BY <1>3 DEF Restart, Asleep
  <2> QED BY <1>1, <2>1 DEF CutInv, CutOK
<1> QED BY <1>1, <1>2, <1>3, CutRequests, CutDrains, CutObserve DEF Next, CutInv

LEMMA CutInvariant == NeverReset => (Spec => []CutInv)
<1> SUFFICES ASSUME NeverReset PROVE Spec => []CutInv
  OBVIOUS
<1>1. Init => CutInv
  <2>1. Init => Asleep = {}
    BY DEF Init, Asleep
  <2> QED BY <2>1, BaseInvInit DEF CutInv, CutOK
<1>2. CutInv /\ [Next]_vars => CutInv'
  BY CutInvNext
<1> QED BY <1>1, <1>2, PTL DEF Spec

-----------------------------------------------------------------------------
(* What a step leaves alone. *)

LEMMA TableSame ==
    ASSUME RouteOK, WatchOK, UNCHANGED tableVars
    PROVE  /\ RouteOK' /\ WatchOK'
           /\ Pending' = Pending /\ (Resting' <=> Resting)
           /\ UNCHANGED <<owner, epoch, source, target, watch, lost, deletes>>
<1>1. UNCHANGED <<owner, epoch, source, target, watch, lost, deletes>>
  BY DEF tableVars, tenant
<1> QED BY <1>1 DEF RouteOK, WatchOK, Pending, Resting, Table!Idle

LEMMA DrainsSame ==
    ASSUME UNCHANGED drains
    PROVE  /\ Asleep' = Asleep /\ Barriers' = Barriers /\ AllBars' = AllBars
           /\ UNCHANGED <<dpc, dgate, bar, cutoff, ctx, result, drained>>
BY DEF drains, Asleep, Barriers, AllBars

LEMMA BarriersType ==
    ASSUME DrainType, HistType
    PROVE  Barriers \subseteq Nat /\ AllBars \subseteq Nat
<1>1. drained \subseteq Nat /\ \A d \in Drains : bar[d] \in Nat
  BY DEF DrainType, HistType
<1> QED BY <1>1 DEF Barriers, AllBars, Asleep

(* A step of a request or a drain at the gate that does not open it. *)
LEMMA AtGate ==
    ASSUME GateInv, UNCHANGED tableVars, cur # 0, UNCHANGED <<cur, known>>,
           drained \subseteq drained',
           \A b \in AllBars' : b \in AllBars \/ b = 0,
           \A r \in Requests : rpc'[r] \in {"entering", "inside"} =>
                rpc[r] \in {"entering", "inside"} /\ token'[r].epoch = token[r].epoch,
           Gate'.epoch = Gate.epoch,
           Gate'.state = Gate.state, UNCHANGED <<ajar, shut>>, Barriers' \subseteq Barriers
    PROVE  /\ RouteOK' /\ WatchOK' /\ EpochsOK' /\ OpenPast' /\ FreshOK' /\ GateAligned'
           /\ (Resting' <=> Resting)
           /\ UNCHANGED <<owner, epoch, source, target, watch, lost, deletes>>
<1> USE DEF GateInv
<1>1. /\ RouteOK' /\ WatchOK' /\ Pending' = Pending /\ (Resting' <=> Resting)
      /\ UNCHANGED <<owner, epoch, source, target, watch, lost, deletes>>
  BY TableSame
<1>2. EpochsOK'
  <2>1. epoch \in Nat
    BY TypeParts DEF BaseInv, RouteType
  <2> QED BY <1>1, <2>1 DEF EpochsOK
<1>3. FreshOK'
  BY <1>1 DEF FreshOK
<1>4. OpenPast'
  BY DEF OpenPast
<1>5. GateAligned'
  BY <1>1 DEF GateAligned, Gate
<1> QED BY <1>1, <1>2, <1>3, <1>4, <1>5

-----------------------------------------------------------------------------
(* Requests. *)

LEMMA TryEnterStep ==
    ASSUME GateInv, BaseInv', NEW r \in Requests, TryEnter(r)
    PROVE  GateInv'
<1> USE DEF GateInv, BaseInv
<1>0. RouteType /\ ChanType /\ RegType /\ ReqType /\ DrainType /\ HistType
  BY TypeParts
<1>1. PICK e \in known : /\ GetOrCreate(e)
                         /\ token' = [token EXCEPT ![r] = [epoch |-> e, seq |-> 0]]
  BY DEF TryEnter
<1>2. /\ rpc[r] = "idle" /\ rpc' = [rpc EXCEPT ![r] = "entering"]
      /\ UNCHANGED tableVars /\ UNCHANGED drains
      /\ UNCHANGED <<known, ajar, shut, slipped>>
  BY DEF TryEnter, marks
<1>3. e \in Nat /\ 0 < e /\ e <= epoch
  BY <1>0, <1>1 DEF HistType, EpochsOK
<1>4. /\ cur' # 0
      /\ cur # 0 => cur' = cur /\ Gate' = Gate
      /\ cur = 0 => Gate' = NewGate(e)
  BY <1>0, <1>1, <1>3, GetOrCreateGate
<1>5. /\ RouteOK' /\ WatchOK' /\ (Resting' <=> Resting)
      /\ UNCHANGED <<owner, epoch, source, target, watch, lost, deletes>>
  BY <1>2, TableSame
<1>6. Asleep' = Asleep /\ Barriers' = Barriers /\ AllBars' = AllBars /\ drained' = drained
  BY <1>2, DrainsSame
<1>7. cur = 0 => Asleep = {}
  BY DEF RefsOK, Asleep
<1>8. NewGate(e).state = "open" /\ NewGate(e).epoch = e
  BY <1>3, NewGateType
<1>9. /\ \A q \in Requests : q # r => rpc'[q] = rpc[q] /\ token'[q] = token[q]
      /\ token'[r].epoch = e /\ rpc'[r] = "entering"
  BY <1>0, <1>1, <1>2 DEF ReqType
<1>10. EpochsOK'
  <2>1. \A q \in Requests : rpc'[q] \in {"entering", "inside"} => token'[q].epoch \in known'
    BY <1>1, <1>2, <1>9 DEF EpochsOK
  <2> QED BY <1>2, <1>3, <1>4, <1>5, <1>6, <1>8, <2>1 DEF EpochsOK
<1>11. Overdue'
  BY <1>2, <1>5, <1>6 DEF Overdue, Away
<1>12. OpenPast'
  <2>1. CASE cur = 0
    <3>1. \A b \in drained : b <= e
      BY <1>1, <2>1 DEF OpenPast
    <3>2. Barriers = drained
      BY <1>7, <2>1 DEF Barriers
    <3> QED BY <1>4, <1>6, <1>8, <2>1, <3>1, <3>2 DEF OpenPast
  <2>2. CASE cur # 0
    BY <1>2, <1>4, <1>6, <2>2 DEF OpenPast
  <2> QED BY <2>1, <2>2
<1>13. InsidePast'
  <2>1. Inside' = Inside /\ \A q \in Inside : token'[q] = token[q]
    BY <1>2, <1>9 DEF Inside
  <2> QED BY <1>2, <1>6, <2>1 DEF InsidePast
<1>14. FreshOK'
  BY <1>4 DEF FreshOK
<1>15. GateAligned'
  <2>1. CASE cur = 0
    BY <1>3, <1>5, <2>1 DEF FreshOK, GateAligned
  <2>2. CASE cur # 0
    BY <1>2, <1>4, <1>5, <2>2 DEF GateAligned, Gate
  <2> QED BY <2>1, <2>2
<1> QED BY <1>5, <1>10, <1>11, <1>12, <1>13, <1>14, <1>15

LEMMA AdmitStep ==
    ASSUME GateInv, BaseInv', NEW r \in Requests, Admit(r)
    PROVE  GateInv'
<1> USE DEF GateInv, BaseInv
<1>0. RouteType /\ ChanType /\ RegType /\ ReqType /\ DrainType /\ HistType
  BY TypeParts
<1>1. cur # 0 /\ rgate[r] = cur /\ rpc[r] = "entering"
  BY DEF Admit, RefsOK
<1>2. /\ Gate.state = "open" /\ Gate.epoch = token[r].epoch
      /\ gates' = [gates EXCEPT ![cur].nextSeq = Gate.nextSeq + 1,
                                ![cur].inflight = Gate.inflight \cup {Gate.nextSeq + 1}]
      /\ token' = [token EXCEPT ![r].seq = Gate.nextSeq + 1]
      /\ rpc' = [rpc EXCEPT ![r] = "inside"]
      /\ slipped' = IF cur \in ajar THEN slipped \cup {r} ELSE slipped
      /\ UNCHANGED tableVars /\ UNCHANGED <<cur, known, ajar, shut>> /\ UNCHANGED drains
  BY <1>1 DEF Admit, Admits, Gate
<1>3. cur \in GateIds /\ Gate \in Gates
  BY <1>0, <1>1, GateType
<1>4. Gate'.state = Gate.state /\ Gate'.epoch = Gate.epoch
  BY <1>0, <1>2, <1>3 DEF RegType, Gates, Gate
<1>5. Asleep' = Asleep /\ Barriers' = Barriers /\ AllBars' = AllBars /\ drained' = drained
  BY <1>2, DrainsSame
<1>6. \A q \in Requests : /\ token'[q].epoch = token[q].epoch
                          /\ rpc'[q] = IF q = r THEN "inside" ELSE rpc[q]
  BY <1>0, <1>2 DEF ReqType
<1>7. /\ RouteOK' /\ WatchOK' /\ EpochsOK' /\ OpenPast' /\ FreshOK' /\ GateAligned'
      /\ (Resting' <=> Resting)
      /\ UNCHANGED <<owner, epoch, source, target, watch, lost, deletes>>
  BY <1>1, <1>2, <1>4, <1>5, <1>6, AtGate
<1>8. Overdue'
  BY <1>2, <1>5, <1>7 DEF Overdue, Away
<1>9. InsidePast'
  <2> SUFFICES ASSUME NEW q \in Inside', q \notin slipped', NEW b \in drained
               PROVE  b <= token[q].epoch
    BY <1>5, <1>6 DEF InsidePast, Inside
  <2>1. CASE q = r
    <3>1. cur \notin ajar /\ b \in Barriers
      BY <1>2, <2>1 DEF Barriers
    <3>2. Gate.epoch > 0
      BY <1>0, <1>1, <1>2 DEF EpochsOK, HistType
    <3> QED BY <1>1, <1>2, <2>1, <3>1, <3>2 DEF OpenPast
  <2>2. CASE q # r
    BY <1>2, <1>6, <2>2 DEF Inside, InsidePast
  <2> QED BY <2>1, <2>2
<1> QED BY <1>7, <1>8, <1>9

(* A request is rejected, its handler has returned, or it leaves. *)
LEMMA RequestStep ==
    ASSUME GateInv, BaseInv', NEW r \in Requests, Reject(r) \/ Leave(r) \/ Release(r)
    PROVE  GateInv'
<1> USE DEF GateInv, BaseInv
<1>0. RouteType /\ ChanType /\ RegType /\ ReqType /\ DrainType /\ HistType
  BY TypeParts
<1>1. cur # 0 /\ (Release(r) => rgate[r] = cur)
  BY DEF Reject, Leave, Release, RefsOK
<1>2. cur \in GateIds /\ Gate \in Gates
  BY <1>0, <1>1, GateType
<1>3. Gate'.state = Gate.state /\ Gate'.epoch = Gate.epoch /\ cur' = cur
  <2>1. CASE Release(r)
    BY <1>0, <1>1, <1>2, <2>1 DEF Release, RegType, Gates, Gate
  <2>2. CASE Reject(r) \/ Leave(r)
    BY <2>2 DEF Reject, Leave, registry, Gate
  <2> QED BY <2>1, <2>2
<1>4. /\ UNCHANGED tableVars /\ UNCHANGED <<known, ajar, shut, made, dgate, bar, drained>>
      /\ dpc' = Woken(cur) \/ dpc' = dpc
  BY <1>1 DEF Reject, Leave, Release, registry, drains, marks
<1>5. Asleep' = Asleep /\ Barriers' = Barriers /\ AllBars' = AllBars
  BY <1>0, <1>3, <1>4, WokenKeeps
<1>6. /\ \A q \in Requests : rpc'[q] \in {"entering", "inside"} =>
             q # r /\ rpc[q] = rpc'[q] /\ token'[q].epoch = token[q].epoch
      /\ slipped \ {r} \subseteq slipped'
  BY <1>0, <1>1 DEF Reject, Leave, Release, Gone, ReqType, marks
<1>7. /\ RouteOK' /\ WatchOK' /\ EpochsOK' /\ OpenPast' /\ FreshOK' /\ GateAligned'
      /\ (Resting' <=> Resting)
      /\ UNCHANGED <<owner, epoch, source, target, watch, lost, deletes>>
  BY <1>1, <1>3, <1>4, <1>5, <1>6, AtGate
<1>8. Overdue'
  BY <1>4, <1>7 DEF Overdue, Away
<1>9. InsidePast'
  BY <1>4, <1>6 DEF InsidePast, Inside
<1> QED BY <1>7, <1>8, <1>9

-----------------------------------------------------------------------------
(* Drains. *)

LEMMA CloseAndDrainStep ==
    ASSUME GateInv, BaseInv', NEW d \in Drains, CloseAndDrain(d)
    PROVE  GateInv'
<1> USE DEF GateInv, BaseInv
<1>0. RouteType /\ ChanType /\ RegType /\ ReqType /\ DrainType /\ HistType
  BY TypeParts
<1>1. /\ dpc[d] = "idle" /\ ~Resting /\ source = Here /\ GetOrCreate(0)
      /\ bar' = [bar EXCEPT ![d] = epoch + 1] /\ dpc' = [dpc EXCEPT ![d] = "closing"]
      /\ UNCHANGED tableVars
      /\ UNCHANGED <<rpc, rgate, token, drained, known, ajar, shut, slipped>>
  BY DEF CloseAndDrain, requests, marks
<1>2. owner = Here /\ epoch > 0
  BY <1>0, <1>1, Constants DEF RouteOK, RouteType
<1>3. /\ cur' # 0
      /\ cur # 0 => cur' = cur /\ Gate' = Gate
      /\ cur = 0 => Gate' = NewGate(0)
  BY <1>0, <1>1, GetOrCreateGate
<1>4. /\ RouteOK' /\ WatchOK' /\ (Resting' <=> Resting)
      /\ UNCHANGED <<owner, epoch, source, target, watch, lost, deletes>>
  BY <1>1, TableSame
<1>5. NewGate(0).state = "open" /\ NewGate(0).epoch = 0
  BY NewGateType
<1>6. /\ Asleep' = Asleep /\ \A x \in Asleep : bar'[x] = bar[x]
      /\ \A b \in AllBars' : b \in AllBars \/ b = epoch + 1
  BY <1>0, <1>1 DEF Asleep, AllBars, DrainType
<1>7. Barriers' = Barriers
  BY <1>1, <1>6 DEF Barriers
<1>8. EpochsOK'
  <2>1. 0 <= epoch /\ epoch + 1 <= epoch + 1
    BY <1>0 DEF RouteType
  <2> QED BY <1>1, <1>3, <1>4, <1>5, <1>6, <2>1 DEF EpochsOK
<1>9. Overdue' /\ InsidePast'
  BY <1>1, <1>4 DEF Overdue, Away, InsidePast, Inside
<1>10. OpenPast'
  BY <1>1, <1>3, <1>5, <1>7 DEF OpenPast
<1>11. FreshOK'
  BY <1>3 DEF FreshOK
<1>12. GateAligned'
  <2>1. CASE cur = 0
    BY <1>2, <1>4, <2>1 DEF FreshOK, GateAligned
  <2>2. CASE cur # 0
    BY <1>1, <1>3, <1>4, <2>2 DEF GateAligned, Gate
  <2> QED BY <2>1, <2>2
<1> QED BY <1>4, <1>8, <1>9, <1>10, <1>11, <1>12

(* A drain shuts the gate, or looks at it again. *)
LEMMA DrainStepStep ==
    ASSUME GateInv, BaseInv', NEW d \in Drains, CloseForBarrier(d) \/ Recheck(d)
    PROVE  GateInv'
<1> USE DEF GateInv, BaseInv
<1>0. RouteType /\ ChanType /\ RegType /\ ReqType /\ DrainType /\ HistType
  BY TypeParts
<1>1. /\ cur # 0 /\ dgate[d] = cur /\ dpc[d] # "idle"
      /\ UNCHANGED tableVars
      /\ UNCHANGED <<cur, made, rpc, rgate, token, known, restarts, slipped>>
      /\ shut \subseteq shut'
  BY DrainDoes
<1>2. PICK g \in Gates, c \in Nat :
         /\ g.inflight = Gate.inflight /\ g.epoch = Gate.epoch /\ WaitOrReturn(d, g, c)
         /\ Gate' = g
         /\ \/ CloseForBarrier(d) /\ g = Draining(Gate)
            \/ Recheck(d) /\ g = Gate /\ UNCHANGED <<ajar, shut>>
  BY DrainDoes
<1>3. /\ \/ drained' = drained \/ (g.inflight = {} /\ drained' = drained \cup {bar[d]})
      /\ \A b \in AllBars' : b \in AllBars \/ b = 0
      /\ Barriers' \subseteq Barriers \cup {bar[d]}
  BY <1>0, <1>2, WaitOrReturnDoes
<1>4. bar[d] \in AllBars /\ bar[d] \in Nat
  BY <1>0 DEF AllBars, DrainType
<1>5. Gate \in Gates /\ Gate.state \in {"open", "draining", "closed"}
  BY <1>0, <1>1, GateType
<1>6. \/ g.state = Gate.state /\ UNCHANGED <<ajar, shut>> /\ Barriers' \subseteq Barriers
      \/ g.state # "open" /\ (owner = Here /\ Resting /\ watch = <<>> /\ ~lost => cur \in shut')
  <2>1. CASE Recheck(d) /\ g = Gate /\ UNCHANGED <<ajar, shut>>
    <3>1. bar[d] \in Barriers
      BY <2>1 DEF Recheck, Barriers, Asleep
    <3> QED BY <1>3, <2>1, <3>1
  <2>2. CASE CloseForBarrier(d) /\ g = Draining(Gate)
    <3>1. g.state # "open" /\ (Gate.state # "closed" => g.state = "draining")
      BY <1>5, <2>2, GateOps, 0 \in Nat
    <3>2. ASSUME owner = Here, Resting, watch = <<>>, ~lost PROVE cur \in shut'
      <4>1. CASE cur \in shut
        BY <1>1, <4>1
      <4>2. CASE cur \notin shut
        <5>1. Gate.state = "open" /\ Gate.epoch = epoch
          BY <1>1, <3>2, <4>2 DEF GateAligned, Gate
        <5>2. epoch > 0 /\ epoch \in Nat
          BY <1>0, <3>2, Constants DEF RouteOK, RouteType
        <5>3. g.state = "draining" /\ g.epoch > bar[d]
          BY <1>2, <1>4, <3>1, <3>2, <5>1, <5>2 DEF EpochsOK
        <5> QED BY <1>1, <2>2, <5>3 DEF CloseForBarrier, Gate
      <4> QED BY <4>1, <4>2
    <3> QED BY <3>1, <3>2
  <2> QED BY <1>2, <2>1, <2>2
<1>7. /\ RouteOK' /\ WatchOK' /\ (Resting' <=> Resting)
      /\ UNCHANGED <<owner, epoch, source, target, watch, lost, deletes>>
  BY <1>1, TableSame
<1>8. EpochsOK'
  <2>1. epoch \in Nat
    BY <1>0 DEF RouteType
  <2> QED BY <1>1, <1>2, <1>3, <1>7, <2>1 DEF EpochsOK
<1>9. FreshOK' /\ OpenPast' /\ GateAligned'
  <2>1. FreshOK'
    BY <1>1 DEF FreshOK
  <2>2. OpenPast'
    BY <1>1, <1>2, <1>6 DEF OpenPast
  <2>3. GateAligned'
    BY <1>1, <1>2, <1>6, <1>7 DEF GateAligned, Gate
  <2> QED BY <2>1, <2>2, <2>3
<1>10. Overdue'
  <2> SUFFICES ASSUME Away', NEW e \in known PROVE \E b \in drained' : e < b
    BY <1>1 DEF Overdue
  <2>1. CASE Away
    BY <1>3, <2>1 DEF Overdue
  <2>2. CASE ~Away
    <3>1. epoch + 1 \in drained'
      BY <1>7, <2>2 DEF Away
    <3>2. e < epoch + 1
      BY <1>0 DEF EpochsOK, RouteType, HistType
    <3> QED BY <3>1, <3>2
  <2> QED BY <2>1, <2>2
<1>11. InsidePast'
  <2>1. CASE drained' = drained
    BY <1>1, <2>1 DEF InsidePast, Inside
  <2>2. CASE g.inflight = {}
    <3>1. Admitted = {}
      BY <1>1, <1>2, <2>2 DEF InflightExact, Gate
    <3> QED BY <1>1, <3>1 DEF InsidePast, Inside, Admitted
  <2> QED BY <1>3, <2>1, <2>2
<1> QED BY <1>7, <1>8, <1>9, <1>10, <1>11

(* A drain registers as a waiter, or its deadline passes and is broadcast. *)
LEMMA SleeperStep ==
    ASSUME GateInv, BaseInv', NEW d \in Drains, Wait(d) \/ CtxDone(d) \/ CtxBroadcast(d)
    PROVE  GateInv'
<1> USE DEF GateInv, BaseInv
<1>0. RouteType /\ ChanType /\ RegType /\ ReqType /\ DrainType /\ HistType
  BY TypeParts
<1>1. /\ cur # 0 /\ UNCHANGED tableVars
      /\ UNCHANGED <<gates, cur, made, rpc, rgate, token, dgate, bar, drained,
                     known, ajar, shut, slipped>>
  BY DEF Wait, CtxDone, CtxBroadcast, RefsOK, registry, requests, marks
<1>2. Asleep' = Asleep /\ Barriers' = Barriers /\ AllBars' = AllBars
  <2>1. CASE Wait(d)
    <3>1. Asleep' = Asleep
      BY <1>0, <2>1 DEF Wait, DrainType, Asleep
    <3> QED BY <1>1, <3>1 DEF Barriers, AllBars
  <2>2. CASE CtxDone(d) \/ CtxBroadcast(d)
    <3>1. dpc' = Woken(dgate[d]) \/ dpc' = dpc
      BY <2>2 DEF CtxDone, CtxBroadcast
    <3> QED BY <1>0, <1>1, <3>1, WokenKeeps
  <2> QED BY <2>1, <2>2
<1>3. Gate' = Gate
  BY <1>1 DEF Gate
<1>4. /\ RouteOK' /\ WatchOK' /\ EpochsOK' /\ OpenPast' /\ FreshOK' /\ GateAligned'
      /\ (Resting' <=> Resting)
      /\ UNCHANGED <<owner, epoch, source, target, watch, lost, deletes>>
  BY <1>1, <1>2, <1>3, AtGate
<1>5. Overdue' /\ InsidePast'
  BY <1>1, <1>4 DEF Overdue, Away, InsidePast, Inside
<1> QED BY <1>4, <1>5

-----------------------------------------------------------------------------
(* The gate controller. *)

LEMMA ObserveStep ==
    ASSUME RoutesStay, GateInv, BaseInv', Observe
    PROVE  GateInv'
<1> USE DEF GateInv, BaseInv
<1>0. RouteType /\ ChanType /\ RegType /\ ReqType /\ DrainType /\ HistType
  BY TypeParts
<1> DEFINE ev == Head(watch)
<1>1. /\ watch # <<>> /\ watch' = Tail(watch) /\ watch \in Seq(Events)
      /\ UNCHANGED <<owner, epoch, source, target, lost, deletes>>
      /\ UNCHANGED <<rpc, rgate, token, dgate, bar, drained, known, slipped>>
      /\ ajar' = IF Opens(ev) /\ \E b \in Barriers : b > ev.epoch
                 THEN ajar \cup {Found}
                 ELSE {x \in ajar : gates'[x].state = "open" /\ (Opens(ev) => x # Found)}
  BY <1>0 DEF Observe, tenant, requests, ChanType
<1>2. /\ Pending' \subseteq Pending
      /\ watch' \in Seq(Events) /\ Len(watch') = Len(watch) - 1 /\ Len(watch) \in Nat
      /\ Len(watch) >= 1
      /\ \A i \in 1 .. Len(watch') : i + 1 \in 1 .. Len(watch) /\ watch'[i] = watch[i + 1]
  BY <1>1, PendingTail
<1>3. /\ watch' = <<>> /\ ~lost => ev = Event(owner, epoch, source, FALSE)
      /\ EventOK(ev, epoch)
  BY <1>1, HeadFirst
<1>4. ev = Head(watch) /\ NeverReset
  BY DEF RoutesStay, NeverReset
<1> HIDE DEF ev
<1>5. /\ ev.epoch \in Nat /\ ev.epoch <= epoch /\ ev.active \in Cells
      /\ ev.source \in {NoCell, ev.active} /\ ~ev.deleted
  BY <1>3 DEF EventOK
<1>6. PICK c \in Gates, g \in Gates, wakes \in BOOLEAN :
         /\ Store(g, wakes) /\ cur' = Found /\ cur' # 0 /\ Gate' = g
         /\ cur # 0 => c = Gate
         /\ cur = 0 => c.epoch \in {0, ev.epoch}
         /\ \/ ~Opens(ev) /\ ev.source = Here /\ g.state # "open" /\ g.epoch = c.epoch
            \/ /\ ~Opens(ev) /\ ev.active # Here
               /\ g.state # "open" /\ g.epoch = c.epoch
            \/ /\ Opens(ev) /\ g.state = "open" /\ g.epoch = ev.epoch /\ Opening(ev)
            \/ /\ ~Opens(ev) /\ g = c /\ cur # 0 /\ ~(ev.epoch >= c.epoch)
  BY <1>4, <1>5, ObserveDoes, Constants
<1>7. Resting' <=> Resting
  BY <1>1 DEF Resting, Table!Idle
<1>8. Barriers' = Barriers /\ AllBars' = AllBars
  <2>1. \A d \in Drains : dpc'[d] = dpc[d] \/ (dpc[d] = "waiting" /\ dpc'[d] = "woken")
    <3>1. dpc' = Woken(Found) \/ dpc' = dpc
      BY <1>6 DEF Store
    <3> QED BY <1>0, <3>1, WokenType
  <2>2. Asleep' = Asleep
    BY <2>1 DEF Asleep
  <2> QED BY <1>1, <2>2 DEF Barriers, AllBars
<1>9. c.epoch \in Nat /\ c.epoch <= epoch
  <2>1. c.epoch \in Nat /\ 0 <= epoch
    BY <1>0 DEF Gates, RouteType
  <2> QED BY <1>5, <1>6, <2>1 DEF EpochsOK
<1>10. RouteOK'
  BY <1>1, <1>7 DEF RouteOK
<1>11. WatchOK'
  <2>1. \A x \in Pending' : EventOK(x, epoch')
    BY <1>1, <1>2 DEF WatchOK
  <2>2. watch' # <<>> /\ ~lost' => watch'[Len(watch')] = Event(owner', epoch', source', FALSE)
    <3> SUFFICES ASSUME watch' # <<>>, ~lost
                 PROVE  watch'[Len(watch')] = Event(owner, epoch, source, FALSE)
      BY <1>1
    <3>1. Len(watch') \in 1 .. Len(watch') /\ Len(watch') + 1 = Len(watch)
      BY <1>2
    <3> QED BY <1>1, <1>2, <3>1 DEF WatchOK
  <2> QED BY <2>1, <2>2 DEF WatchOK
<1>12. EpochsOK'
  <2>1. g.epoch <= epoch
    BY <1>5, <1>6, <1>9
  <2> QED BY <1>1, <1>6, <1>7, <1>8, <2>1 DEF EpochsOK
<1>13. Overdue' /\ InsidePast'
  BY <1>1, <1>7 DEF Overdue, Away, InsidePast, Inside
<1>14. OpenPast'
  <2> SUFFICES ASSUME g.state = "open", g.epoch > 0, cur' \notin ajar', NEW b \in Barriers
               PROVE  b <= g.epoch
    BY <1>6, <1>8 DEF OpenPast
  <2>1. CASE Opens(ev) /\ g.epoch = ev.epoch
    <3>1. ~(b > ev.epoch)
      BY <1>1, <1>6, <2>1
    <3>2. b \in Nat
      BY <1>0, BarriersType
    <3> QED BY <1>5, <2>1, <3>1, <3>2
  <2>2. CASE ~Opens(ev) /\ g = c /\ cur # 0
    <3>1. cur' = cur /\ gates'[cur] = g
      BY <1>6, <2>2 DEF Found, Gate
    <3>2. cur \notin ajar
      BY <1>1, <2>2, <3>1
    <3> QED BY <1>6, <2>2, <3>2 DEF OpenPast
  <2> QED BY <1>6, <2>1, <2>2
<1>15. FreshOK'
  BY <1>6 DEF FreshOK
<1>16. GateAligned'
  <2> SUFFICES ASSUME watch' = <<>>, ~lost
               PROVE  /\ g.state = "open" => owner = Here /\ Resting /\ g.epoch = epoch
                      /\ owner = Here /\ Resting => g.state = "open"
    BY <1>1, <1>6, <1>7 DEF GateAligned, Gate
  <2>1. ev.active = owner /\ ev.epoch = epoch /\ ev.source = source
    BY <1>3 DEF Event
  <2>2. source = NoCell => Resting
    BY <1>5, <2>1, Constants DEF RouteOK
  <2>3. source # NoCell => ~Resting
    BY DEF Resting, Table!Idle
  <2> QED BY <1>0, <1>6, <1>9, <2>1, <2>2, <2>3, Constants DEF Opening, RouteType
<1> QED BY <1>10, <1>11, <1>12, <1>13, <1>14, <1>15, <1>16

-----------------------------------------------------------------------------
(* The table. *)

(* A step of the table announces the new route, or loses it.  The tenant    *)
(* comes to rest at an epoch past every barrier, and leaves this cell only  *)
(* when a drain has returned clean.                                         *)
LEMMA TableDoes ==
    ASSUME RoutesStay, GateInv, TableStep
    PROVE  /\ RouteOK' /\ RouteType'
           /\ Broadcast(Event(owner', epoch', source', FALSE))
           /\ owner' \in Cells /\ source' \in {NoCell, owner'}
           /\ epoch \in Nat /\ epoch' \in Nat /\ epoch <= epoch' /\ epoch' > 0
           /\ owner' = Here /\ source' = NoCell => \A b \in AllBars : b <= epoch'
           /\ Away' => Away
           /\ \A b \in AllBars : b <= epoch' + 1 /\ (Resting' => b = 0 \/ b < epoch')
           /\ UNCHANGED <<registry, requests, drains, marks>>
           /\ known' = IF owner' = Here /\ source' = NoCell
                       THEN known \cup {epoch'} ELSE known
<1> USE DEF GateInv, BaseInv
<1>0. RouteType /\ ChanType /\ DrainType /\ HistType
  BY TypeParts
<1>1. /\ UNCHANGED <<registry, requests, drains, marks>> /\ drained' = drained
      /\ known' = IF owner' = Here /\ source' = NoCell THEN known \cup {epoch'} ELSE known
  BY DEF TableStep, Learns, drains
<1>2. AllBars \subseteq Nat /\ drained \subseteq AllBars
  BY <1>0 DEF AllBars, DrainType, HistType
<1>3. ~DeleteRoute
  <2>1. MaxDeletes = 0 /\ deletes \in Nat
    BY <1>0 DEF RoutesStay, HistType
  <2>2. ~(deletes < MaxDeletes)
    BY <2>1
  <2> QED BY <2>2 DEF DeleteRoute
<1>4. epoch \in Nat /\ \A b \in AllBars : b \in Nat /\ b <= epoch + 1
  BY <1>0, <1>2 DEF RouteType, EpochsOK
<1>5. CASE \E c \in Cells : Place(c)
  <2>1. PICK c \in Cells :
           /\ epoch = 0 /\ owner' = c /\ epoch' = 1 /\ source' = source /\ target' = target
           /\ Broadcast(Event(c, 1, NoCell, FALSE)) /\ deletes' = deletes
    BY <1>5 DEF Place, Table!Place
  <2>2. owner = NoCell /\ Resting
    BY <2>1, Constants DEF RouteOK
  <2>3. source = NoCell /\ target = NoCell
    BY <2>2 DEF Resting, Table!Idle
  <2>4. Resting' /\ RouteOK' /\ RouteType'
    BY <2>1, <2>3, Constants DEF RouteOK, RouteType, Resting, Table!Idle
  <2>5. Away
    BY <2>2, Constants DEF Away
  <2>6. \A b \in AllBars : b = 0
    BY <1>4, <2>1, <2>2 DEF EpochsOK
  <2>7. Broadcast(Event(owner', epoch', source', FALSE))
    BY <2>1, <2>3
  <2>8. /\ owner' \in Cells /\ source' = NoCell /\ epoch \in Nat /\ epoch' \in Nat
        /\ epoch <= epoch' /\ epoch' > 0
        /\ \A b \in AllBars : b <= epoch' /\ b <= epoch' + 1 /\ b = 0
    BY <2>1, <2>3, <2>6
  <2> QED BY <1>1, <2>4, <2>5, <2>7, <2>8
<1>6. CASE \E c \in Cells : BeginMove(c)
  <2>1. PICK c \in Cells :
           /\ epoch > 0 /\ Resting /\ source' = owner /\ target' = c /\ owner' = owner
           /\ epoch' = epoch
           /\ Broadcast(Event(owner, epoch, owner, FALSE)) /\ deletes' = deletes
    BY <1>6 DEF BeginMove, Table!Begin, Resting
  <2>2. owner \in Cells
    BY <1>0, <2>1 DEF RouteOK, RouteType
  <2>3. RouteOK' /\ RouteType'
    BY <1>0, <2>1, <2>2 DEF RouteOK, RouteType
  <2>4. \A b \in AllBars : b < epoch
    BY <1>4, <2>1 DEF EpochsOK
  <2>5. Broadcast(Event(owner', epoch', source', FALSE))
    BY <2>1
  <2>6. epoch + 1 \notin drained
    BY <1>2, <1>4, <2>4
  <2>7. Away' => Away
    BY <1>1, <2>1, <2>6 DEF Away
  <2>8. \A b \in AllBars : b <= epoch' + 1 /\ b < epoch'
    BY <1>4, <2>1, <2>4
  <2>9. /\ owner' \in Cells /\ source' = owner' /\ source' # NoCell
        /\ epoch \in Nat /\ epoch' \in Nat /\ epoch <= epoch' /\ epoch' > 0
    BY <1>4, <2>1, <2>2, Constants
  <2> QED BY <1>1, <2>3, <2>5, <2>7, <2>8, <2>9
<1>7. CASE NextPhase
  <2>1. /\ ~Resting /\ Broadcast(Event(owner, epoch, source, FALSE))
        /\ UNCHANGED <<owner, epoch, source, target, deletes>>
    BY <1>7 DEF NextPhase, tenant
  <2>2. RouteOK' /\ RouteType' /\ ~Resting'
    BY <1>0, <2>1 DEF RouteOK, RouteType, Resting, Table!Idle
  <2>3. owner \in Cells /\ source = owner /\ epoch > 0
    BY <1>4, <2>1, Constants DEF RouteOK
  <2>4. Broadcast(Event(owner', epoch', source', FALSE))
    BY <2>1
  <2>5. Away' => Away
    BY <1>1, <2>1, <2>2 DEF Away
  <2>6. /\ owner' \in Cells /\ source' = owner' /\ source' # NoCell
        /\ epoch \in Nat /\ epoch' \in Nat /\ epoch <= epoch' /\ epoch' > 0
        /\ \A b \in AllBars : b <= epoch' + 1
    BY <1>4, <2>1, <2>3, Constants
  <2> QED BY <1>1, <2>2, <2>4, <2>5, <2>6
<1>8. CASE \E c \in Cells : Commits(c) /\ Settle(c)
  <2>1. PICK c \in Cells : Commits(c) /\ Settle(c)
    BY <1>8
  <2>2. /\ ~Resting /\ c \in {source, target} /\ owner' = c /\ epoch' = epoch + 2
        /\ source' = NoCell /\ target' = NoCell
        /\ Broadcast(Event(c, epoch + 2, NoCell, FALSE)) /\ deletes' = deletes
    BY <2>1 DEF Settle, Table!Settle, Resting
  <2>3. Resting' /\ RouteOK' /\ RouteType'
    BY <1>0, <2>2, Constants DEF RouteOK, RouteType, Resting, Table!Idle
  <2>4. c # Here => Away
    BY <2>1, <2>2 DEF Commits, Away, RouteOK
  <2>5. Away' => Away
    BY <2>2, <2>3, <2>4 DEF Away
  <2>6. Broadcast(Event(owner', epoch', source', FALSE))
    BY <2>2
  <2>7. \A b \in AllBars : b <= epoch' + 1 /\ b < epoch' /\ b <= epoch'
    BY <1>4, <2>2
  <2>8. /\ owner' \in Cells /\ source' = NoCell
        /\ epoch \in Nat /\ epoch' \in Nat /\ epoch <= epoch' /\ epoch' > 0
    BY <1>4, <2>2
  <2> QED BY <1>1, <2>3, <2>5, <2>6, <2>7, <2>8
<1> QED BY <1>3, <1>5, <1>6, <1>7, <1>8 DEF TableStep

LEMMA TableStepStep ==
    ASSUME RoutesStay, GateInv, BaseInv', TableStep
    PROVE  GateInv'
<1> USE DEF GateInv, BaseInv
<1>0. RouteType /\ ChanType /\ RegType /\ ReqType /\ DrainType /\ HistType
  BY TypeParts
<1> DEFINE ev == Event(owner', epoch', source', FALSE)
<1>1. /\ RouteOK' /\ RouteType' /\ Broadcast(ev)
      /\ owner' \in Cells /\ source' \in {NoCell, owner'}
      /\ epoch \in Nat /\ epoch' \in Nat /\ epoch <= epoch' /\ epoch' > 0
      /\ owner' = Here /\ source' = NoCell => \A b \in AllBars : b <= epoch'
      /\ Away' => Away
      /\ \A b \in AllBars : b <= epoch' + 1 /\ (Resting' => b = 0 \/ b < epoch')
      /\ known' = IF owner' = Here /\ source' = NoCell THEN known \cup {epoch'} ELSE known
  BY TableDoes
<1>2. /\ UNCHANGED <<gates, made, cur, rpc, rgate, token>>
      /\ UNCHANGED <<dpc, dgate, bar, cutoff, ctx, result, drained, ajar, shut, slipped>>
  BY TableDoes DEF registry, requests, drains, marks
<1>3. /\ ev \in Events /\ ev.active = owner' /\ ev.epoch = epoch' /\ ev.source = source'
      /\ ~ev.deleted /\ ev = Event(owner', epoch', source', FALSE)
  BY <1>1 DEF RouteType, Event, Events
<1> HIDE DEF ev
<1>4. Gate' = Gate /\ Barriers' = Barriers /\ AllBars' = AllBars /\ Inside' = Inside
  BY <1>2 DEF Gate, Barriers, AllBars, Asleep, Inside
<1>5. watch' # <<>> \/ lost'
  <2>1. CASE Len(watch) < Buffer
    <3>1. watch' = Append(watch, ev) /\ watch \in Seq(Events)
      BY <1>0, <1>1, <2>1 DEF Broadcast, ChanType
    <3> QED BY <1>3, <3>1, PendingAppend
  <2>2. CASE ~(Len(watch) < Buffer)
    <3>1. Len(watch) = Buffer
      BY <1>0, <2>2, Constants DEF ChanType
    <3> QED BY <1>1, <3>1 DEF Broadcast
  <2> QED BY <2>1, <2>2
<1>6. WatchOK'
  <2>1. EventOK(ev, epoch')
    <3>1. ev.epoch \in Nat /\ ev.epoch <= epoch'
      BY <1>1, <1>3
    <3>2. ev.active \in Cells /\ ev.source \in {NoCell, ev.active}
      BY <1>1, <1>3
    <3> QED BY <1>3, <3>1, <3>2 DEF EventOK
  <2>2. \A x \in Pending : EventOK(x, epoch')
    BY <1>1 DEF WatchOK, EventOK
  <2>3. CASE Len(watch) < Buffer
    <3>1. watch' = Append(watch, ev) /\ watch \in Seq(Events)
      BY <1>0, <1>1, <2>3 DEF Broadcast, ChanType
    <3>2. /\ Pending' = Pending \cup {ev}
          /\ Len(watch') = Len(watch) + 1 /\ watch'[Len(watch) + 1] = ev
      BY <1>3, <3>1, PendingAppend
    <3> QED BY <1>3, <2>1, <2>2, <3>2 DEF WatchOK
  <2>4. CASE ~(Len(watch) < Buffer)
    <3>1. watch' = watch /\ lost'
      <4>1. Len(watch) = Buffer
        BY <1>0, <2>4, Constants DEF ChanType
      <4> QED BY <1>1, <2>4, <4>1 DEF Broadcast
    <3>2. Pending' = Pending
      BY <3>1 DEF Pending
    <3> QED BY <2>2, <3>1, <3>2 DEF WatchOK
  <2> QED BY <2>3, <2>4
<1>7. EpochsOK'
  <2>1. ASSUME NEW e \in known' PROVE 0 < e /\ e <= epoch'
    <3>1. CASE e \in known
      <4>1. e \in Nat /\ 0 < e /\ e <= epoch
        BY <1>0, <3>1 DEF EpochsOK, HistType
      <4> QED BY <1>1, <4>1
    <3>2. CASE e = epoch'
      BY <1>1, <3>2
    <3> QED BY <1>1, <3>1, <3>2
  <2>2. cur' # 0 => Gate'.epoch <= epoch'
    BY <1>0, <1>1, <1>2, <1>4, GateType DEF EpochsOK
  <2>3. known \subseteq known'
    BY <1>1
  <2> QED BY <1>1, <1>2, <1>4, <2>1, <2>2, <2>3 DEF EpochsOK
<1>8. Overdue'
  <2> SUFFICES ASSUME Away' PROVE known' = known
    BY <1>1, <1>2 DEF Overdue
  <2>1. owner' = Here => ~Resting'
    BY DEF Away
  <2>2. owner' = Here => source' = owner'
    BY <1>1, <2>1 DEF RouteOK
  <2> QED BY <1>1, <2>2, Constants
<1>9. OpenPast'
  <2>1. drained \subseteq AllBars
    BY DEF AllBars
  <2> QED BY <1>1, <1>2, <1>4, <2>1 DEF OpenPast
<1>10. InsidePast'
  BY <1>2, <1>4 DEF InsidePast
<1>11. FreshOK' /\ GateAligned'
  BY <1>5 DEF FreshOK, GateAligned
<1> QED BY <1>1, <1>6, <1>7, <1>8, <1>9, <1>10, <1>11

LEMMA RestartStep ==
    ASSUME RoutesStay, GateInv, BaseInv', Restart
    PROVE  GateInv'
<1> USE DEF GateInv, BaseInv
<1>0. RouteType /\ HistType
  BY TypeParts
<1>1. /\ cur' = 0 /\ watch' = <<>> /\ lost' = TRUE
      /\ rpc' = [r \in Requests |-> "idle"] /\ bar' = [d \in Drains |-> 0]
      /\ known' = IF owner = Here /\ Resting THEN {epoch} ELSE {}
      /\ UNCHANGED <<owner, epoch, source, target, deletes, drained>>
  BY DEF Restart, RoutesStay, NoRouteEpochs, tenant
<1>2. Pending' = {}
  BY <1>1 DEF Pending
<1>3. Resting' <=> Resting
  BY <1>1 DEF Resting, Table!Idle
<1>4. RouteOK' /\ WatchOK'
  BY <1>1, <1>2, <1>3 DEF RouteOK, WatchOK
<1>5. \A e \in known' : e = epoch /\ owner = Here /\ Resting /\ epoch > 0
  BY <1>0, <1>1, Constants DEF RouteOK, RouteType
<1>6. EpochsOK'
  <2>1. \A b \in AllBars' : b \in AllBars \/ b = 0
    BY <1>1 DEF AllBars
  <2> QED BY <1>0, <1>1, <1>3, <1>5, <2>1 DEF EpochsOK, RouteType
<1>7. Overdue'
  BY <1>1, <1>3, <1>5 DEF Overdue, Away
<1>8. OpenPast'
  <2>1. \A b \in drained : Resting => b <= epoch
    BY <1>0 DEF EpochsOK, AllBars, RouteType, HistType
  <2> QED BY <1>1, <1>5, <2>1 DEF OpenPast
<1>9. InsidePast' /\ FreshOK' /\ GateAligned'
  BY <1>1 DEF InsidePast, Inside, FreshOK, GateAligned
<1> QED BY <1>4, <1>6, <1>7, <1>8, <1>9

-----------------------------------------------------------------------------
(* GateInv is inductive. *)

LEMMA GateInvInit == RoutesStay /\ Init => GateInv
<1> SUFFICES ASSUME RoutesStay, Init PROVE GateInv
  OBVIOUS
<1>1. /\ owner = NoCell /\ epoch = 0 /\ source = NoCell /\ target = NoCell
      /\ watch = <<>> /\ deletes = 0
  BY DEF Init, TableInit, Table!Init
<1>2. /\ cur = 0 /\ rpc = [r \in Requests |-> "idle"] /\ bar = [d \in Drains |-> 0]
      /\ drained = {} /\ known = {}
  BY DEF Init, NoRouteEpochs, RoutesStay
<1>3. Pending = {} /\ Resting
  BY <1>1 DEF Pending, Resting, Table!Idle
<1>4. RouteOK /\ WatchOK
  BY <1>1, <1>3 DEF RouteOK, WatchOK
<1>5. \A b \in AllBars : b = 0
  BY <1>2 DEF AllBars
<1>6. EpochsOK /\ Overdue /\ OpenPast
  BY <1>1, <1>2, <1>5 DEF EpochsOK, Overdue, OpenPast
<1>7. InsidePast /\ FreshOK /\ GateAligned
  BY <1>1, <1>2 DEF InsidePast, FreshOK, GateAligned
<1> QED BY <1>4, <1>6, <1>7, BaseInvInit DEF GateInv

LEMMA GateInvStutters ==
    ASSUME GateInv, BaseInv', UNCHANGED vars
    PROVE  GateInv'
<1>1. /\ UNCHANGED <<owner, epoch, source, target, watch, lost, deletes, gates, made, cur>>
      /\ UNCHANGED <<rpc, rgate, token, dpc, dgate, bar, cutoff, ctx, result, drained>>
      /\ UNCHANGED <<known, restarts, ajar, shut, slipped>>
  BY DEF vars, tableVars, tenant, registry, requests, drains, marks
<1>2. RouteOK' /\ WatchOK' /\ EpochsOK' /\ Overdue' /\ FreshOK'
  BY <1>1 DEF GateInv, RouteOK, WatchOK, EpochsOK, Overdue, Away, FreshOK, Gate,
              AllBars, Pending, Resting, Table!Idle
<1>3. OpenPast' /\ InsidePast' /\ GateAligned'
  BY <1>1 DEF GateInv, OpenPast, InsidePast, GateAligned, Gate, Inside, Barriers, Asleep,
              Resting, Table!Idle
<1> QED BY <1>2, <1>3 DEF GateInv

LEMMA GateInvNext == RoutesStay /\ GateInv /\ [Next]_vars => GateInv'
<1> SUFFICES ASSUME RoutesStay, GateInv, [Next]_vars PROVE GateInv'
  OBVIOUS
<1>0. BaseInv'
  BY BaseInvNext DEF GateInv, RoutesStay, NeverReset
<1>1. ASSUME NEW r \in Requests, Enter(r) \/ Exit(r) PROVE GateInv'
  BY <1>0, <1>1, TryEnterStep, AdmitStep, RequestStep DEF Enter, Exit
<1>2. ASSUME NEW d \in Drains,
             CloseAndDrain(d) \/ DrainStep(d) \/ CtxDone(d) \/ CtxBroadcast(d)
      PROVE  GateInv'
  BY <1>0, <1>2, CloseAndDrainStep, DrainStepStep, SleeperStep DEF DrainStep
<1>3. ASSUME Observe \/ TableStep \/ Restart PROVE GateInv'
  BY <1>0, <1>3, ObserveStep, TableStepStep, RestartStep
<1> QED BY <1>0, <1>1, <1>2, <1>3, GateInvStutters DEF Next

LEMMA GateInvariant == RoutesStay => (Spec => []GateInv)
<1> SUFFICES ASSUME RoutesStay PROVE Spec => []GateInv
  OBVIOUS
<1>1. Init => GateInv
  BY GateInvInit
<1>2. GateInv /\ [Next]_vars => GateInv'
  BY GateInvNext
<1> QED BY <1>1, <1>2, PTL DEF Spec

-----------------------------------------------------------------------------
(* Theorems.  The first four need only that the registry forgets no gate.   *)

(* The variables keep their types: in particular every gate that a restart  *)
(* or a lookup creates has a number, and the channel its capacity.          *)
THEOREM TypeCorrect == NeverReset => (Spec => []TypeOK)
<1>1. BaseInv => TypeOK
  BY DEF BaseInv
<1> QED BY <1>1, BaseInvariant, PTL

(* The in-flight set is the set of tokens held, and no two are equal,       *)
(* although lookup, admission and release are steps of their own (TryEnter, *)
(* Leave).                                                                  *)
THEOREM InflightIsExact == NeverReset => (Spec => []InflightExact)
<1>1. BaseInv => InflightExact
  BY DEF BaseInv
<1> QED BY <1>1, BaseInvariant, PTL

(* A drain that returns a clean cut leaves no handler of the tenant running *)
(* on this instance (Cutoff.Drained), also when it comes late or the watch  *)
(* has lost events.                                                         *)
THEOREM CleanCutIsEmpty == NeverReset => (Spec => DrainedIsEmpty)
<1> DEFINE Clean == \A d \in Drains : result[d] # "drained" /\ result'[d] = "drained"
                                        => Inside' = {}
<1> SUFFICES ASSUME NeverReset PROVE Spec => DrainedIsEmpty
  OBVIOUS
<1>1. BaseInv /\ [Next]_vars => [Clean]_vars
  <2> SUFFICES ASSUME BaseInv, Next, NEW d \in Drains, result[d] # "drained",
                      result'[d] = "drained"
               PROVE  Inside' = {}
    OBVIOUS
  <2>1. DrainType
    BY TypeParts DEF BaseInv
  <2>2. result' # result
    OBVIOUS
  <2>3. PICK x \in Drains : CloseAndDrain(x) \/ CloseForBarrier(x) \/ Recheck(x)
    BY <2>2 DEF Next, Enter, Exit, DrainStep, Observe, TableStep, Restart, TryEnter, Admit,
                Reject, Leave, Release, Wait, CtxDone, CtxBroadcast, drains
  <2>4. ~CloseAndDrain(x)
    BY <2>1 DEF CloseAndDrain, DrainType
  <2>5. rpc' = rpc /\ Gate.inflight = {} /\ cur # 0
    BY <2>3, <2>4, DrainBase, DrainDoes
  <2>6. Admitted = {}
    BY <2>5 DEF BaseInv, InflightExact, Gate
  <2> QED BY <2>5, <2>6 DEF Admitted, Inside
<1> QED BY <1>1, BaseInvariant, PTL DEF Spec, DrainedIsEmpty

(* No admission passes a barrier: while a drain sleeps its gate issues no   *)
(* sequence number, until it is opened past the barrier or by an event      *)
(* older than it, also when drains come late, overlap or outlive their move *)
(* and when the watch has lost events (Cutoff.MaxSeq).                      *)
THEOREM CutoffIsLast == NeverReset => (Spec => CutoffHolds)
<1> DEFINE Holds == \A d \in Asleep :
                       gates[dgate[d]].epoch < bar[d] /\ dgate[d] \notin ajar
                           => gates'[dgate[d]].nextSeq <= gates[dgate[d]].nextSeq
<1> SUFFICES ASSUME NeverReset PROVE Spec => CutoffHolds
  OBVIOUS
<1>1. CutInv /\ [Next]_vars => [Holds]_vars
  <2> SUFFICES ASSUME CutInv, Next, NEW d \in Asleep, gates[dgate[d]].epoch < bar[d],
                      dgate[d] \notin ajar
               PROVE  gates'[dgate[d]].nextSeq <= gates[dgate[d]].nextSeq
    OBVIOUS
  <2> USE DEF CutInv, BaseInv
  <2>1. RegType /\ DrainType /\ HistType /\ RefsOK
    BY TypeParts
  <2>2. d \in Drains /\ cur # 0 /\ dgate[d] = cur /\ Gate.state # "open"
    BY DEF Asleep, RefsOK, CutOK, Gate
  <2>3. cur \in GateIds /\ Gate \in Gates /\ Gate.nextSeq \in Nat
    BY <2>1, <2>2, GateType
  <2> SUFFICES gates'[cur].nextSeq <= Gate.nextSeq
    BY <2>2 DEF Gate
  <2>4. CASE UNCHANGED gates
    BY <2>3, <2>4 DEF Gate
  <2>5. ASSUME NEW e \in Nat, GetOrCreate(e) PROVE UNCHANGED gates
    BY <2>2, <2>5 DEF GetOrCreate
  <2>6. ASSUME NEW r \in Requests, Enter(r) \/ Exit(r)
        PROVE  gates'[cur].nextSeq <= Gate.nextSeq
    <3>1. CASE TryEnter(r)
      BY <2>1, <2>4, <2>5, <3>1 DEF TryEnter, HistType
    <3>2. ~Admit(r)
      BY <2>2 DEF Admit, Admits, RefsOK, Gate
    <3>3. CASE Release(r)
      <4>1. rgate[r] = cur
        BY <3>3 DEF Release, RefsOK
      <4>2. Gate'.nextSeq = Gate.nextSeq /\ cur' = cur
        BY <2>1, <2>3, <3>3, <4>1 DEF Release, RegType, Gates, Gate
      <4> QED BY <2>3, <4>2 DEF Gate
    <3>4. CASE Reject(r) \/ Leave(r)
      BY <2>4, <3>4 DEF Reject, Leave, registry
    <3> QED BY <2>6, <3>1, <3>2, <3>3, <3>4 DEF Enter, Exit
  <2>7. ASSUME NEW x \in Drains,
               CloseAndDrain(x) \/ DrainStep(x) \/ CtxDone(x) \/ CtxBroadcast(x)
        PROVE  gates'[cur].nextSeq <= Gate.nextSeq
    <3>1. CASE CloseAndDrain(x)
      BY <2>4, <2>5, <3>1 DEF CloseAndDrain
    <3>2. CASE CloseForBarrier(x) \/ Recheck(x)
      <4>1. Gate'.nextSeq = Gate.nextSeq /\ cur' = cur
        BY <3>2, DrainDoes
      <4> QED BY <2>3, <4>1 DEF Gate
    <3>3. CASE Wait(x) \/ CtxDone(x) \/ CtxBroadcast(x)
      BY <2>4, <3>3 DEF Wait, CtxDone, CtxBroadcast, registry
    <3> QED BY <2>7, <3>1, <3>2, <3>3 DEF DrainStep
  <2>8. CASE Observe
    BY <2>2, <2>3, <2>8, ObserveKeeps DEF Gate
  <2>9. CASE TableStep
    BY <2>4, <2>9 DEF TableStep, registry
  <2>10. CASE Restart
    BY <2>3, <2>10, NewGateType, 0 \in Nat DEF Restart
  <2> QED BY <2>6, <2>7, <2>8, <2>9, <2>10 DEF Next
<1> QED BY <1>1, CutInvariant, PTL DEF Spec, CutoffHolds

(* The barrier of a move: once the tenant has moved to another cell a       *)
(* handler of this cell works for it only if it was admitted by a gate that *)
(* an ACTIVE event older than a barrier in force had opened, however        *)
(* requests, drains, deadlines, announcements, losses of the channel and    *)
(* restarts interleave (TryEnter, CloseForBarrier, Leave, the controller's  *)
(* loop).                                                                   *)
THEOREM BarrierHolds == RoutesStay => (Spec => []NoOverlap)
<1>1. GateInv => NoOverlap
  <2> SUFFICES ASSUME GateInv, owner # Here, NEW r \in Inside, r \notin slipped PROVE FALSE
    BY DEF NoOverlap
  <2>1. token[r].epoch \in known /\ token[r].epoch \in Nat
    BY TypeParts DEF GateInv, BaseInv, EpochsOK, Inside, HistType
  <2>2. PICK b \in drained : token[r].epoch < b
    BY <2>1 DEF GateInv, Overdue, Away
  <2>3. b <= token[r].epoch /\ b \in Nat
    BY TypeParts DEF GateInv, BaseInv, InsidePast, HistType
  <2> QED BY <2>1, <2>2, <2>3
<1> QED BY <1>1, GateInvariant, PTL

(* Once the controller has seen the latest change of the table the gate     *)
(* accepts work only if the tenant rests here, at the route's epoch, and    *)
(* does accept it then unless a drain that arrived after its move was       *)
(* settled has shut it, whatever the channel lost before (Reconcile).       *)
THEOREM ControllerAligns == RoutesStay => (Spec => []GateAligned)
<1>1. GateInv => GateAligned
  BY DEF GateInv
<1> QED BY <1>1, GateInvariant, PTL
=============================================================================
