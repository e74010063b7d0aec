--------------------------- MODULE AdmissionGate ---------------------------
(***************************************************************************)
(* The L2 admission barrier of one service instance in cell Here           *)
(* (cells/gate.go) for one tenant, with everything that acts on it: the    *)
(* requests that the interceptors of cells/middleware.go admit and         *)
(* release, the GateController that follows the routing table's watch      *)
(* (cells/controller.go), and the move controller's drains (GateDrainer in *)
(* cells/move.go).                                                         *)
(*                                                                         *)
(* A gate is an object: a goroutine that has looked it up in the registry  *)
(* keeps its pointer while the registry may forget it (Reset), so lookup   *)
(* and lock are separate steps.  CloseForBarrier sleeps on the gate's      *)
(* condition variable: its check of the in-flight set, its registration as *)
(* a waiter and its wake-up are separate steps too, because the deadline's *)
(* Broadcast does not take the gate's mutex.                               *)
(***************************************************************************)
EXTENDS RouteWatch, FiniteSetsExt

CONSTANTS
    Here,            \* this instance's cell
    HereIsDefault,   \* Here is the fail-safe default cell
    Requests,        \* concurrent requests (handler goroutines)
    Drains,          \* concurrent CloseAndDrain calls
    MaxSeq,          \* bound: admissions of one process
    MaxRestarts      \* bound: restarts of the instance

ASSUME GateAssumption ==
    /\ Here \in Cells
    /\ HereIsDefault \in BOOLEAN
    /\ MaxSeq \in Nat /\ MaxRestarts \in Nat

VARIABLES
    gates,      \* the gate objects, by number
    made,       \* how many of them have been created
    cur,        \* the registry's entry for the tenant (0: none)
    rpc,        \* control point of each request
    rgate,      \* the gate a request has looked up (0: none)
    token,      \* the request's RouteEpoch and AdmissionSeq
    dpc,        \* control point of each drain
    dgate,      \* the gate a drain has looked up
    bar,        \* barrier epoch of each drain
    cutoff,     \* Cutoff.MaxSeq of each drain
    ctx,        \* "live", "done" (deadline passed) or "told" (and broadcast)
    result,     \* "none", "drained" or "forced"
    drained,    \* history: barrier epochs a drain has returned clean for
    known,      \* epochs at which this instance's router may admit to Here
    ajar,       \* history: gates that an event older than a barrier has opened
    shut,       \* history: gates that a drain of a settled move has shut
    slipped,    \* history: requests that came in by a gate left ajar
    restarts

registry == <<gates, made, cur>>
requests == <<rpc, rgate, token>>
drains   == <<dpc, dgate, bar, cutoff, ctx, result, drained>>
marks    == <<ajar, shut, slipped>>
vars     == <<tableVars, registry, requests, drains, known, marks, restarts>>

-----------------------------------------------------------------------------
(* Gates.  acceptingNew is TRUE exactly when the state is "open". *)

GateIds == 1 .. (MaxDeletes + 1)

Gates == [state : {"open", "draining", "closed"}, epoch : Nat, nextSeq : Nat,
          cutoffSeq : Nat, inflight : SUBSET Nat]

NewGate(e) == [state |-> "open", epoch |-> e, nextSeq |-> 0, cutoffSeq |-> 0,
               inflight |-> {}]

(* getOrCreate: the number of the tenant's gate, creating it at epoch e. *)
Found == IF cur = 0 THEN made + 1 ELSE cur

GetOrCreate(e) ==
    /\ cur' = Found
    /\ made' = IF cur = 0 THEN made + 1 ELSE made
    /\ gates' = IF cur = 0 THEN [gates EXCEPT ![Found] = NewGate(e)] ELSE gates

(* A drain that has checked the in-flight set holds the mutex until it is   *)
(* registered as a waiter.                                                  *)
Unlocked(g) == \A d \in Drains : dpc[d] = "toWait" => dgate[d] # g

(* Mutant: Open advances the epoch and leaves the gate shut. *)
OpenedShut(g, e) == IF e >= g.epoch THEN [g EXCEPT !.epoch = e] ELSE g

(* Open: a lower epoch is ignored. *)
Opened(g, e) ==
    IF e >= g.epoch THEN [g EXCEPT !.epoch = e, !.state = "open"] ELSE g

(* beginDrain, and the first half of CloseForBarrier. *)
Draining(g) ==
    IF g.state # "closed"
    THEN [g EXCEPT !.state = "draining", !.cutoffSeq = g.nextSeq]
    ELSE g

(* closeGate. *)
Closed(g) == [g EXCEPT !.state = "closed"]

(* cond.Broadcast on gate g: the drains registered as waiters wake up. *)
Woken(g) == [d \in Drains |-> IF dpc[d] = "waiting" /\ dgate[d] = g
                              THEN "woken" ELSE dpc[d]]

(* Drains that have shut their gate and wait, and the barriers in force.    *)
Asleep == {d \in Drains : dpc[d] \in {"toWait", "waiting", "woken"}}

Barriers == drained \cup {bar[d] : d \in Asleep}

-----------------------------------------------------------------------------
(* Requests: the interceptors' TryEnter, handler, Leave. *)

NoToken == [epoch |-> 0, seq |-> 0]

(* The call is over: its pointer and its token are gone. *)
Gone(r) == /\ rpc' = [rpc EXCEPT ![r] = "idle"]
           /\ rgate' = [rgate EXCEPT ![r] = 0]
           /\ token' = [token EXCEPT ![r] = NoToken]

(* Resolve has answered: Here, at some epoch of known (RouteCache shows     *)
(* that the interceptors pass no other).  TryEnter looks the gate up, or    *)
(* opens it lazily.                                                         *)
TryEnter(r) ==
    /\ rpc[r] = "idle"
    /\ \E e \in known :
         /\ GetOrCreate(e)
         /\ token' = [token EXCEPT ![r] = [epoch |-> e, seq |-> 0]]
    /\ rgate' = [rgate EXCEPT ![r] = Found]
    /\ rpc' = [rpc EXCEPT ![r] = "entering"]
    /\ UNCHANGED <<tableVars, drains, known, marks, restarts>>

(* Mutant: only the epoch is compared. *)
AdmitsAnyState(g, e) == g.epoch = e

Issued == MapThenSumSet(LAMBDA i : gates[i].nextSeq, 1 .. made)

Admits(g, e) == g.state = "open" /\ g.epoch = e

Admit(r) ==
    LET g == gates[rgate[r]] IN
    /\ rpc[r] = "entering" /\ Unlocked(rgate[r])
    /\ Admits(g, token[r].epoch)
    /\ Issued < MaxSeq
    /\ gates' = [gates EXCEPT
          ![rgate[r]].nextSeq = g.nextSeq + 1,
          ![rgate[r]].inflight = g.inflight \cup {g.nextSeq + 1}]
    /\ token' = [token EXCEPT ![r].seq = g.nextSeq + 1]
    /\ rpc' = [rpc EXCEPT ![r] = "inside"]
    /\ slipped' = IF rgate[r] \in ajar THEN slipped \cup {r} ELSE slipped
    /\ UNCHANGED <<tableVars, made, cur, rgate, drains, known, ajar, shut, restarts>>

(* ErrTenantDraining or ErrStaleRouteEpoch. *)
Reject(r) ==
    /\ rpc[r] = "entering" /\ Unlocked(rgate[r])
    /\ ~Admits(gates[rgate[r]], token[r].epoch)
    /\ Gone(r)
    /\ UNCHANGED <<tableVars, registry, drains, known, marks, restarts>>

(* The handler has returned; Leave looks up the gate the registry has now,  *)
(* which need not be the one that issued the token.                         *)
Leave(r) ==
    /\ rpc[r] = "inside"
    /\ \/ cur = 0 /\ Gone(r)
       \/ /\ cur # 0
          /\ rpc' = [rpc EXCEPT ![r] = "leaving"]
          /\ rgate' = [rgate EXCEPT ![r] = cur]
          /\ UNCHANGED token
    /\ slipped' = slipped \ {r}
    /\ UNCHANGED <<tableVars, registry, drains, known, ajar, shut, restarts>>

(* Mutant: the set is tested before the number is deleted from it. *)
SignalsEarly(g, left) == g.state = "draining" /\ g.inflight = {}

Left(g, seq) == g.inflight \ {seq}

Signals(g, left) == g.state = "draining" /\ left = {}

Release(r) ==
    LET g == gates[rgate[r]]
        left == Left(g, token[r].seq)
    IN
    /\ rpc[r] = "leaving" /\ Unlocked(rgate[r])
    /\ gates' = [gates EXCEPT ![rgate[r]].inflight = left]
    /\ dpc' = IF Signals(g, left) THEN Woken(rgate[r]) ELSE dpc
    /\ Gone(r)
    /\ UNCHANGED <<tableVars, made, cur, dgate, bar, cutoff, ctx, result, drained,
                   known, marks, restarts>>

-----------------------------------------------------------------------------
(* Drains: GateDrainer.CloseAndDrain driving CloseForBarrier. *)

(* A driver of the current move calls it with the barrier epoch and looks   *)
(* the gate up.                                                             *)
CloseAndDrain(d) ==
    /\ dpc[d] = "idle" /\ ~Resting /\ source = Here
    /\ GetOrCreate(0)
    /\ dgate' = [dgate EXCEPT ![d] = Found]
    /\ bar' = [bar EXCEPT ![d] = epoch + 1]
    /\ ctx' = [ctx EXCEPT ![d] = "live"]
    /\ result' = [result EXCEPT ![d] = "none"]
    /\ dpc' = [dpc EXCEPT ![d] = "closing"]
    /\ UNCHANGED <<tableVars, requests, cutoff, drained, known, marks, restarts>>

(* Mutant: only admissions up to the cutoff count. *)
CutDrainedByCutoff(g) == \A seq \in g.inflight : seq > g.cutoffSeq

(* Cutoff.Drained. *)
CutDrained(g) == g.inflight = {}

(* One turn of the wait loop over gate g with cutoff c: wait, or return.    *)
WaitOrReturn(d, g, c) ==
    IF g.inflight # {} /\ ctx[d] = "live"
    THEN /\ dpc' = [dpc EXCEPT ![d] = "toWait"]
         /\ cutoff' = [cutoff EXCEPT ![d] = c]
         /\ UNCHANGED <<dgate, bar, ctx, result, drained>>
    ELSE /\ dpc' = [dpc EXCEPT ![d] = "idle"]
         /\ dgate' = [dgate EXCEPT ![d] = 0] /\ bar' = [bar EXCEPT ![d] = 0]
         /\ cutoff' = [cutoff EXCEPT ![d] = 0] /\ ctx' = [ctx EXCEPT ![d] = "live"]
         /\ result' = [result EXCEPT
               ![d] = IF CutDrained(g) THEN "drained" ELSE "forced"]
         /\ drained' = IF CutDrained(g) THEN drained \cup {bar[d]} ELSE drained

CloseForBarrier(d) ==
    LET g == Draining(gates[dgate[d]]) IN
    /\ dpc[d] = "closing" /\ Unlocked(dgate[d])
    /\ gates' = [gates EXCEPT ![dgate[d]] = g]
    /\ WaitOrReturn(d, g, g.cutoffSeq)
    /\ ajar' = ajar \ {dgate[d]}
    /\ shut' = IF g.state = "draining" /\ g.epoch > bar[d]
               THEN shut \cup {dgate[d]} ELSE shut
    /\ UNCHANGED <<tableVars, made, cur, requests, known, slipped, restarts>>

(* cond.Wait registers the waiter and releases the mutex. *)
Wait(d) ==
    /\ dpc[d] = "toWait"
    /\ dpc' = [dpc EXCEPT ![d] = "waiting"]
    /\ UNCHANGED <<tableVars, registry, requests, dgate, bar, cutoff, ctx, result,
                   drained, known, marks, restarts>>

(* It has been woken and has the mutex again. *)
Recheck(d) ==
    /\ dpc[d] = "woken" /\ Unlocked(dgate[d])
    /\ WaitOrReturn(d, gates[dgate[d]], cutoff[d])
    /\ UNCHANGED <<tableVars, registry, requests, known, marks, restarts>>

(* The barrier deadline passes, or the caller gives up. *)
CtxDone(d) ==
    /\ dpc[d] # "idle" /\ ctx[d] = "live"
    /\ ctx' = [ctx EXCEPT ![d] = "done"]
    /\ UNCHANGED <<tableVars, registry, requests, dpc, dgate, bar, cutoff, result,
                   drained, known, marks, restarts>>

(* The goroutine that watches ctx broadcasts, once, without the mutex. *)
CtxBroadcast(d) ==
    /\ dpc[d] \in {"toWait", "waiting", "woken"} /\ ctx[d] = "done"
    /\ ctx' = [ctx EXCEPT ![d] = "told"]
    /\ dpc' = Woken(dgate[d])
    /\ UNCHANGED <<tableVars, registry, requests, dgate, bar, cutoff, result,
                   drained, known, marks, restarts>>

-----------------------------------------------------------------------------
(* GateController's loop: one event.  Creating an absent gate and changing  *)
(* its state are one step here: what a request could do in between, it      *)
(* could have done by opening the gate lazily itself.                       *)

(* The tenant's gate, created at epoch e if it is absent. *)
Current(e) == IF cur = 0 THEN NewGate(e) ELSE gates[cur]

Store(g, wakes) ==
    /\ Unlocked(Found)
    /\ gates' = [gates EXCEPT ![Found] = g]
    /\ cur' = Found /\ made' = IF cur = 0 THEN made + 1 ELSE made
    /\ dpc' = IF wakes THEN Woken(Found) ELSE dpc

Reconcile(ev) ==
    CASE ev.source = Here ->
           Store(Draining(Current(0)), FALSE)
      [] ev.source = NoCell /\ ev.active = Here ->
           Store(Opened(Current(ev.epoch), ev.epoch), FALSE)
      [] ev.source # Here /\ ev.active \notin {Here, NoCell} ->
           Store(Closed(Current(0)), TRUE)
      [] OTHER -> UNCHANGED <<registry, dpc>>

(* Reset on the default cell, closeGate on any other. *)
Deleted ==
    IF HereIsDefault
    THEN cur' = 0 /\ UNCHANGED <<gates, made, dpc>>
    ELSE Store(Closed(Current(0)), TRUE)

(* The event opens the gate. *)
Opens(ev) == /\ ~ev.deleted /\ ev.source = NoCell /\ ev.active = Here
             /\ ev.epoch >= Current(ev.epoch).epoch

Observe ==
    LET ev == Head(watch) IN
    /\ watch # <<>>
    /\ watch' = Tail(watch)
    /\ IF ev.deleted THEN Deleted ELSE Reconcile(ev)
    /\ ajar' = IF Opens(ev) /\ \E b \in Barriers : b > ev.epoch
               THEN ajar \cup {Found}
               ELSE {g \in ajar : gates'[g].state = "open" /\ (Opens(ev) => g # Found)}
    /\ shut' = IF Opens(ev) THEN shut \ {Found} ELSE shut
    /\ UNCHANGED <<tenant, lost, deletes, requests, dgate, bar, cutoff, ctx, result,
                   drained, known, slipped, restarts>>

-----------------------------------------------------------------------------
(* The table changes; the router may learn the new route at once.  A        *)
(* tenant without a route, or whose lookup failed, enters the default cell  *)
(* at epoch 0.                                                              *)

NoRouteEpochs == IF HereIsDefault THEN {0} ELSE {}

Learns == known' = IF owner' = Here /\ source' = NoCell
                   THEN known \cup {epoch'} ELSE known

(* The move controller commits a move away from Here only once a drain of   *)
(* its barrier has returned clean (a forced cut is an error and rolls back).*)
Commits(c) == c = target /\ source = Here => (epoch + 1) \in drained

TableStep ==
    /\ \/ \E c \in Cells : Place(c) \/ BeginMove(c) \/ (Commits(c) /\ Settle(c))
       \/ NextPhase
       \/ DeleteRoute
    /\ Learns
    /\ UNCHANGED <<registry, requests, drains, marks, restarts>>

(* The instance restarts: gates, requests, drains and the router's cache    *)
(* are gone, and the new watch starts empty, without a snapshot: whatever   *)
(* the table says now, the new watcher was not told.                        *)
Restart ==
    /\ restarts < MaxRestarts
    /\ restarts' = restarts + 1
    /\ gates' = [g \in GateIds |-> NewGate(0)]
    /\ made' = 0 /\ cur' = 0
    /\ rpc' = [r \in Requests |-> "idle"]
    /\ rgate' = [r \in Requests |-> 0]
    /\ token' = [r \in Requests |-> NoToken]
    /\ dpc' = [d \in Drains |-> "idle"]
    /\ dgate' = [d \in Drains |-> 0]
    /\ bar' = [d \in Drains |-> 0]
    /\ cutoff' = [d \in Drains |-> 0]
    /\ ctx' = [d \in Drains |-> "live"]
    /\ result' = [d \in Drains |-> "none"]
    /\ ajar' = {} /\ shut' = {} /\ slipped' = {}
    /\ watch' = <<>> /\ lost' = TRUE
    /\ known' = NoRouteEpochs \cup (IF owner = Here /\ Resting THEN {epoch} ELSE {})
    /\ UNCHANGED <<tenant, deletes, drained>>

Init ==
    /\ TableInit
    /\ gates = [g \in GateIds |-> NewGate(0)]
    /\ made = 0 /\ cur = 0
    /\ rpc = [r \in Requests |-> "idle"]
    /\ rgate = [r \in Requests |-> 0]
    /\ token = [r \in Requests |-> NoToken]
    /\ dpc = [d \in Drains |-> "idle"]
    /\ dgate = [d \in Drains |-> 0]
    /\ bar = [d \in Drains |-> 0]
    /\ cutoff = [d \in Drains |-> 0]
    /\ ctx = [d \in Drains |-> "live"]
    /\ result = [d \in Drains |-> "none"]
    /\ ajar = {} /\ shut = {} /\ slipped = {}
    /\ drained = {}
    /\ known = NoRouteEpochs
    /\ restarts = 0

Enter(r) == TryEnter(r) \/ Admit(r) \/ Reject(r)
Exit(r)  == Leave(r) \/ Release(r)
DrainStep(d) == CloseForBarrier(d) \/ Wait(d) \/ Recheck(d)

Next == \/ \E r \in Requests : Enter(r) \/ Exit(r)
        \/ \E d \in Drains : \/ CloseAndDrain(d) \/ DrainStep(d)
                             \/ CtxDone(d) \/ CtxBroadcast(d)
        \/ Observe
        \/ TableStep
        \/ Restart

Spec == Init /\ [][Next]_vars

(* The goroutine of a drain runs, and handlers return. *)
FairSpec == /\ Spec
            /\ \A r \in Requests : WF_vars(Exit(r))
            /\ \A d \in Drains : WF_vars(DrainStep(d))

(* Deadline watchers and the controller loop run too, but nothing obliges a *)
(* handler to return.                                                       *)
StuckHandlerSpec ==
    /\ Spec /\ WF_vars(Observe)
    /\ \A r \in Requests : WF_vars(Release(r))
    /\ \A d \in Drains : WF_vars(DrainStep(d)) /\ WF_vars(CtxBroadcast(d))

-----------------------------------------------------------------------------
(* Properties. *)

Inside == {r \in Requests : rpc[r] = "inside"}
Admitted == {r \in Requests : rpc[r] \in {"inside", "leaving"}}

TypeOK ==
    /\ tenant \in (Cells \cup {NoCell}) \X Nat \X (Cells \cup {NoCell}) \X (Cells \cup {NoCell})
    /\ watch \in Seq(Events) /\ Len(watch) <= Buffer /\ lost \in BOOLEAN
    /\ gates \in [GateIds -> Gates]
    /\ made \in 0 .. (MaxDeletes + 1) /\ cur \in 0 .. made
    /\ rpc \in [Requests -> {"idle", "entering", "inside", "leaving"}]
    /\ rgate \in [Requests -> 0 .. made]
    /\ token \in [Requests -> [epoch : Nat, seq : Nat]]
    /\ dpc \in [Drains -> {"idle", "closing", "toWait", "waiting", "woken"}]
    /\ dgate \in [Drains -> 0 .. made]
    /\ bar \in [Drains -> Nat] /\ cutoff \in [Drains -> Nat]
    /\ ctx \in [Drains -> {"live", "done", "told"}]
    /\ result \in [Drains -> {"none", "drained", "forced"}]
    /\ drained \subseteq Nat /\ known \subseteq Nat
    /\ ajar \subseteq GateIds /\ shut \subseteq GateIds /\ slipped \subseteq Requests
    /\ restarts \in Nat /\ deletes \in Nat

(* The gate's in-flight set is exactly the sequence numbers of the requests *)
(* that hold a token: none is lost, none is released twice (TryEnter and    *)
(* Leave, lookups racing the controller).                                   *)
InflightExact ==
    /\ cur # 0 => gates[cur].inflight = {token[r].seq : r \in Admitted}
    /\ \A r, q \in Admitted : token[r].seq = token[q].seq => r = q

(* A drain that reports a clean cut reports the truth: at that moment no    *)
(* handler of the tenant is running on this instance (Cutoff.Drained).      *)
DrainedIsEmpty ==
    [][\A d \in Drains : result[d] # "drained" /\ result'[d] = "drained"
                            => Inside' = {}]_vars

(* The barrier: once the tenant has left, a handler of this cell works for  *)
(* it, whatever epoch its router believes in, only if it was admitted by a  *)
(* gate that an ACTIVE event older than a barrier in force had opened       *)
(* (CloseForBarrier, against late drains, lost events and lazy opens).      *)
NoOverlap == owner # Here /\ epoch > 1 => Inside \subseteq slipped

(* The controller keeps the gate aligned with the table: once it has seen   *)
(* the latest change, the gate accepts work only if the tenant rests here,  *)
(* and then at the route's epoch; and it does accept work then, unless a    *)
(* drain that arrived after its move was settled has shut it (Reconcile,    *)
(* against drains, lazy opens and earlier losses of the channel).           *)
GateAligned ==
    watch = <<>> /\ cur # 0 /\ ~lost =>
        LET g == gates[cur] IN
        /\ g.state = "open" => owner = Here /\ Resting /\ g.epoch = epoch
        /\ owner = Here /\ Resting => g.state = "open" \/ cur \in shut

(* A drain that goes to sleep returns once the handlers have, without the   *)
(* help of its deadline, unless the gate is opened, closed or forgotten     *)
(* under it (Broadcast in Leave, Wait in CloseForBarrier).                  *)
DrainCompletes ==
    \A d \in Drains :
        dpc[d] = "toWait" ~> \/ dpc[d] = "idle"
                            \/ gates[dgate[d]].state # "draining"
                            \/ dgate[d] # cur

(* No admission passes a barrier: while a drain sleeps, its gate issues no  *)
(* sequence number past the cutoff, to whoever holds a pointer to it, until *)
(* it is opened at an epoch past the barrier, or by an event older than it  *)
(* (Cutoff.MaxSeq).                                                         *)
CutoffHolds ==
    [][\A d \in Asleep :
         gates[dgate[d]].epoch < bar[d] /\ dgate[d] \notin ajar
             => gates'[dgate[d]].nextSeq <= gates[dgate[d]].nextSeq]_vars

-----------------------------------------------------------------------------
(* What comments of the repository say and the code does not do. *)

(* "so a stale upstream router cannot get work admitted" (GateController).  *)
StaleRouterRejected == owner # Here /\ epoch > 1 => Inside = {}

(* "keeps a GateRegistry's gates aligned with the routing table"            *)
(* (GateController), for an instance that has watched from the start.       *)
AlwaysAligned ==
    watch = <<>> /\ cur # 0 /\ restarts = 0 =>
        (gates[cur].state = "open" <=> owner = Here /\ Resting)

(* "On ctx deadline it returns a Cutoff marked Forced (it never waits       *)
(* forever)" (CloseForBarrier): whatever the handlers do.                   *)
DeadlineReturns ==
    \A d \in Drains : ctx[d] # "live" /\ dpc[d] # "idle" ~> dpc[d] = "idle"

(* "the default cell must admit at epoch 0 even though its gate may have    *)
(* advanced to a higher epoch" (Reset): once the deletion has been observed *)
(* the default cell's gate is absent, or open at epoch 0.                   *)
DefaultReadmits ==
    HereIsDefault /\ watch = <<>> /\ owner = NoCell /\ cur # 0 =>
        gates[cur].state = "open" /\ gates[cur].epoch = 0

(* "any drainers are released" (closeGate): a drain woken on a closed gate  *)
(* does not go back to sleep.                                               *)
CloseReleasesDrains ==
    [][\A d \in Drains :
         dpc[d] = "woken" /\ gates[dgate[d]].state = "closed" => dpc'[d] # "toWait"]_vars
=============================================================================
