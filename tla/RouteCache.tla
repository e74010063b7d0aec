----------------------------- MODULE RouteCache -----------------------------
(***************************************************************************)
(* The Router (cells/router.go): a cache of one tenant's route, fed by the *)
(* table's watch and filled lazily on a miss, and the decision the L1      *)
(* interceptors (cells/middleware.go) take with its answer before they     *)
(* call the admission gate.                                                *)
(*                                                                         *)
(* Resolve reads the cache, reads the table and stores what it read under  *)
(* three separate locks, so the watch loop and other requests run in       *)
(* between.                                                                *)
(***************************************************************************)
EXTENDS RouteWatch

CONSTANTS
    Here,         \* this instance's cell
    Default,      \* the fail-safe default cell
    Requests,
    Freshness,    \* TRUE: WithFreshness is set, cached routes grow old
    MaxFaults     \* bound: failed reads of the table

ASSUME CacheAssumption ==
    /\ Here \in Cells /\ Default \in Cells
    /\ Freshness \in BOOLEAN /\ MaxFaults \in Nat

VARIABLES
    sync,       \* "new", "synced" (ready: the watch is established), "stopped"
    cache,      \* the tenant's cache entry
    aged,       \* the entry is older than the freshness bound
    rpc,        \* control point of each request
    reply,      \* what the request's lazy read of the table returned
    dec,        \* the Decision
    known,      \* history: epochs at which a request may be admitted to Here
    late,       \* history: since the request's lazy read an event was applied,
                \* or the watch began
    spoiled,    \* history: such a request's store, or one made before the
                \* watch began, is what the cache holds
    faults

cacheVars == <<sync, cache, aged, spoiled>>
reqVars   == <<rpc, reply, dec>>
routerVars == <<tableVars, cacheVars, reqVars, known, late, faults>>

(* The table's answer, and a cache entry: a route, or none (negative).      *)
NoRoute == Event(NoCell, 0, NoCell, TRUE)
Route   == IF epoch = 0 THEN NoRoute ELSE Event(owner, epoch, source, FALSE)

(* An empty cache. *)
Miss == Event(NoCell, 0, NoCell, FALSE)

-----------------------------------------------------------------------------
(* Decisions. *)

AdmitsNew(route) == route.source = NoCell

DecisionFromRoute(route, stale) ==
    [cell |-> IF route.active = NoCell THEN Default ELSE route.active,
     epoch |-> route.epoch, admitNew |-> AdmitsNew(route), stale |-> stale]

DefaultDecision(stale) ==
    [cell |-> Default, epoch |-> 0, admitNew |-> TRUE, stale |-> stale]

Decide(entry, stale) ==
    IF entry.deleted THEN DefaultDecision(FALSE) ELSE DecisionFromRoute(entry, stale)

(* Mutant: the wrong-cell check of the interceptors is missing. *)
PassesAnyCell(d, mutating) == d.admitNew /\ ~(d.stale /\ mutating)

(* The interceptors call TryEnter. *)
Passes(d, mutating) ==
    /\ d.admitNew
    /\ d.cell = Here
    /\ ~(d.stale /\ mutating)

-----------------------------------------------------------------------------
(* Resolve. *)

(* Resolve returns d; its local variables are dead. *)
Decided(r, d) == /\ dec' = [dec EXCEPT ![r] = d]
                 /\ rpc' = [rpc EXCEPT ![r] = "decided"]
                 /\ reply' = [reply EXCEPT ![r] = Miss]
                 /\ late' = [late EXCEPT ![r] = FALSE]

(* The call returns to its client. *)
Return(r) == /\ rpc' = [rpc EXCEPT ![r] = "idle"]
             /\ dec' = [dec EXCEPT ![r] = DefaultDecision(FALSE)]

(* Resolve does not ask whether the watch runs: a request is answered from  *)
(* the cache before Start and after the watch has ended, too.               *)
Hit(r) ==
    /\ rpc[r] = "idle" /\ cache # Miss
    /\ Decided(r, Decide(cache, aged))
    /\ UNCHANGED <<tableVars, cacheVars, known, faults>>

MissCache(r) ==
    /\ rpc[r] = "idle" /\ cache = Miss
    /\ rpc' = [rpc EXCEPT ![r] = "get"]
    /\ UNCHANGED <<tableVars, cacheVars, reply, dec, known, late, faults>>

Get(r) ==
    /\ rpc[r] = "get"
    /\ reply' = [reply EXCEPT ![r] = Route]
    /\ late' = [late EXCEPT ![r] = FALSE]
    /\ rpc' = [rpc EXCEPT ![r] = "store"]
    /\ UNCHANGED <<tableVars, cacheVars, dec, known, faults>>

(* The table is unreachable: the default cell, marked stale, not cached. *)
GetFails(r) ==
    /\ rpc[r] = "get" /\ faults < MaxFaults
    /\ faults' = faults + 1
    /\ Decided(r, DefaultDecision(TRUE))
    /\ UNCHANGED <<tableVars, cacheVars, known>>

(* cachePositive or cacheNegative, and the answer. *)
StoreReply(r) ==
    /\ rpc[r] = "store"
    /\ cache' = reply[r] /\ aged' = FALSE
    /\ spoiled' = late[r]
    /\ Decided(r, Decide(reply[r], FALSE))
    /\ UNCHANGED <<tableVars, sync, known, faults>>

(* The interceptor, of a mutating method or not, goes on to the gate and    *)
(* the handler.                                                             *)
Admit(r) ==
    /\ rpc[r] = "decided" /\ \E write \in BOOLEAN : Passes(dec[r], write)
    /\ rpc' = [rpc EXCEPT ![r] = "admitting"]
    /\ UNCHANGED <<tableVars, cacheVars, reply, dec, known, late, faults>>

(* It rejects: moving, wrong cell, or an uncertain write. *)
Reject(r) ==
    /\ rpc[r] = "decided" /\ \E write \in BOOLEAN : ~Passes(dec[r], write)
    /\ Return(r)
    /\ UNCHANGED <<tableVars, cacheVars, reply, known, late, faults>>

Finish(r) ==
    /\ rpc[r] = "admitting"
    /\ Return(r)
    /\ UNCHANGED <<tableVars, cacheVars, reply, known, late, faults>>

-----------------------------------------------------------------------------
(* The watch. *)

(* Start: earlier changes are not announced to this watcher, and an entry   *)
(* already filled stays.                                                    *)
Start ==
    /\ sync = "new" /\ sync' = "synced"
    /\ watch' = <<>> /\ lost' = FALSE
    /\ spoiled' = (cache # Miss)
    /\ late' = [r \in Requests |-> rpc[r] = "store"]
    /\ UNCHANGED <<tenant, deletes, cache, aged, reqVars, known, faults>>

(* Mutant: a removed route is ignored. *)
AppliedUnlessDeleted(ev) == IF ev.deleted THEN cache ELSE ev

(* apply: a removed route becomes a negative entry. *)
Applied(ev) == ev

Apply ==
    /\ sync = "synced" /\ watch # <<>>
    /\ cache' = Applied(Head(watch)) /\ aged' = FALSE
    /\ watch' = Tail(watch)
    /\ spoiled' = FALSE
    /\ late' = [r \in Requests |-> rpc[r] = "store"]
    /\ UNCHANGED <<tenant, deletes, lost, sync, reqVars, known, faults>>

(* ctx is cancelled: the loop ends, the cache stays as it is. *)
Stop ==
    /\ sync = "synced" /\ sync' = "stopped"
    /\ UNCHANGED <<tableVars, cache, aged, spoiled, reqVars, known, late, faults>>

Age ==
    /\ Freshness /\ cache # Miss /\ ~cache.deleted /\ ~aged
    /\ aged' = TRUE
    /\ UNCHANGED <<tableVars, sync, cache, spoiled, reqVars, known, late, faults>>

TableStep ==
    /\ \/ \E c \in Cells : Place(c) \/ BeginMove(c) \/ Settle(c)
       \/ NextPhase
       \/ DeleteRoute
    /\ known' = IF owner' = Here /\ source' = NoCell THEN known \cup {epoch'} ELSE known
    /\ UNCHANGED <<cacheVars, reqVars, late, faults>>

CacheInit ==
    /\ TableInit
    /\ sync = "new" /\ cache = Miss /\ aged = FALSE /\ spoiled = FALSE
    /\ rpc = [r \in Requests |-> "idle"]
    /\ reply = [r \in Requests |-> Miss]
    /\ dec = [r \in Requests |-> DefaultDecision(FALSE)]
    /\ known = IF Here = Default THEN {0} ELSE {}
    /\ late = [r \in Requests |-> FALSE]
    /\ faults = 0

CacheNext == \/ \E r \in Requests : \/ Hit(r) \/ MissCache(r) \/ Get(r) \/ GetFails(r)
                               \/ StoreReply(r)
                               \/ Admit(r) \/ Reject(r) \/ Finish(r)
        \/ Start \/ Apply \/ Stop \/ Age
        \/ TableStep

CacheSpec == CacheInit /\ [][CacheNext]_routerVars

-----------------------------------------------------------------------------
(* Properties. *)

CacheTypeOK ==
    /\ tenant \in (Cells \cup {NoCell}) \X Nat \X (Cells \cup {NoCell}) \X (Cells \cup {NoCell})
    /\ watch \in Seq(Events) /\ Len(watch) <= Buffer
    /\ sync \in {"new", "synced", "stopped"} /\ aged \in BOOLEAN /\ spoiled \in BOOLEAN
    /\ cache \in Events
    /\ rpc \in [Requests -> {"idle", "get", "store", "decided", "admitting"}]
    /\ late \in [Requests -> BOOLEAN]
    /\ reply \in [Requests -> Events]
    /\ dec \in [Requests -> [cell : Cells, epoch : Nat, admitNew : BOOLEAN, stale : BOOLEAN]]
    /\ known \subseteq Nat /\ lost \in BOOLEAN /\ faults \in Nat

(* Whatever is stale, lost, overtaken or unreachable, a request reaches     *)
(* this cell's gate only at an epoch at which the tenant has rested here,   *)
(* or at 0 on the default cell (Resolve and the interceptors' checks).      *)
(* AdmissionGate relies on it.                                              *)
AdmitsAtKnownEpoch ==
    \A r \in Requests : rpc[r] = "admitting" => dec[r].epoch \in known

(* The cache converges: once every event has been applied it holds the      *)
(* table's route, unless a lazy fill older than the latest event, or than   *)
(* the watch, is what it holds, or the channel dropped the latest change;   *)
(* an earlier loss is made good, and a later event replaces such a fill     *)
(* (apply).                                                                 *)
ConvergesUnlessMissed ==
    sync = "synced" /\ watch = <<>> /\ ~spoiled /\ ~lost => cache \in {Miss, Route}

NoFillPending == \A r \in Requests : rpc[r] # "store"

(* "keeps the cache converged until ctx is cancelled" (Start). *)
CacheConverges ==
    sync = "synced" /\ watch = <<>> /\ NoFillPending => cache \in {Miss, Route}
=============================================================================
