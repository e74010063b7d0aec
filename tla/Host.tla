-------------------------------- MODULE Host --------------------------------
(***************************************************************************)
(* The composed host: servicekit.Run (run.go), its supervisor (bulkhead.go)*)
(* and event registry, and the lifecycle of server.Serve with its          *)
(* readiness loop.                                                         *)
(*                                                                         *)
(* Every module has an outbox relay, a consumer and a background job.  The *)
(* bus is shared: each module's consumer calls Consume on it, and Consume  *)
(* starts a goroutine for every group of the bus, in memory (membus) or    *)
(* each with a client of its own (kafkabus).                               *)
(***************************************************************************)
EXTENDS Naturals, FiniteSets

CONSTANTS
    Mods,      \* the modules of the composition
    Policies,  \* the failure policies of the modules to consider
    Buses      \* the buses to consider

ASSUME HostAssumption ==
    /\ Mods \cap {"live", "parent", "nil"} = {}
    /\ Policies \subseteq [Mods -> {"fail-host", "degraded"}]
    /\ Buses \subseteq {"mem", "kafka"}

VARIABLES
    policy,      \* policy[m]: resolved from the composition, fixed
    bus,         \* the shared bus, fixed
    phase,       \* where Run is
    registered,  \* modules registered so far
    ctx,         \* the host context: "live", or the cause of its cancellation
    result,      \* what Run returns: "none" before it is known
    work,        \* work[<<m, role>>]: the supervised goroutines
    drain,       \* drain[<<m, g>>]: the goroutine of m's Consume for the group of g
    gc,          \* the idempotency sweep's goroutine
    ready,       \* ready[m]: the module's readiness gate
    health       \* the gRPC health status

composed == <<policy, bus>>
run      == <<composed, phase, registered, result>>
hostVars == <<run, ctx, work, drain, gc, ready, health>>

Roles   == {"relay", "consumer", "job"}
Phases  == {"validate", "register", "start", "serve", "serving",
            "shutdown", "returning", "waiting", "returned", "crashed"}
Up      == phase \notin {"returned", "crashed"}
Done    == ctx # "live"

-----------------------------------------------------------------------------
(* Boot: steps 2 to 5 of Run.  An error returns at once; nothing runs yet.  *)

Return ==
    /\ phase' = "returned" /\ result' = "error"
    /\ ctx' = IF Done THEN ctx ELSE "nil"

Validate ==
    /\ phase = "validate"
    /\ \/ Return
       \/ phase' = "register" /\ UNCHANGED <<result, ctx>>
    /\ UNCHANGED <<composed, registered, work, drain, gc, ready, health>>

(* Namespace, migration and Register of one module, a panic being an error. *)
Register(m) ==
    /\ phase = "register" /\ m \notin registered
    /\ \/ Return /\ UNCHANGED registered
       \/ registered' = registered \cup {m} /\ UNCHANGED <<phase, result, ctx>>
    /\ UNCHANGED <<composed, work, drain, gc, ready, health>>

(* The holder's routes, the probe of the stores, the sweep. *)
Idempotency ==
    /\ phase = "register" /\ registered = Mods
    /\ \/ Return /\ UNCHANGED gc
       \/ phase' = "start" /\ gc' = "running" /\ UNCHANGED <<result, ctx>>
    /\ UNCHANGED <<composed, registered, work, drain, ready, health>>

(* startDispatchers and startJobs. *)
Start ==
    /\ phase = "start"
    /\ phase' = "serve"
    /\ work' = [w \in Mods \X Roles |-> "running"]
    /\ UNCHANGED <<composed, registered, result, ctx, drain, gc, ready, health>>

-----------------------------------------------------------------------------
(* server.Serve. *)

(* The boot gates and the listeners. *)
Serve ==
    /\ phase = "serve"
    /\ \/ phase' = "returning" /\ result' = "error"
       \/ phase' = "serving" /\ UNCHANGED result
    /\ UNCHANGED <<composed, registered, ctx, work, drain, gc, ready, health>>

(* One of the servers fails, or the context ends; both shut down. *)
ServerFails ==
    /\ phase = "serving"
    /\ phase' = "returning" /\ result' = "error"
    /\ UNCHANGED <<composed, registered, ctx, work, drain, gc, ready, health>>

Shutdown ==
    /\ phase = "serving" /\ Done
    /\ phase' = "shutdown"
    /\ UNCHANGED <<composed, registered, result, ctx, work, drain, gc, ready, health>>

(* Mutant: Run returns what Serve returned. *)
CauseDropped == "nil"

(* context.Cause, unless it is a plain cancellation. *)
Cause == IF ctx \in Mods THEN ctx ELSE "nil"

(* shutdown is bounded by its timeouts; an error of a server may surface.   *)
Served ==
    /\ phase = "shutdown"
    /\ phase' = "returning" /\ result' \in {Cause, "error"}
    /\ UNCHANGED <<composed, registered, ctx, work, drain, gc, ready, health>>

(* Mutant: the deferred function waits without cancelling. *)
CancelNot == ctx

(* failHost(nil), which is first in the deferred function. *)
Cancel == IF Done THEN ctx ELSE "nil"

Closing ==
    /\ phase = "returning"
    /\ ctx' = Cancel
    /\ phase' = "waiting"
    /\ UNCHANGED <<composed, registered, result, work, drain, gc, ready, health>>

(* Mutant: only the sweep is waited for. *)
QuietGCOnly == gc # "running"

(* sup.wait, then the sweep. *)
Quiet == gc # "running" /\ \A w \in Mods \X Roles : work[w] # "running"

Returns ==
    /\ phase = "waiting" /\ Quiet
    /\ phase' = "returned"
    /\ UNCHANGED <<composed, registered, result, ctx, work, drain, gc, ready, health>>

(* The signal, or the parent context. *)
Signal ==
    /\ Up /\ ~Done
    /\ ctx' = "parent"
    /\ UNCHANGED <<run, work, drain, gc, ready, health>>

-----------------------------------------------------------------------------
(* The supervisor. *)

(* fail: the policy decides.  The gate is never set ready again. *)
Fail(m) ==
    IF policy[m] = "degraded"
    THEN ready' = [ready EXCEPT ![m] = FALSE] /\ UNCHANGED ctx
    ELSE ctx' = (IF Done THEN ctx ELSE m) /\ UNCHANGED ready

Exits(w) == work' = [work EXCEPT ![w] = "exited"]

(* relay.Run hands every error of a poll to the supervisor and goes on. *)
RelayError(m) ==
    /\ Up /\ work[<<m, "relay">>] = "running" /\ ~Done
    /\ Fail(m)
    /\ UNCHANGED <<run, work, drain, gc, health>>

(* A job ends; its error counts unless the host is stopping. *)
JobEnds(m, ok) ==
    /\ Up /\ work[<<m, "job">>] = "running"
    /\ Exits(<<m, "job">>)
    /\ IF ok \/ Done THEN UNCHANGED <<ctx, ready>> ELSE Fail(m)
    /\ UNCHANGED <<run, drain, gc, health>>

(* A panic on a supervised goroutine is recovered and is a failure. *)
Panics(m, role) ==
    /\ Up /\ role # "consumer" /\ work[<<m, role>>] = "running"
    /\ Exits(<<m, role>>)
    /\ Fail(m)
    /\ UNCHANGED <<run, drain, gc, health>>

(* Consume starts a goroutine for every group, one after the other.         *)
OpenGroup(m, g) ==
    /\ Up /\ work[<<m, "consumer">>] = "running" /\ drain[<<m, g>>] = "none"
    /\ drain' = [drain EXCEPT ![<<m, g>>] = "running"]
    /\ UNCHANGED <<run, ctx, work, gc, ready, health>>

(* consumer.Run has returned: an error counts unless the host is stopping.  *)
ConsumerEnds(m) ==
    /\ Exits(<<m, "consumer">>)
    /\ IF Done THEN UNCHANGED <<ctx, ready>> ELSE Fail(m)

(* The client of a group cannot be opened, or the bus is closed: Consume    *)
(* returns at once, and does not wait for what it has started.              *)
OpenFails(m) ==
    /\ Up /\ bus = "kafka" /\ work[<<m, "consumer">>] = "running"
    /\ \E g \in Mods : drain[<<m, g>>] = "none"
    /\ ConsumerEnds(m)
    /\ UNCHANGED <<run, drain, gc, health>>

(* A handler's panic is on such a goroutine, which nobody recovers: it ends *)
(* the process, and all that runs in it.                                    *)
HandlerPanics(m, g) ==
    /\ phase # "crashed" /\ drain[<<m, g>>] = "running"
    /\ phase' = "crashed"
    /\ work' = [w \in Mods \X Roles |-> "exited"]
    /\ drain' = [d \in Mods \X Mods |-> "exited"]
    /\ gc' = "exited"
    /\ UNCHANGED <<composed, registered, result, ctx, ready, health>>

(* It stops when the context is done. *)
DrainStops(m, g) ==
    /\ phase # "crashed" /\ Done /\ drain[<<m, g>>] = "running"
    /\ drain' = [drain EXCEPT ![<<m, g>>] = "exited"]
    /\ UNCHANGED <<run, ctx, work, gc, ready, health>>

(* consumeGroup returns on an error of a poll or a commit; its Consume goes *)
(* on waiting for the others.                                               *)
GroupFails(m, g) ==
    /\ Up /\ bus = "kafka" /\ ~Done /\ drain[<<m, g>>] = "running"
    /\ drain' = [drain EXCEPT ![<<m, g>>] = "exited"]
    /\ UNCHANGED <<run, ctx, work, gc, ready, health>>

(* Consume has waited for all of them; in memory, for the context first.    *)
ConsumeReturns(m) ==
    /\ Up /\ work[<<m, "consumer">>] = "running"
    /\ \A g \in Mods : drain[<<m, g>>] = "exited"
    /\ bus = "mem" => Done
    /\ ConsumerEnds(m)
    /\ UNCHANGED <<run, drain, gc, health>>

(* A relay's and a job's loop watches the context. *)
WorkStops(m, role) ==
    /\ Up /\ Done /\ role # "consumer" /\ work[<<m, role>>] = "running"
    /\ Exits(<<m, role>>)
    /\ UNCHANGED <<run, ctx, drain, gc, ready, health>>

(* runIdempotencyGC also stops when a sweep panics. *)
SweepStops ==
    /\ Up /\ gc = "running"
    /\ gc' = "exited"
    /\ UNCHANGED <<run, ctx, work, drain, ready, health>>

(* readinessAggregate: every module's gate. *)
Aggregate == \A m \in Mods : ready[m]

(* syncHealthStatus, by the readiness loop. *)
SyncHealth ==
    /\ phase = "serving" /\ ~Done
    /\ health' = IF Aggregate THEN "SERVING" ELSE "NOT_SERVING"
    /\ UNCHANGED <<run, ctx, work, drain, gc, ready>>

-----------------------------------------------------------------------------
HostInit ==
    /\ policy \in Policies /\ bus \in Buses
    /\ phase = "validate" /\ registered = {} /\ result = "none"
    /\ ctx = "live"
    /\ work = [w \in Mods \X Roles |-> "none"]
    /\ drain = [d \in Mods \X Mods |-> "none"]
    /\ gc = "none"
    /\ ready = [m \in Mods |-> TRUE] /\ health = "SERVING"

Lifecycle ==
    \/ Validate \/ Idempotency \/ Start \/ Serve \/ Shutdown \/ Served \/ Closing \/ Returns
    \/ \E m \in Mods : Register(m)

HostNext ==
    \/ Lifecycle \/ ServerFails \/ Signal \/ SweepStops \/ SyncHealth
    \/ \E m \in Mods :
          \/ RelayError(m) \/ OpenFails(m) \/ ConsumeReturns(m)
          \/ \E ok \in BOOLEAN : JobEnds(m, ok)
          \/ \E role \in Roles : Panics(m, role) \/ WorkStops(m, role)
          \/ \E g \in Mods : \/ OpenGroup(m, g) \/ GroupFails(m, g)
                             \/ HandlerPanics(m, g) \/ DrainStops(m, g)

HostSpec == HostInit /\ [][HostNext]_hostVars

(* A goroutine of the host that has something to do: Consume opens its      *)
(* groups and waits for them, and everything watches the context.           *)
Works(m) ==
    \/ ConsumeReturns(m)
    \/ \E role \in Roles : WorkStops(m, role)
    \/ \E g \in Mods : OpenGroup(m, g) \/ DrainStops(m, g)

(* Run and its goroutines are scheduled; the readiness loop has a ticker.   *)
Fairness ==
    /\ WF_hostVars(Lifecycle) /\ WF_hostVars(SyncHealth)
    /\ WF_hostVars((Done /\ SweepStops) \/ \E m \in Mods : Works(m))

FairSpec == HostSpec /\ Fairness

-----------------------------------------------------------------------------
(* Properties. *)

HostTypeOK ==
    /\ policy \in Policies /\ bus \in Buses /\ phase \in Phases /\ registered \subseteq Mods
    /\ ctx \in {"live", "parent", "nil"} \cup Mods
    /\ result \in {"none", "nil", "error"} \cup Mods
    /\ work \in [Mods \X Roles -> {"none", "running", "exited"}]
    /\ drain \in [Mods \X Mods -> {"none", "running", "exited"}]
    /\ gc \in {"none", "running", "exited"}
    /\ ready \in [Mods -> BOOLEAN] /\ health \in {"SERVING", "NOT_SERVING"}

(* When Run returns, nothing it started is running: no relay, consumer,     *)
(* job or sweep outlives it, on any path, and no group loop does but those  *)
(* of a Consume that could not open its next group; and their context is    *)
(* done.                                                                    *)
NothingLeaks ==
    phase = "returned" =>
        /\ gc # "running"
        /\ \A w \in Mods \X Roles : work[w] # "running"
        /\ \A m, g \in Mods : drain[<<m, g>>] = "running" =>
              Done /\ \E h \in Mods : drain[<<m, h>>] = "none"

(* A core module that takes the host down is the error Run returns (unless  *)
(* a server failed too), and a degraded module never takes it down.         *)
CauseSurfaces ==
    ctx \in Mods =>
        /\ policy[ctx] = "fail-host"
        /\ phase = "returned" => result \in {ctx, "error"}

(* Once the context is done, or Serve failed while it was live, Run comes   *)
(* back: "the subsequent waits would block forever" cannot happen.          *)
RunReturns == (Done \/ phase = "returning") ~> (phase \in {"returned", "crashed"})

(* A degraded module shows in the health status before long.                *)
DegradedShows ==
    \A m \in Mods : (phase = "serving" /\ ~ready[m]) ~>
                        (health = "NOT_SERVING" \/ phase # "serving" \/ Done)

(* What the comments say of the code, and what it does not do. *)

(* "it does NOT crash another module or the host" (bulkhead.go). *)
PanicContained == phase # "crashed"

(* "so shutdown is clean (no leaked relay/consumer/job/GC goroutines)"      *)
(* (Run).                                                                   *)
ShutdownIsClean == phase = "returned" => \A d \in Mods \X Mods : drain[d] # "running"

(* "the HOST starts exactly ONE consumer for the module" (servicekit.go).   *)
OneConsumer == \A g \in Mods : Cardinality({m \in Mods : drain[<<m, g>>] = "running"}) <= 1

(* "/readyz reflects exactly which module is degraded without sinking the   *)
(* whole host" (bulkhead.go).                                               *)
HostStaysReady == (\E m \in Mods : ready[m]) => health = "SERVING"
=============================================================================
