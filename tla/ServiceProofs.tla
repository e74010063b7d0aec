--------------------------- MODULE ServiceProofs ----------------------------
(***************************************************************************)
(* Proofs about what a service runs on: Host, for every set of modules and *)
(* every assignment of failure policies, and ChangeFeed, for every set of  *)
(* keys, roots and clients and every bound.  Neither uses the other.       *)
(***************************************************************************)
EXTENDS Host, ChangeFeed, WellFoundedInduction, TLAPS

(***************************************************************************)
(* Host.                                                                   *)
(***************************************************************************)

-----------------------------------------------------------------------------
(* Types. *)

LEMMA HostTypeInit == HostInit => HostTypeOK
BY DEF HostInit, HostTypeOK, Phases

LEMMA LifecycleType ==
    ASSUME HostTypeOK, Lifecycle \/ ServerFails
    PROVE  HostTypeOK'
<1> USE DEF HostTypeOK, Phases
<1>1. ASSUME Validate PROVE HostTypeOK'
  BY <1>1 DEF Validate, Return, composed
<1>2. ASSUME Idempotency PROVE HostTypeOK'
  BY <1>2 DEF Idempotency, Return, composed
<1>3. ASSUME Start PROVE HostTypeOK'
  BY <1>3 DEF Start, composed
<1>4. ASSUME Serve \/ ServerFails PROVE HostTypeOK'
  BY <1>4 DEF Serve, ServerFails, composed
<1>5. ASSUME Shutdown \/ Served PROVE HostTypeOK'
  BY <1>5 DEF Shutdown, Served, Cause, composed
<1>6. ASSUME Closing \/ Returns PROVE HostTypeOK'
  BY <1>6 DEF Closing, Returns, Cancel, composed
<1>7. ASSUME NEW m \in Mods, Register(m) PROVE HostTypeOK'
  BY <1>7 DEF Register, Return, composed
<1> QED BY <1>1, <1>2, <1>3, <1>4, <1>5, <1>6, <1>7 DEF Lifecycle

LEMMA SupervisorType ==
    ASSUME HostTypeOK, NEW m \in Mods,
           \/ RelayError(m) \/ OpenFails(m) \/ ConsumeReturns(m)
           \/ \E ok \in BOOLEAN : JobEnds(m, ok)
           \/ \E role \in Roles : Panics(m, role) \/ WorkStops(m, role)
           \/ \E g \in Mods : \/ OpenGroup(m, g) \/ GroupFails(m, g)
                              \/ HandlerPanics(m, g) \/ DrainStops(m, g)
    PROVE  HostTypeOK'
<1> USE DEF HostTypeOK, Phases
<1>1. ASSUME RelayError(m) PROVE HostTypeOK'
  BY <1>1 DEF RelayError, Fail, run, composed
<1>2. ASSUME OpenFails(m) \/ ConsumeReturns(m) PROVE HostTypeOK'
  BY <1>2 DEF OpenFails, ConsumeReturns, ConsumerEnds, Exits, Fail, run, composed, Roles
<1>3. ASSUME NEW ok \in BOOLEAN, JobEnds(m, ok) PROVE HostTypeOK'
  BY <1>3 DEF JobEnds, Fail, Exits, run, composed, Roles
<1>4. ASSUME NEW role \in Roles, Panics(m, role) PROVE HostTypeOK'
  BY <1>4 DEF Panics, Fail, Exits, run, composed
<1>5. ASSUME NEW role \in Roles, WorkStops(m, role) PROVE HostTypeOK'
  BY <1>5 DEF WorkStops, Exits, run, composed
<1>6. ASSUME NEW g \in Mods, OpenGroup(m, g) \/ GroupFails(m, g) PROVE HostTypeOK'
  BY <1>6 DEF OpenGroup, GroupFails, run, composed, Up, Roles
<1>7. ASSUME NEW g \in Mods, HandlerPanics(m, g) \/ DrainStops(m, g) PROVE HostTypeOK'
  BY <1>7 DEF HandlerPanics, DrainStops, run, composed
<1> QED BY <1>1, <1>2, <1>3, <1>4, <1>5, <1>6, <1>7

LEMMA HostTypeStep == HostTypeOK /\ [HostNext]_hostVars => HostTypeOK'
<1> SUFFICES ASSUME HostTypeOK, [HostNext]_hostVars PROVE HostTypeOK'
  OBVIOUS
<1>1. ASSUME Signal \/ SweepStops \/ SyncHealth PROVE HostTypeOK'
  BY <1>1 DEF Signal, SweepStops, SyncHealth, Aggregate, run, composed, HostTypeOK
<1>2. ASSUME UNCHANGED hostVars PROVE HostTypeOK'
  BY <1>2 DEF hostVars, run, composed, HostTypeOK
<1> QED BY <1>1, <1>2, LifecycleType, SupervisorType DEF HostNext

(* The state of Run, its context and its goroutines stays well-typed. *)
THEOREM HostTypeCorrect == HostSpec => []HostTypeOK
BY HostTypeInit, HostTypeStep, PTL DEF HostSpec

-----------------------------------------------------------------------------
(* Nothing leaks. *)

(* Before Run starts anything, nothing runs: an error at boot may return at *)
(* once, without waiting.                                                   *)
NothingYet ==
    /\ phase \in {"validate", "register"} => gc # "running"
    /\ phase \in {"validate", "register", "start"} =>
           \A w \in Mods \X Roles : work[w] # "running"

(* A group loop lives inside the Consume that started it, which sup.wait    *)
(* waits for, unless that one could not open all its groups: nobody waits   *)
(* for the loops themselves.                                                *)
LoopsAreWaitedFor ==
    \A m, g \in Mods : drain[<<m, g>>] = "running" =>
        work[<<m, "consumer">>] = "running" \/ \E h \in Mods : drain[<<m, h>>] = "none"

LeakInv ==
    /\ NothingYet
    /\ LoopsAreWaitedFor
    /\ phase = "returned" => Quiet
    /\ phase \in {"waiting", "returned"} => Done

LEMMA LeakInit == HostInit => LeakInv
BY DEF HostInit, LeakInv, NothingYet, LoopsAreWaitedFor, Quiet, Done

(* A step that leaves every consumer and every loop alone. *)
LEMMA LoopsFrame ==
    ASSUME LoopsAreWaitedFor, drain' = drain,
           \A m \in Mods : work'[<<m, "consumer">>] = work[<<m, "consumer">>]
    PROVE  LoopsAreWaitedFor'
BY DEF LoopsAreWaitedFor

(* A step of Run or of its server. *)
LEMMA LeakFrame ==
    ASSUME LeakInv, UNCHANGED <<work, drain, gc>>,
           phase' \in {"serving", "shutdown", "returning", "waiting", "returned"},
           phase' = "returned" => Quiet,
           phase' \in {"waiting", "returned"} => Done'
    PROVE  LeakInv'
<1>1. LoopsAreWaitedFor'
  BY LoopsFrame DEF LeakInv
<1>2. NothingYet'
  BY DEF NothingYet
<1>3. phase' = "returned" => Quiet'
  BY DEF Quiet
<1> QED BY <1>1, <1>2, <1>3 DEF LeakInv

LEMMA LeakLifecycle ==
    ASSUME HostTypeOK, LeakInv, Lifecycle \/ ServerFails
    PROVE  LeakInv'
<1> USE DEF HostTypeOK, LeakInv, NothingYet, LoopsAreWaitedFor, Quiet, Done
<1>1. ASSUME Validate PROVE LeakInv'
  BY <1>1 DEF Validate, Return, composed
<1>2. ASSUME Idempotency PROVE LeakInv'
  BY <1>2 DEF Idempotency, Return, composed
<1>3. ASSUME Start PROVE LeakInv'
  BY <1>3 DEF Start, Roles, composed
<1>4. ASSUME Serve \/ ServerFails PROVE LeakInv'
  <2>1. /\ UNCHANGED <<work, drain, gc>>
        /\ phase' \in {"serving", "returning"}
    BY <1>4 DEF Serve, ServerFails
  <2> QED BY <2>1, LeakFrame
<1>5. ASSUME Shutdown \/ Served PROVE LeakInv'
  <2>1. UNCHANGED <<work, drain, gc>> /\ phase' \in {"shutdown", "returning"}
    BY <1>5 DEF Shutdown, Served
  <2> QED BY <2>1, LeakFrame
<1>6. ASSUME Closing PROVE LeakInv'
  <2>1. UNCHANGED <<work, drain, gc>> /\ phase' = "waiting" /\ Done'
    BY <1>6 DEF Closing, Cancel
  <2> QED BY <2>1, LeakFrame
<1>7. ASSUME Returns PROVE LeakInv'
  <2>1. UNCHANGED <<work, drain, gc>> /\ phase' = "returned" /\ Quiet /\ Done'
    BY <1>7 DEF Returns
  <2> QED BY <2>1, LeakFrame
<1>8. ASSUME NEW m \in Mods, Register(m) PROVE LeakInv'
  BY <1>8 DEF Register, Return, composed
<1> QED BY <1>1, <1>2, <1>3, <1>4, <1>5, <1>6, <1>7, <1>8 DEF Lifecycle

(* Nothing is started, and Run stays where it is, while the host is up. *)
LEMMA WorkEnds ==
    ASSUME HostTypeOK, LeakInv, Up, NEW v \in Mods \X Roles, Exits(v), UNCHANGED <<phase, gc>>,
           ctx' = ctx \/ Done', LoopsAreWaitedFor'
    PROVE  LeakInv'
<1>1. \A w \in Mods \X Roles : work'[w] = "running" => work[w] = "running"
  BY DEF Exits, HostTypeOK
<1>2. NothingYet'
  BY <1>1 DEF LeakInv, NothingYet
<1>3. phase' # "returned"
  BY DEF Up
<1>4. phase' \in {"waiting", "returned"} => Done'
  BY DEF LeakInv, Done
<1> QED BY <1>2, <1>3, <1>4 DEF LeakInv

(* The host keeps running but for its loops. *)
LEMMA LoopsChange ==
    ASSUME LeakInv, UNCHANGED <<phase, gc, work, ctx>>, LoopsAreWaitedFor'
    PROVE  LeakInv'
<1>1. NothingYet'
  BY DEF LeakInv, NothingYet
<1>2. (phase' = "returned" => Quiet') /\ (phase' \in {"waiting", "returned"} => Done')
  BY DEF LeakInv, Quiet, Done
<1> QED BY <1>1, <1>2 DEF LeakInv

LEMMA FailKeepsDone ==
    ASSUME HostAssumption, NEW m \in Mods, Fail(m)
    PROVE  ctx' = ctx \/ Done'
BY DEF Fail, Done, HostAssumption

(* Starting and stopping goroutines is what could break LoopsAreWaitedFor.  *)
LEMMA LeakSupervisor ==
    ASSUME HostTypeOK, LeakInv, NEW m \in Mods,
           \/ RelayError(m) \/ OpenFails(m) \/ ConsumeReturns(m)
           \/ \E ok \in BOOLEAN : JobEnds(m, ok)
           \/ \E role \in Roles : Panics(m, role) \/ WorkStops(m, role)
           \/ \E g \in Mods : \/ OpenGroup(m, g) \/ GroupFails(m, g)
                              \/ HandlerPanics(m, g) \/ DrainStops(m, g)
    PROVE  LeakInv'
<1> USE HostAssumption
<1>1. ASSUME RelayError(m) PROVE LeakInv'
  <2>1. /\ UNCHANGED <<work, drain, gc, phase>>
        /\ Up
        /\ ctx' = ctx \/ Done'
    BY <1>1, FailKeepsDone DEF RelayError, run, composed
  <2>2. LoopsAreWaitedFor'
    BY <2>1, LoopsFrame DEF LeakInv
  <2>3. NothingYet'
    BY <2>1 DEF LeakInv, NothingYet
  <2> QED BY <2>1, <2>2, <2>3 DEF LeakInv, Up, Done
<1>2. ASSUME OpenFails(m) \/ ConsumeReturns(m) PROVE LeakInv'
  <2>1. /\ Up /\ Exits(<<m, "consumer">>) /\ UNCHANGED <<phase, gc, drain>>
        /\ ctx' = ctx \/ Done'
    BY <1>2, FailKeepsDone DEF OpenFails, ConsumeReturns, ConsumerEnds, run
  <2>2. <<m, "consumer">> \in Mods \X Roles
    BY DEF Roles
  <2>3. \/ \E h \in Mods : drain[<<m, h>>] = "none"
        \/ \A g \in Mods : drain[<<m, g>>] = "exited"
    BY <1>2 DEF OpenFails, ConsumeReturns
  <2>4. \A n \in Mods : n # m => work'[<<n, "consumer">>] = work[<<n, "consumer">>]
    BY <2>1 DEF Exits, HostTypeOK, Roles
  <2>5. LoopsAreWaitedFor'
    <3> SUFFICES ASSUME NEW n \in Mods, NEW g \in Mods, drain[<<n, g>>] = "running"
                 PROVE  work'[<<n, "consumer">>] = "running" \/ \E h \in Mods : drain[<<n, h>>] = "none"
      BY <2>1 DEF LoopsAreWaitedFor
    <3>1. CASE n = m
      BY <3>1, <2>3
    <3>2. CASE n # m
      BY <3>2, <2>4 DEF LeakInv, LoopsAreWaitedFor
    <3> QED BY <3>1, <3>2
  <2> QED BY <2>1, <2>2, <2>5, WorkEnds
<1>3. ASSUME NEW role \in Roles, role # "consumer", Up, Exits(<<m, role>>),
             UNCHANGED <<phase, gc, drain>>, ctx' = ctx \/ Done'
             PROVE LeakInv'
  <2>1. \A n \in Mods : work'[<<n, "consumer">>] = work[<<n, "consumer">>]
    BY <1>3 DEF Exits, HostTypeOK, Roles
  <2>2. LoopsAreWaitedFor'
    BY <1>3, <2>1, LoopsFrame DEF LeakInv
  <2>3. <<m, role>> \in Mods \X Roles
    OBVIOUS
  <2> QED BY <1>3, <2>2, <2>3, WorkEnds
<1>4. ASSUME NEW ok \in BOOLEAN, JobEnds(m, ok) PROVE LeakInv'
  <2>1. /\ Up /\ Exits(<<m, "job">>) /\ UNCHANGED <<phase, gc, drain>>
        /\ ctx' = ctx \/ Done'
    BY <1>4, FailKeepsDone DEF JobEnds, run
  <2> QED BY <2>1, <1>3 DEF Roles
<1>5. ASSUME NEW role \in Roles, Panics(m, role) \/ WorkStops(m, role) PROVE LeakInv'
  <2>1. /\ Up /\ Exits(<<m, role>>) /\ UNCHANGED <<phase, gc, drain>>
        /\ ctx' = ctx \/ Done'
    BY <1>5, FailKeepsDone DEF Panics, WorkStops, run
  <2>2. role # "consumer"
    BY <1>5 DEF Panics, WorkStops
  <2> QED BY <2>1, <2>2, <1>3
<1>6. ASSUME NEW g \in Mods, OpenGroup(m, g) PROVE LeakInv'
  <2>1. /\ work[<<m, "consumer">>] = "running"
        /\ UNCHANGED <<phase, gc, work, ctx>>
        /\ drain' = [drain EXCEPT ![<<m, g>>] = "running"]
    BY <1>6 DEF OpenGroup, run
  <2>2. \A n, h \in Mods : n # m => drain'[<<n, h>>] = drain[<<n, h>>]
    BY <2>1 DEF HostTypeOK
  <2>3. LoopsAreWaitedFor'
    <3> SUFFICES ASSUME NEW n \in Mods, NEW f \in Mods, drain'[<<n, f>>] = "running"
                 PROVE  work[<<n, "consumer">>] = "running" \/ \E h \in Mods : drain'[<<n, h>>] = "none"
      BY <2>1 DEF LoopsAreWaitedFor
    <3>1. CASE n = m
      BY <3>1, <2>1
    <3>2. CASE n # m
      BY <3>2, <2>2 DEF LeakInv, LoopsAreWaitedFor
    <3> QED BY <3>1, <3>2
  <2> QED BY <2>1, <2>3, LoopsChange
<1>7. ASSUME NEW g \in Mods, GroupFails(m, g) \/ DrainStops(m, g) PROVE LeakInv'
  <2>1. /\ UNCHANGED <<phase, gc, work, ctx>>
        /\ drain[<<m, g>>] = "running"
        /\ drain' = [drain EXCEPT ![<<m, g>>] = "exited"]
    BY <1>7 DEF GroupFails, DrainStops, run
  <2>2. \A n, h \in Mods : /\ drain'[<<n, h>>] = "running" => drain[<<n, h>>] = "running"
                           /\ drain[<<n, h>>] = "none" => drain'[<<n, h>>] = "none"
    BY <2>1 DEF HostTypeOK
  <2>3. LoopsAreWaitedFor'
    <3> SUFFICES ASSUME NEW n \in Mods, NEW f \in Mods, drain'[<<n, f>>] = "running"
                 PROVE  work[<<n, "consumer">>] = "running" \/ \E h \in Mods : drain'[<<n, h>>] = "none"
      BY <2>1 DEF LoopsAreWaitedFor
    <3>0. drain[<<n, f>>] = "running"
      BY <2>2
    <3>1. work[<<n, "consumer">>] = "running" \/ \E h \in Mods : drain[<<n, h>>] = "none"
      BY <3>0 DEF LeakInv, LoopsAreWaitedFor
    <3> QED BY <3>1, <2>2
  <2> QED BY <2>1, <2>3, LoopsChange
<1>8. ASSUME NEW g \in Mods, HandlerPanics(m, g) PROVE LeakInv'
  <2>1. /\ phase' = "crashed" /\ gc' = "exited"
        /\ drain' = [d \in Mods \X Mods |-> "exited"]
        /\ work' = [w \in Mods \X Roles |-> "exited"]
    BY <1>8 DEF HandlerPanics
  <2>2. LoopsAreWaitedFor'
    BY <2>1 DEF LoopsAreWaitedFor
  <2>3. NothingYet'
    BY <2>1 DEF NothingYet
  <2> QED BY <2>1, <2>2, <2>3 DEF LeakInv
<1> QED BY <1>1, <1>2, <1>4, <1>5, <1>6, <1>7, <1>8

LEMMA LeakStep == HostTypeOK /\ LeakInv /\ [HostNext]_hostVars => LeakInv'
<1> SUFFICES ASSUME HostTypeOK, LeakInv, [HostNext]_hostVars PROVE LeakInv'
  OBVIOUS
<1>1. ASSUME Signal \/ SweepStops \/ SyncHealth PROVE LeakInv'
  BY <1>1 DEF Signal, SweepStops, SyncHealth, run, composed, Up, LeakInv, NothingYet, LoopsAreWaitedFor, Quiet, Done
<1>2. ASSUME UNCHANGED hostVars PROVE LeakInv'
  BY <1>2 DEF hostVars, run, composed, LeakInv, NothingYet, LoopsAreWaitedFor, Quiet, Done
<1> QED BY <1>1, <1>2, LeakLifecycle, LeakSupervisor DEF HostNext

LEMMA LeakInvImplies == LeakInv => NothingLeaks
<1> SUFFICES ASSUME LeakInv, phase = "returned" PROVE NothingLeaks
  BY DEF NothingLeaks
<1>1. Quiet
  BY DEF LeakInv
<1>2. ASSUME NEW m \in Mods, NEW g \in Mods
             PROVE drain[<<m, g>>] = "running" =>
                       Done /\ \E h \in Mods : drain[<<m, h>>] = "none"
  BY <1>1 DEF LeakInv, LoopsAreWaitedFor, Quiet, Roles
<1> QED BY <1>1, <1>2 DEF NothingLeaks, Quiet

(* When Run returns, on any path, no relay, consumer, job or sweep that it  *)
(* started is running, and no group loop but those of a Consume that could  *)
(* not open its next group.                                                 *)
THEOREM RunLeavesNothing == HostSpec => []NothingLeaks
BY HostTypeInit, HostTypeStep, LeakInit, LeakStep, LeakInvImplies, PTL DEF HostSpec

-----------------------------------------------------------------------------
(* The cause surfaces. *)

(* Only a core module becomes the cause of the cancellation, Serve shuts    *)
(* down only once there is a cause, and what Run is about to return is a    *)
(* server's error or the cause, which no later cancel replaces.             *)
CauseInv ==
    /\ ctx \in Mods => policy[ctx] = "fail-host"
    /\ phase = "shutdown" => Done
    /\ phase \in {"returning", "waiting", "returned"} =>
           result = "error" \/ (Done /\ result = Cause)

LEMMA CauseInit == HostInit => CauseInv
BY HostAssumption DEF HostInit, CauseInv

LEMMA CauseLifecycle ==
    ASSUME HostTypeOK, CauseInv, Lifecycle \/ ServerFails
    PROVE  CauseInv'
<1> USE HostAssumption DEF HostTypeOK, CauseInv, Cause, Done
<1>1. ASSUME Validate PROVE CauseInv'
  BY <1>1 DEF Validate, Return, composed
<1>2. ASSUME Idempotency PROVE CauseInv'
  BY <1>2 DEF Idempotency, Return, composed
<1>3. ASSUME Start PROVE CauseInv'
  BY <1>3 DEF Start, composed
<1>4. ASSUME Serve \/ ServerFails PROVE CauseInv'
  BY <1>4 DEF Serve, ServerFails, composed
<1>5. ASSUME Shutdown \/ Served PROVE CauseInv'
  BY <1>5 DEF Shutdown, Served, composed
<1>6. ASSUME Closing \/ Returns PROVE CauseInv'
  BY <1>6 DEF Closing, Returns, Cancel, composed
<1>7. ASSUME NEW m \in Mods, Register(m) PROVE CauseInv'
  BY <1>7 DEF Register, Return, composed
<1> QED BY <1>1, <1>2, <1>3, <1>4, <1>5, <1>6, <1>7 DEF Lifecycle

LEMMA CauseSupervisor ==
    ASSUME HostTypeOK, CauseInv, NEW m \in Mods,
           \/ RelayError(m) \/ OpenFails(m) \/ ConsumeReturns(m)
           \/ \E ok \in BOOLEAN : JobEnds(m, ok)
           \/ \E role \in Roles : Panics(m, role) \/ WorkStops(m, role)
           \/ \E g \in Mods : \/ OpenGroup(m, g) \/ GroupFails(m, g)
                              \/ HandlerPanics(m, g) \/ DrainStops(m, g)
    PROVE  CauseInv'
<1> USE HostAssumption DEF HostTypeOK, CauseInv, Cause, Done
<1>1. ASSUME RelayError(m) PROVE CauseInv'
  BY <1>1 DEF RelayError, Fail, run, composed
<1>2. ASSUME OpenFails(m) \/ ConsumeReturns(m) PROVE CauseInv'
  BY <1>2 DEF OpenFails, ConsumeReturns, ConsumerEnds, Exits, Fail, run, composed, Roles
<1>3. ASSUME NEW ok \in BOOLEAN, JobEnds(m, ok) PROVE CauseInv'
  BY <1>3 DEF JobEnds, Fail, run, composed
<1>4. ASSUME NEW role \in Roles, Panics(m, role) PROVE CauseInv'
  BY <1>4 DEF Panics, Fail, run, composed
<1>5. ASSUME NEW role \in Roles, WorkStops(m, role) PROVE CauseInv'
  BY <1>5 DEF WorkStops, run, composed
<1>6. ASSUME NEW g \in Mods, OpenGroup(m, g) \/ GroupFails(m, g) PROVE CauseInv'
  BY <1>6 DEF OpenGroup, GroupFails, run, composed, Up, Roles
<1>7. ASSUME NEW g \in Mods, HandlerPanics(m, g) \/ DrainStops(m, g) PROVE CauseInv'
  BY <1>7 DEF HandlerPanics, DrainStops, run, composed
<1> QED BY <1>1, <1>2, <1>3, <1>4, <1>5, <1>6, <1>7

LEMMA CauseStep == HostTypeOK /\ CauseInv /\ [HostNext]_hostVars => CauseInv'
<1> SUFFICES ASSUME HostTypeOK, CauseInv, [HostNext]_hostVars PROVE CauseInv'
  OBVIOUS
<1> USE HostAssumption DEF CauseInv, Cause, Done
<1>1. ASSUME Signal \/ SweepStops \/ SyncHealth PROVE CauseInv'
  BY <1>1 DEF Signal, SweepStops, SyncHealth, run, composed
<1>2. ASSUME UNCHANGED hostVars PROVE CauseInv'
  BY <1>2 DEF hostVars, run, composed
<1> QED BY <1>1, <1>2, CauseLifecycle, CauseSupervisor DEF HostNext

LEMMA CauseInvImplies == CauseInv => CauseSurfaces
BY DEF CauseInv, CauseSurfaces, Cause

(* A degraded module never takes the host down, and a core module that does *)
(* is the error Run returns, unless a server's own error is returned.       *)
THEOREM RunReturnsTheCause == HostSpec => []CauseSurfaces
BY HostTypeInit, HostTypeStep, CauseInit, CauseStep, CauseInvImplies, PTL DEF HostSpec

(***************************************************************************)
(* ChangeFeed.                                                             *)
(***************************************************************************)

-----------------------------------------------------------------------------
(* The invariants. *)

(* While a method runs the transaction has a call to run; a Save has one,   *)
(* the update of its root.                                                  *)
Planned ==
    tx.stage \in {"write", "emit", "project"} =>
        /\ tx.plan # <<>>
        /\ tx.list # {} => Len(tx.plan) = 1 /\ tx.plan[1].change = "update"

(* What Write has done to the row, by the change. *)
Changed(change, b, r) ==
    /\ change = "create"   => b.state = "absent" /\ r.state = "live"
    /\ change = "update"   => b.state # "absent" /\ r.state = b.state
    /\ change = "delete"   => b.state = "live" /\ r = [b EXCEPT !.state = "deleted"]
    /\ change = "undelete" => b.state = "deleted" /\ r = [b EXCEPT !.state = "live"]

(* tx.before is the row before the call that runs. *)
Looked ==
    /\ tx.stage = "write" => tx.before = rows[tx.key]
    /\ tx.stage \in {"emit", "project"} => Changed(tx.plan[1].change, tx.before, rows[tx.key])

CallInv == TypeOK /\ Planned /\ Looked

(* Etags come from tags, and a stored row has one. *)
Tagged(rs) == \A k \in Keys : rs[k].etag <= tags /\ (rs[k].state # "absent" => rs[k].etag > 0)

Numbered ==
    /\ Tagged(rows) /\ (~Idle => Tagged(undo.rows))
    /\ \A c \in Clients : /\ loaded[c].etag <= tags
                          /\ loaded[c].stage # "none" => loaded[c].etag > 0

(* No caller has loaded the version that k has now. *)
Fresher(k) == \A c \in Clients : loaded[c].etag < rows[k].etag

(* An open transaction has given every row it wrote a version nobody holds, *)
(* and a Save has added to the members, nothing else.                       *)
Adding ==
    ~Idle =>
        /\ \A k \in Keys : rows[k].etag = undo.rows[k].etag \/ Fresher(k)
        /\ tx.list = {} => members = undo.members
        /\ tx.list # {} =>
              /\ members = [undo.members EXCEPT ![tx.key] = tx.list]
              /\ undo.members[tx.key] \subseteq tx.list /\ tx.client \in tx.list
              /\ tx.stage # "write" => Fresher(tx.key)

(* Of the committed rows rs and members ms: an aggregate loaded at the      *)
(* version the root still has was loaded whole, and every committed         *)
(* addition is there.                                                       *)
Committed(rs, ms) ==
    /\ \A c \in Clients :
          loaded[c].stage = "all" /\ loaded[c].etag = rs[loaded[c].key].etag
             => loaded[c].list = ms[loaded[c].key]
    /\ \A s \in saved : s[2] \in ms[s[1]]

SaveInv ==
    /\ CallInv /\ Numbered /\ Adding
    /\ Idle => Committed(rows, members)
    /\ ~Idle => Committed(undo.rows, undo.members)

(* The row of k that the outbox tells of, when the events of the call that  *)
(* runs are still to come during these stages.                              *)
Seen(k, stages) == IF k = tx.key /\ tx.stage \in stages THEN tx.before ELSE rows[k]

View(row) == [state |-> row.state, etag |-> row.etag]

FeedInv ==
    /\ CallInv
    /\ \A k \in Keys : Replayed(outbox, k) = View(Seen(k, {"emit"}))
    /\ ~Idle => \A k \in Keys : Replayed(undo.outbox, k) = View(undo.rows[k])

(* A key in the order has a row, and a page holds a live one. *)
Listed(rs, o) == \A i \in DOMAIN o : rs[o[i]].state # "absent"

Paged ==
    /\ Listed(rows, order) /\ (~Idle => Listed(undo.rows, undo.order))
    /\ backfill.stage = "publish" => backfill.row.state = "live"

IndexInv ==
    /\ CallInv /\ Paged
    /\ \A k \in Keys \ disturbed :
          Indexed(outbox, k) = Document(Seen(k, {"emit", "project"}))
    /\ ~Idle => \A k \in Keys \ undo.disturbed :
                   Indexed(undo.outbox, k) = Document(undo.rows[k])

-----------------------------------------------------------------------------
(* Types, and the calls of a transaction. *)

LEMMA AnyKey == NoTx.key \in Keys
BY FeedAssumption DEF NoTx

LEMMA WholeType ==
    ASSUME NEW r \in Aggregates, NEW list \in SUBSET Clients
    PROVE  [r EXCEPT !.stage = "all", !.list = list] \in Aggregates
BY DEF Aggregates

LEMMA AbsentType == Absent \in Rows
BY DEF Absent, Rows

(* The calls of a client that open a transaction. *)
LEMMA Opens ==
    ASSUME TypeOK, NEW c \in Clients,
           \/ \E k \in Keys, change \in Changes, emit \in BOOLEAN : Call(c, k, change, emit)
           \/ \E k \in Keys, emit \in BOOLEAN : Upsert(c, k, emit)
    PROVE  \E k \in Keys, emit \in BOOLEAN, plan \in Seq(Steps) :
              plan # <<>> /\ Begin(c, k, emit, plan, {})
<1>0. \A change \in Changes : Step(change) \in Steps
  BY DEF Step, Steps
<1>1. CASE \E k \in Keys, change \in Changes, emit \in BOOLEAN : Call(c, k, change, emit)
  <2>1. PICK k \in Keys, change \in Changes, emit \in BOOLEAN : Call(c, k, change, emit)
    BY <1>1
  <2>2. <<Step(change)>> \in Seq(Steps) /\ <<Step(change)>> # <<>>
    BY <1>0
  <2> QED BY <2>1, <2>2 DEF Call
<1>2. CASE \E k \in Keys, emit \in BOOLEAN : Upsert(c, k, emit)
  <2>1. PICK k \in Keys, emit \in BOOLEAN : Upsert(c, k, emit)
    BY <1>2
  <2>2. /\ {Step("create"), Step("update"), Step("undelete")} \subseteq Steps
    BY <1>0 DEF Changes
  <2>3. rows[k].state \in {"absent", "live", "deleted"}
    BY DEF TypeOK, Rows
  <2>4. CASE rows[k].state = "absent"
    <3>1. Begin(c, k, emit, <<Step("create")>>, {})
      BY <2>1, <2>4 DEF Upsert
    <3>2. <<Step("create")>> \in Seq(Steps) /\ <<Step("create")>> # <<>>
      BY <2>2
    <3> QED BY <3>1, <3>2
  <2>5. CASE rows[k].state = "live"
    <3>1. Begin(c, k, emit, <<Step("update")>>, {})
      BY <2>1, <2>5 DEF Upsert
    <3>2. <<Step("update")>> \in Seq(Steps) /\ <<Step("update")>> # <<>>
      BY <2>2
    <3> QED BY <3>1, <3>2
  <2>6. CASE rows[k].state = "deleted"
    <3>1. Begin(c, k, emit, <<Step("undelete"), Step("update")>>, {})
      BY <2>1, <2>6 DEF Upsert
    <3>2. /\ <<Step("undelete"), Step("update")>> \in Seq(Steps)
          /\ <<Step("undelete"), Step("update")>> # <<>>
      BY <2>2
    <3> QED BY <3>1, <3>2
  <2> QED BY <2>3, <2>4, <2>5, <2>6
<1> QED BY <1>1, <1>2

(* A snapshot is what the variables are. *)
LEMMA SnapshotType ==
    ASSUME TypeOK
    PROVE  Snapshot \in Snapshots
BY DEF TypeOK, Snapshot, Snapshots

LEMMA CallInvInit ==
    ASSUME Init
    PROVE  CallInv
<1>1. NoTx \in Transactions
  <2>1. <<>> \in Seq(Steps)
    OBVIOUS
  <2> QED BY <2>1, AbsentType, FeedAssumption DEF NoTx, Transactions
<1>2. NoRoot \in Aggregates
  BY AnyKey DEF NoRoot, Aggregates
<1>3. NoPage \in Pages
  BY AbsentType, FeedAssumption DEF NoPage, Pages
<1>4. NoTx.stage = "none"
  BY DEF NoTx
<1>5. order \in Seq(Keys) /\ outbox \in Seq(Feed)
  BY DEF Init
<1>6. rows \in [Keys -> Rows] /\ members \in [Keys -> SUBSET Clients]
  BY AbsentType DEF Init
<1>7. /\ tags \in 0..MaxWrites /\ deletes \in 0..MaxDeletes /\ backfills \in 0..MaxBackfills
  BY FeedAssumption DEF Init
<1>8. Idle /\ tx = NoTx /\ loaded = [c \in Clients |-> NoRoot] /\ backfill = NoPage
      /\ saved = {} /\ disturbed = {}
  BY DEF Init, Idle, NoTx
<1>9. TypeOK
  BY <1>1, <1>2, <1>3, <1>5, <1>6, <1>7, <1>8 DEF TypeOK
<1> QED BY <1>4, <1>8, <1>9 DEF CallInv, Planned, Looked

(* An open transaction has a client. *)
LEMMA Opened ==
    ASSUME TypeOK, tx.stage # "none"
    PROVE  ~Idle /\ undo \in Snapshots
BY DEF TypeOK, NoTx

(* What Begin and Save share. *)
LEMMA OpenCallInv ==
    ASSUME CallInv, NEW c \in Clients, NEW k \in Keys, NEW emit \in BOOLEAN,
           NEW plan \in Seq(Steps), NEW list \in SUBSET Clients,
           plan # <<>>, list # {} => Len(plan) = 1 /\ plan[1].change = "update",
           Idle,
           tx' = [client |-> c, key |-> k, ready |-> emit, plan |-> plan,
                  stage |-> "write", before |-> rows[k], list |-> list],
           undo' = Snapshot,
           members' \in [Keys -> SUBSET Clients],
           loaded' \in [Clients -> Aggregates],
           UNCHANGED <<rows, order, outbox, backfill, saved, disturbed, counts>>
    PROVE  CallInv'
<1>1. ~Idle'
  BY FeedAssumption DEF Idle
<1>2. undo' \in Snapshots
  BY SnapshotType DEF CallInv
<1>3. tx' \in Transactions
  BY DEF CallInv, TypeOK, Transactions
<1>4. TypeOK'
  BY <1>1, <1>2, <1>3 DEF CallInv, TypeOK, counts
<1> QED BY <1>4 DEF CallInv, Planned, Looked

LEMMA RequestCallInv ==
    ASSUME CallInv, NEW c \in Clients, Request(c)
    PROVE  CallInv'
<1>0. TypeOK
  BY DEF CallInv
<1>1. CASE \E k \in Keys, emit \in BOOLEAN, plan \in Seq(Steps) :
              plan # <<>> /\ Begin(c, k, emit, plan, {})
  <2>1. PICK k \in Keys, emit \in BOOLEAN, plan \in Seq(Steps) :
                plan # <<>> /\ Begin(c, k, emit, plan, {})
    BY <1>1
  <2>2. {} \in SUBSET Clients /\ ({} # {} => Len(plan) = 1 /\ plan[1].change = "update")
    OBVIOUS
  <2>3. members' \in [Keys -> SUBSET Clients] /\ loaded' \in [Clients -> Aggregates]
    BY <1>0, <2>1 DEF Begin, store, TypeOK
  <2> QED BY <2>1, <2>2, <2>3, OpenCallInv DEF Begin, store
<1>2. CASE \E k \in Roots : LoadRoot(c, k)
  <2>1. PICK k \in Keys : LoadRoot(c, k)
    BY <1>2, FeedAssumption
  <2>3. rows[k] \in Rows
    BY DEF CallInv, TypeOK
  <2>4. loaded' \in [Clients -> Aggregates]
    BY <2>1, <2>3 DEF CallInv, TypeOK, LoadRoot, Rows, Aggregates
  <2>2. TypeOK'
    BY <2>1, <2>4 DEF CallInv, TypeOK, LoadRoot, Idle, store, counts
  <2> QED BY <2>1, <2>2 DEF CallInv, Planned, Looked, LoadRoot, store
<1>3. CASE LoadMembers(c)
  <2>1. members[loaded[c].key] \in SUBSET Clients
    BY DEF CallInv, TypeOK, Aggregates
  <2>3. loaded' \in [Clients -> Aggregates]
    <3> DEFINE new == [loaded[c] EXCEPT !.stage = "all", !.list = members[loaded[c].key]]
    <3>1. new \in Aggregates
      BY <2>1, WholeType DEF CallInv, TypeOK
    <3>2. loaded' = [loaded EXCEPT ![c] = new]
      BY <1>3 DEF CallInv, TypeOK, LoadMembers
    <3> HIDE DEF new
    <3> QED BY <3>1, <3>2 DEF CallInv, TypeOK
  <2>2. TypeOK'
    BY <1>3, <2>3 DEF CallInv, TypeOK, LoadMembers, Idle, store, counts
  <2> QED BY <1>3, <2>2 DEF CallInv, Planned, Looked, LoadMembers, store
<1>4. CASE Save(c)
  <2> DEFINE r == loaded[c]
             list == r.list \cup {c}
             new == [client |-> c, key |-> r.key, ready |-> r.ready, plan |-> SavePlan(r),
                     stage |-> "write", before |-> rows[r.key], list |-> list]
  <2>1. /\ r.stage = "all" /\ Idle /\ loaded' = [loaded EXCEPT ![c] = NoRoot]
        /\ \/ tx' = new /\ undo' = Snapshot /\ members' = [members EXCEPT ![r.key] = list]
           \/ UNCHANGED <<tx, undo, members>>
        /\ UNCHANGED <<rows, order, outbox, backfill, saved, disturbed, counts>>
    BY <1>4 DEF Save
  <2>2. /\ r.key \in Keys /\ r.ready \in BOOLEAN /\ r.etag \in Nat
        /\ list \in SUBSET Clients /\ list # {}
    BY DEF CallInv, TypeOK, Aggregates
  <2>3. /\ SavePlan(r) \in Seq(Steps) /\ SavePlan(r) # <<>>
        /\ Len(SavePlan(r)) = 1 /\ SavePlan(r)[1].change = "update"
    BY <2>2 DEF SavePlan, EtagOf, Steps, Changes
  <2>4. loaded' \in [Clients -> Aggregates]
    BY <2>1, AnyKey DEF CallInv, TypeOK, NoRoot, Aggregates
  <2>5. CASE tx' = new /\ undo' = Snapshot /\ members' = [members EXCEPT ![r.key] = list]
    <3>1. members' \in [Keys -> SUBSET Clients]
      BY <2>2, <2>5 DEF CallInv, TypeOK
    <3> HIDE DEF r, list
    <3> QED BY <2>1, <2>2, <2>3, <2>4, <2>5, <3>1, OpenCallInv
  <2>6. CASE UNCHANGED <<tx, undo, members>>
    <3>1. TypeOK'
      BY <2>1, <2>4, <2>6 DEF CallInv, TypeOK, Idle, counts
    <3> QED BY <3>1, <2>1, <2>6 DEF CallInv, Planned, Looked
  <2> QED BY <2>1, <2>5, <2>6
<1> QED BY <1>0, <1>1, <1>2, <1>3, <1>4, Opens DEF Request

(* What Write does to the row, and to the version. *)
LEMMA WriteDoes ==
    ASSUME CallInv, Write
    PROVE  /\ ~Idle /\ tx.stage = "write" /\ tx.key \in Keys
           /\ rows' = [rows EXCEPT ![tx.key] = rows'[tx.key]]
           /\ rows'[tx.key] \in Rows
           /\ Changed(tx.plan[1].change, tx.before, rows'[tx.key])
           /\ \/ tags' = tags + 1 /\ tags < MaxWrites /\ rows'[tx.key].etag = tags + 1
              \/ /\ tags' = tags /\ rows'[tx.key].etag = rows[tx.key].etag
                 /\ tx.plan[1].change \in {"delete", "undelete"}
           /\ tx' = [tx EXCEPT !.stage = "emit"]
<1> DEFINE s == Head(tx.plan)
           b == tx.before
<1>1. /\ tx.stage = "write" /\ tx.plan # <<>> /\ b = rows[tx.key]
      /\ tx.key \in Keys /\ tx.ready \in BOOLEAN /\ b \in Rows /\ tags \in Nat
      /\ tx.plan \in Seq(Steps) /\ rows \in [Keys -> Rows]
  BY DEF CallInv, Planned, Looked, Write, TypeOK, Transactions
<1>2. s = tx.plan[1] /\ s \in Steps /\ s.change \in Changes
  <2>1. s = tx.plan[1] /\ s \in Steps
    BY <1>1
  <2> QED BY <2>1 DEF Steps
<1>3. /\ rows' = [rows EXCEPT ![tx.key] = Written(s)] /\ rows'[tx.key] = Written(s)
      /\ tx' = [tx EXCEPT !.stage = "emit"]
      /\ Accepts(s) /\ (Fresh(s) => tags < MaxWrites)
      /\ tags' = IF Fresh(s) THEN tags + 1 ELSE tags
  BY <1>1 DEF Write
<1>4. s.change = "create" \/ s.change = "update" \/ s.change = "delete" \/ s.change = "undelete"
  BY <1>2 DEF Changes
<1> HIDE DEF s
<1>5. CASE s.change = "create"
  <2>1. /\ b.state = "absent"
        /\ Written(s) = [state |-> "live", etag |-> tags + 1, ready |-> tx.ready]
    BY <1>3, <1>5, Zenon DEF Accepts, Written
  <2>2. Written(s) \in Rows /\ Written(s).etag = tags + 1
    BY <1>1, <2>1 DEF Rows
  <2>3. tags' = tags + 1 /\ tags < MaxWrites
    BY <1>3, <1>5 DEF Fresh
  <2>4. Changed(s.change, b, Written(s))
    BY <1>1, <1>5, <2>1 DEF Changed, Rows
  <2> QED BY <1>1, <1>2, <1>3, <2>2, <2>3, <2>4, Opened DEF CallInv
<1>6. CASE s.change = "update"
  <2>1. /\ b.state # "absent"
        /\ Written(s) = [b EXCEPT !.etag = tags + 1, !.ready = tx.ready]
    <3>1. "update" # "create"
      OBVIOUS
    <3> QED BY <1>3, <1>6, <3>1, Zenon DEF Accepts, Written
  <2>2. Written(s) \in Rows /\ Written(s).etag = tags + 1
    <3>1. Written(s) = [state |-> b.state, etag |-> tags + 1, ready |-> tx.ready]
      BY <1>1, <2>1 DEF Rows
    <3>2. b.state \in {"absent", "live", "deleted"} /\ tags + 1 \in Nat
      BY <1>1 DEF Rows
    <3> QED BY <1>1, <3>1, <3>2 DEF Rows
  <2>3. tags' = tags + 1 /\ tags < MaxWrites
    BY <1>3, <1>6 DEF Fresh
  <2>4. Changed(s.change, b, Written(s))
    BY <1>1, <1>6, <2>1 DEF Changed, Rows
  <2> QED BY <1>1, <1>2, <1>3, <2>2, <2>3, <2>4, Opened DEF CallInv
<1>7. CASE s.change = "delete"
  <2>1. b.state = "live" /\ Written(s) = [b EXCEPT !.state = "deleted"]
    <3>1. "delete" # "create" /\ "delete" # "update"
      OBVIOUS
    <3> QED BY <1>3, <1>7, <3>1, Zenon DEF Accepts, Written
  <2> QED BY <1>1, <1>2, <1>3, <1>7, <2>1, Opened DEF Fresh, Changed, Rows, CallInv
<1>8. CASE s.change = "undelete"
  <2>1. b.state = "deleted" /\ Written(s) = [b EXCEPT !.state = "live"]
    <3>1. "undelete" # "create" /\ "undelete" # "update" /\ "undelete" # "delete"
      OBVIOUS
    <3> QED BY <1>3, <1>8, <3>1, Zenon DEF Accepts, Written
  <2> QED BY <1>1, <1>2, <1>3, <1>8, <2>1, Opened DEF Fresh, Changed, Rows, CallInv
<1> QED BY <1>4, <1>5, <1>6, <1>7, <1>8

LEMMA WriteCallInv ==
    ASSUME CallInv, Write
    PROVE  CallInv'
<1>1. /\ ~Idle /\ tx.stage = "write" /\ tx.key \in Keys
      /\ rows' = [rows EXCEPT ![tx.key] = rows'[tx.key]]
      /\ rows'[tx.key] \in Rows
      /\ Changed(tx.plan[1].change, tx.before, rows'[tx.key])
      /\ \/ tags' = tags + 1 /\ tags < MaxWrites
         \/ tags' = tags
      /\ tx' = [tx EXCEPT !.stage = "emit"]
  BY WriteDoes
<1>2. tx' \in Transactions /\ tx'.stage = "emit" /\ tx'.client = tx.client
      /\ tx'.key = tx.key /\ tx'.plan = tx.plan /\ tx'.list = tx.list /\ tx'.before = tx.before
  BY <1>1 DEF CallInv, TypeOK, Transactions
<1>3. rows' \in [Keys -> Rows]
  BY <1>1 DEF CallInv, TypeOK
<1>4. order' \in Seq(Keys)
  BY <1>1 DEF CallInv, TypeOK, Write
<1>5. tags' \in 0..MaxWrites
  BY <1>1, FeedAssumption DEF CallInv, TypeOK
<1>6. deletes' \in 0..MaxDeletes
  BY FeedAssumption DEF CallInv, TypeOK, Write
<1>7. TypeOK'
  BY <1>1, <1>2, <1>3, <1>4, <1>5, <1>6 DEF CallInv, TypeOK, Write, Idle
<1> QED BY <1>1, <1>2, <1>7 DEF CallInv, Planned, Looked

LEMMA PlanType ==
    ASSUME CallInv, tx.stage \in {"write", "emit", "project"}
    PROVE  /\ ~Idle /\ tx.key \in Keys /\ undo \in Snapshots
           /\ tx.plan \in Seq(Steps) /\ Len(tx.plan) > 0
           /\ Head(tx.plan) = tx.plan[1] /\ tx.plan[1].change \in Changes
<1>1. /\ ~Idle /\ undo \in Snapshots /\ tx.plan \in Seq(Steps) /\ tx.plan # <<>>
      /\ tx.key \in Keys
  BY Opened DEF CallInv, Planned, TypeOK, Transactions
<1>2. Len(tx.plan) > 0 /\ Head(tx.plan) = tx.plan[1] /\ tx.plan[1] \in Steps
  BY <1>1
<1> QED BY <1>1, <1>2 DEF Steps

LEMMA EmitCallInv ==
    ASSUME CallInv, Emit
    PROVE  CallInv'
<1>1. /\ tx.stage = "emit" /\ tx' = [tx EXCEPT !.stage = "project"]
      /\ outbox' = Append(outbox, Event("entity", Head(tx.plan).change, tx.key, rows[tx.key].etag))
      /\ UNCHANGED <<rows, order, members, undo, loaded, backfill, saved, disturbed, counts>>
  BY DEF Emit
<1>2. tx' \in Transactions /\ tx'.stage = "project" /\ tx'.client = tx.client
      /\ tx'.key = tx.key /\ tx'.plan = tx.plan /\ tx'.list = tx.list /\ tx'.before = tx.before
  BY <1>1 DEF CallInv, TypeOK, Transactions
<1>3. Event("entity", Head(tx.plan).change, tx.key, rows[tx.key].etag) \in Feed
  <2>1. rows[tx.key] \in Rows
    BY <1>1, PlanType DEF CallInv, TypeOK
  <2> QED BY <1>1, <2>1, PlanType DEF Event, Feed, Rows
<1>4. outbox' \in Seq(Feed)
  BY <1>1, <1>3 DEF CallInv, TypeOK
<1>5. TypeOK'
  BY <1>1, <1>2, <1>4, PlanType DEF CallInv, TypeOK, Idle, counts
<1> QED BY <1>1, <1>2, <1>5 DEF CallInv, Planned, Looked

LEMMA ProjectionType ==
    ASSUME CallInv, tx.stage = "project"
    PROVE  /\ Event("doc", Head(tx.plan).change, tx.key, rows[tx.key].etag) \in Feed
           /\ ProjectionEvents(Head(tx.plan).change) \in Seq(Feed)
<1>1. Event("doc", Head(tx.plan).change, tx.key, rows[tx.key].etag) \in Feed
  <2>1. rows[tx.key] \in Rows
    BY PlanType DEF CallInv, TypeOK
  <2> QED BY <2>1, PlanType DEF Event, Feed, Rows
<1> QED BY <1>1 DEF ProjectionEvents

(* After its events the transaction goes on to the next call, or is done. *)
LEMMA EmitProjectionsDoes ==
    ASSUME CallInv, EmitProjections
    PROVE  /\ tx' \in Transactions /\ tx'.stage \in {"write", "commit"}
           /\ tx'.client = tx.client /\ tx'.key = tx.key /\ tx'.list = tx.list
           /\ tx'.before = rows[tx.key]
           /\ tx'.stage = "write" => tx'.plan # <<>> /\ tx.list = {}
<1>1. /\ tx.stage = "project"
      /\ tx' = [tx EXCEPT !.plan = Tail(tx.plan), !.before = rows[tx.key],
                          !.stage = IF Len(tx.plan) > 1 THEN "write" ELSE "commit"]
  BY DEF EmitProjections
<1>2. rows[tx.key] \in Rows /\ tx \in Transactions
  BY <1>1, PlanType DEF CallInv, TypeOK
<1>3. /\ Tail(tx.plan) \in Seq(Steps)
      /\ Len(tx.plan) > 1 => Tail(tx.plan) # <<>> /\ tx.list = {}
  <2>1. tx.plan \in Seq(Steps) /\ Len(tx.plan) > 0
    BY <1>1, PlanType
  <2>5. Len(tx.plan) \in Nat
    BY <2>1
  <2>2. Tail(tx.plan) \in Seq(Steps) /\ Len(Tail(tx.plan)) = Len(tx.plan) - 1
    BY <2>1
  <2>3. Len(tx.plan) > 1 => tx.list = {}
    <3>1. tx.list # {} => Len(tx.plan) = 1
      BY <1>1 DEF CallInv, Planned
    <3>2. \A n \in Nat : n > 1 => n # 1
      OBVIOUS
    <3> QED BY <2>5, <3>1, <3>2, Zenon
  <2>4. Len(tx.plan) > 1 => Tail(tx.plan) # <<>>
    <3>1. Len(<<>>) = 0
      OBVIOUS
    <3>2. \A n \in Nat : n > 1 => n - 1 # 0
      OBVIOUS
    <3> QED BY <2>2, <2>5, <3>1, <3>2, Zenon
  <2> QED BY <2>2, <2>3, <2>4
<1> QED BY <1>1, <1>2, <1>3 DEF Transactions

LEMMA EmitProjectionsCallInv ==
    ASSUME CallInv, EmitProjections
    PROVE  CallInv'
<1>1. /\ tx.stage = "project"
      /\ outbox' = outbox \o ProjectionEvents(Head(tx.plan).change)
      /\ disturbed' \subseteq disturbed \cup {tx.key}
      /\ UNCHANGED <<rows, order, members, undo, loaded, backfill, saved, counts>>
  BY DEF EmitProjections
<1>2. outbox' \in Seq(Feed)
  BY <1>1, ProjectionType DEF CallInv, TypeOK
<1>3. TypeOK'
  <2>1. ~Idle' /\ undo' \in Snapshots /\ tx' \in Transactions /\ tx'.stage # "none"
    BY <1>1, EmitProjectionsDoes, PlanType DEF Idle
  <2> QED BY <1>1, <1>2, <2>1, PlanType DEF CallInv, TypeOK, counts
<1> QED BY <1>1, <1>3, EmitProjectionsDoes DEF CallInv, Planned, Looked

LEMMA NoTxType == NoTx \in Transactions /\ NoTx.stage = "none" /\ NoTx.client = NoClient
<1>1. <<>> \in Seq(Steps)
  OBVIOUS
<1> QED BY <1>1, AbsentType, FeedAssumption DEF NoTx, Transactions

LEMMA EndCallInv ==
    ASSUME CallInv, Commit \/ Rollback
    PROVE  CallInv'
<1>1. tx' = NoTx /\ Idle' /\ UNCHANGED <<loaded, backfill, counts>>
  BY NoTxType DEF Commit, Rollback, Idle
<1>2. CASE Commit
  <2>1. saved' \subseteq Keys \X Clients
    <3>1. ~Idle /\ tx.client \in Clients /\ tx.key \in Keys
      BY <1>2, Opened DEF CallInv, TypeOK, Commit, Transactions, Idle
    <3> QED BY <1>2, <3>1 DEF Commit, CallInv, TypeOK
  <2>2. TypeOK'
    BY <1>1, <1>2, <2>1, NoTxType DEF Commit, CallInv, TypeOK, store, counts
  <2> QED BY <1>1, <2>2, NoTxType DEF CallInv, Planned, Looked
<1>3. CASE Rollback
  <2>1. undo \in Snapshots
    BY <1>3, PlanType DEF Rollback
  <2>2. TypeOK'
    BY <1>1, <1>3, <2>1, NoTxType DEF Rollback, Restore, Snapshots, CallInv, TypeOK, counts
  <2> QED BY <1>1, <2>2, NoTxType DEF CallInv, Planned, Looked
<1> QED BY <1>2, <1>3

LEMMA NoPageType == NoPage \in Pages /\ NoPage.stage = "none"
BY AbsentType, FeedAssumption DEF NoPage, Pages

LEMMA NextPageType ==
    ASSUME NEW p \in Pages
    PROVE  [p EXCEPT !.stage = "list", !.offset = @ + 1] \in Pages
<1>1. p.offset + 1 \in Nat
  BY DEF Pages
<1> QED BY <1>1, Zenon DEF Pages

(* A page of the backfill is a row that List shows. *)
LEMMA ListPageDoes ==
    ASSUME TypeOK, ListPage
    PROVE  /\ backfill' \in Pages
           /\ backfill'.stage = "publish" =>
                 \E i \in DOMAIN order :
                    /\ rows[order[i]].state # "deleted"
                    /\ backfill'.row = rows[order[i]]
<1>1. CASE backfill' = NoPage
  BY <1>1, NoPageType
<1>2. ASSUME NEW i \in Visible,
             backfill' = [backfill EXCEPT
                 !.stage = "publish", !.last = Cardinality(Visible) = backfill.offset + 1,
                 !.key = order[i], !.row = rows[order[i]]]
      PROVE  /\ backfill' \in Pages /\ rows[order[i]].state # "deleted" /\ i \in DOMAIN order
             /\ backfill'.row = rows[order[i]]
  <2>1. i \in DOMAIN order /\ order[i] \in Keys /\ rows[order[i]] \in Rows
    BY DEF Visible, TypeOK
  <2> QED BY <1>2, <2>1 DEF TypeOK, Pages, Visible
<1> QED BY <1>1, <1>2 DEF ListPage

LEMMA BackfillCallInv ==
    ASSUME CallInv, StartBackfill \/ ListPage \/ PublishPage
    PROVE  CallInv'
<1>0. UNCHANGED <<rows, order, members, tx, undo, loaded, saved, tags, deletes>>
  BY DEF StartBackfill, ListPage, PublishPage, store, counts
<1>1. CASE StartBackfill
  <2>1. backfill' \in Pages /\ backfills' \in 0..MaxBackfills
    BY <1>1, NoPageType, FeedAssumption DEF StartBackfill, Pages, CallInv, TypeOK
  <2>2. TypeOK'
    BY <1>0, <1>1, <2>1 DEF StartBackfill, store, Idle, CallInv, TypeOK
  <2> QED BY <1>0, <2>2 DEF CallInv, Planned, Looked
<1>2. CASE ListPage
  <2>2. TypeOK'
    BY <1>0, <1>2, ListPageDoes DEF ListPage, store, counts, Idle, CallInv, TypeOK
  <2> QED BY <1>0, <2>2 DEF CallInv, Planned, Looked
<1>3. CASE PublishPage
  <2>1. backfill \in Pages /\ backfill.key \in Keys /\ backfill.row \in Rows
    BY DEF CallInv, TypeOK, Pages
  <2>2. backfill' \in Pages
    <3>1. [backfill EXCEPT !.stage = "list", !.offset = @ + 1] \in Pages
      BY <2>1, NextPageType
    <3> QED BY <1>3, <3>1, NoPageType DEF PublishPage
  <2>3. Event("doc", "create", backfill.key, backfill.row.etag) \in Feed
    BY <2>1 DEF Event, Feed, Rows, Changes
  <2>4. outbox' \in Seq(Feed) /\ disturbed' \subseteq Keys
    <3>1. outbox \in Seq(Feed) /\ disturbed \subseteq Keys
      BY DEF CallInv, TypeOK
    <3>2. Append(outbox, Event("doc", "create", backfill.key, backfill.row.etag)) \in Seq(Feed)
      BY <2>3, <3>1
    <3>3. disturbed \cup {backfill.key} \subseteq Keys
      BY <2>1, <3>1
    <3> QED BY <1>3, <3>1, <3>2, <3>3 DEF PublishPage
  <2>5. TypeOK'
    BY <1>0, <1>3, <2>2, <2>4 DEF PublishPage, counts, Idle, CallInv, TypeOK
  <2> QED BY <1>0, <2>5 DEF CallInv, Planned, Looked
<1> QED BY <1>1, <1>2, <1>3

LEMMA CallInvStep ==
    ASSUME CallInv, [Next]_vars
    PROVE  CallInv'
<1>1. CASE UNCHANGED vars
  BY <1>1 DEF vars, store, counts, CallInv, TypeOK, Planned, Looked, Idle
<1> QED BY <1>1, RequestCallInv, WriteCallInv, EmitCallInv, EmitProjectionsCallInv,
           EndCallInv, BackfillCallInv DEF Next

(* Every variable of a repository with a change feed keeps its type, and    *)
(* the snapshots MemoryTxRunner took are there while a transaction is open. *)
THEOREM FeedTypeCorrect == Spec => []TypeOK
<1>1. Init => CallInv
  BY CallInvInit
<1>2. CallInv /\ [Next]_vars => CallInv'
  BY CallInvStep
<1>3. CallInv => TypeOK
  BY DEF CallInv
<1> QED BY <1>1, <1>2, <1>3, PTL DEF Spec
-----------------------------------------------------------------------------
(* Save is a compare-and-set. *)

LEMMA SaveInvInit ==
    ASSUME Init
    PROVE  SaveInv
<1>1. CallInv /\ Idle
  BY CallInvInit, NoTxType DEF Init, Idle
<1>2. \A k \in Keys : rows[k] = Absent
  BY DEF Init
<1>3. \A c \in Clients : loaded[c] = NoRoot
  BY DEF Init
<1>4. Numbered
  BY <1>1, <1>2, <1>3 DEF Init, Numbered, Tagged, Absent, NoRoot
<1>5. Committed(rows, members)
  BY <1>3 DEF Init, Committed, NoRoot
<1> QED BY <1>1, <1>4, <1>5 DEF SaveInv, Adding

(* A transaction opens: the committed state is the snapshot. *)
LEMMA OpenSaveInv ==
    ASSUME SaveInv, NEW c \in Clients, NEW k \in Keys, NEW list \in SUBSET Clients,
           Idle, CallInv', ~Idle',
           tx'.client = c, tx'.key = k, tx'.stage = "write", tx'.list = list,
           undo' = Snapshot,
           \A x \in Clients : loaded'[x] = loaded[x] \/ loaded'[x] = NoRoot,
           \/ list = {} /\ UNCHANGED members
           \/ c \in list /\ members[k] \subseteq list /\ members' = [members EXCEPT ![k] = list],
           UNCHANGED <<rows, saved, tags>>
    PROVE  SaveInv'
<1>1. undo'.rows = rows /\ undo'.members = members
  BY DEF Snapshot
<1>2. Numbered'
  <2>1. \A x \in Clients : /\ loaded'[x].etag <= tags
                           /\ loaded'[x].stage # "none" => loaded'[x].etag > 0
    BY DEF SaveInv, Numbered, NoRoot, CallInv, TypeOK
  <2> QED BY <1>1, <2>1 DEF SaveInv, Numbered, Tagged
<1>3. Adding'
  BY <1>1 DEF Adding
<1>4. Committed(undo.rows, undo.members)'
  BY <1>1 DEF SaveInv, Committed, NoRoot
<1> QED BY <1>2, <1>3, <1>4 DEF SaveInv

LEMMA RequestSaveInv ==
    ASSUME SaveInv, NEW c \in Clients, Request(c)
    PROVE  SaveInv'
<1>0. TypeOK /\ CallInv /\ CallInv'
  BY RequestCallInv DEF SaveInv, CallInv
<1>1. CASE \E k \in Keys, emit \in BOOLEAN, plan \in Seq(Steps) :
              plan # <<>> /\ Begin(c, k, emit, plan, {})
  <2>1. PICK k \in Keys, emit \in BOOLEAN, plan \in Seq(Steps) : Begin(c, k, emit, plan, {})
    BY <1>1
  <2>2. /\ Idle /\ tx'.client = c /\ tx'.key = k /\ tx'.stage = "write" /\ tx'.list = {}
        /\ undo' = Snapshot /\ UNCHANGED <<rows, members, loaded, saved, tags>>
    BY <2>1 DEF Begin, store, counts
  <2>3. ~Idle'
    BY <2>2, FeedAssumption DEF Idle
  <2> QED BY <1>0, <2>2, <2>3, OpenSaveInv
<1>2. CASE \E k \in Roots : LoadRoot(c, k)
  <2>1. PICK k \in Keys : LoadRoot(c, k)
    BY <1>2, FeedAssumption
  <2>2. /\ Idle /\ rows[k].state = "live"
        /\ loaded' = [loaded EXCEPT ![c] = [stage |-> "root", key |-> k, etag |-> rows[k].etag,
                                            ready |-> rows[k].ready, list |-> {}]]
        /\ UNCHANGED <<rows, members, tx, undo, saved, tags>>
    BY <2>1 DEF LoadRoot, store, counts
  <2>3. rows[k].etag <= tags /\ rows[k].etag > 0
    BY <2>2 DEF SaveInv, Numbered, Tagged
  <2>4. \A x \in Clients : /\ x # c => loaded'[x] = loaded[x]
                           /\ loaded'[c].stage = "root" /\ loaded'[c].etag = rows[k].etag
    BY <1>0, <2>2 DEF TypeOK
  <2>5. Numbered'
    BY <2>2, <2>3, <2>4 DEF SaveInv, Numbered, Tagged, Idle
  <2>6. Committed(rows, members)'
    BY <2>2, <2>4 DEF SaveInv, Committed
  <2> QED BY <1>0, <2>2, <2>5, <2>6 DEF SaveInv, Adding, Idle
<1>3. CASE LoadMembers(c)
  <2>1. /\ Idle /\ loaded[c].stage = "root"
        /\ loaded' = [loaded EXCEPT ![c].stage = "all", ![c].list = members[loaded[c].key]]
        /\ UNCHANGED <<rows, members, tx, undo, saved, tags>>
    BY <1>3 DEF LoadMembers, store, counts
  <2>2. \A x \in Clients \ {c} : loaded'[x] = loaded[x]
    BY <1>0, <2>1 DEF TypeOK
  <2>3. /\ loaded'[c].key = loaded[c].key /\ loaded'[c].etag = loaded[c].etag
        /\ loaded'[c].list = members[loaded[c].key]
    BY <1>0, <2>1 DEF TypeOK, Aggregates
  <2>4. Numbered'
    BY <2>1, <2>2, <2>3 DEF SaveInv, Numbered, Tagged, Idle
  <2>5. Committed(rows, members)'
    BY <2>1, <2>2, <2>3 DEF SaveInv, Committed
  <2> QED BY <1>0, <2>1, <2>4, <2>5 DEF SaveInv, Adding, Idle
<1>4. CASE Save(c)
  <2> DEFINE r == loaded[c]
             list == r.list \cup {c}
  <2>1. /\ r.stage = "all" /\ Idle /\ loaded' = [loaded EXCEPT ![c] = NoRoot]
        /\ \/ /\ Precondition(r) /\ undo' = Snapshot
              /\ tx'.client = c /\ tx'.key = r.key /\ tx'.stage = "write" /\ tx'.list = list
              /\ members' = [members EXCEPT ![r.key] = list]
           \/ UNCHANGED <<tx, undo, members>>
        /\ UNCHANGED <<rows, saved, tags>>
    BY <1>4 DEF Save, counts
  <2>2. r \in Aggregates /\ r.key \in Keys /\ list \in SUBSET Clients /\ c \in list
    BY <1>0 DEF TypeOK, Aggregates
  <2>3. \A x \in Clients : loaded'[x] = loaded[x] \/ loaded'[x] = NoRoot
    BY <1>0, <2>1 DEF TypeOK
  <2>4. CASE UNCHANGED <<tx, undo, members>>
    <3>1. Numbered'
      BY <1>0, <2>1, <2>3, <2>4 DEF SaveInv, Numbered, Tagged, Idle, NoRoot, TypeOK
    <3>2. Committed(rows, members)'
      BY <2>1, <2>3, <2>4 DEF SaveInv, Committed, NoRoot
    <3> QED BY <1>0, <2>1, <2>4, <3>1, <3>2 DEF SaveInv, Adding, Idle
  <2>5. CASE /\ Precondition(r) /\ undo' = Snapshot
             /\ tx'.client = c /\ tx'.key = r.key /\ tx'.stage = "write" /\ tx'.list = list
             /\ members' = [members EXCEPT ![r.key] = list]
    <3>1. r.etag > 0 /\ r.etag \in {0, rows[r.key].etag}
      BY <2>1, <2>5 DEF SaveInv, Numbered, Precondition, EtagOf
    <3>2. r.etag = rows[r.key].etag
      BY <2>2, <3>1 DEF Aggregates
    <3>3. r.list = members[r.key]
      BY <2>1, <3>2 DEF SaveInv, Committed
    <3>4. members[r.key] \subseteq list
      BY <3>3
    <3>5. ~Idle'
      BY <2>5, FeedAssumption DEF Idle
    <3> HIDE DEF r, list
    <3> QED BY <1>0, <2>1, <2>2, <2>3, <2>5, <3>4, <3>5, OpenSaveInv
  <2> QED BY <2>1, <2>4, <2>5
<1> QED BY <1>0, <1>1, <1>2, <1>3, <1>4, Opens DEF Request

LEMMA WriteSaveInv ==
    ASSUME SaveInv, Write
    PROVE  SaveInv'
<1>0. CallInv /\ CallInv' /\ TypeOK
  BY WriteCallInv DEF SaveInv, CallInv
<1>1. /\ ~Idle /\ tx.stage = "write" /\ tx.key \in Keys
      /\ rows' = [rows EXCEPT ![tx.key] = rows'[tx.key]]
      /\ rows'[tx.key] \in Rows
      /\ Changed(tx.plan[1].change, tx.before, rows'[tx.key])
      /\ \/ tags' = tags + 1 /\ tags < MaxWrites /\ rows'[tx.key].etag = tags + 1
         \/ /\ tags' = tags /\ rows'[tx.key].etag = rows[tx.key].etag
            /\ tx.plan[1].change \in {"delete", "undelete"}
      /\ tx' = [tx EXCEPT !.stage = "emit"]
      /\ tx.before = rows[tx.key]
  BY <1>0, WriteDoes DEF CallInv, Looked
<1>2. UNCHANGED <<members, undo, loaded, saved>> /\ ~Idle'
      /\ tx'.key = tx.key /\ tx'.list = tx.list /\ tx'.client = tx.client
  BY <1>0, <1>1 DEF Write, TypeOK, Transactions, Idle
<1>3. /\ tags \in Nat /\ \A k \in Keys : rows[k].etag \in Nat /\ undo.rows[k].etag \in Nat
      /\ \A c \in Clients : loaded[c].etag \in Nat
  BY <1>0, <1>1 DEF TypeOK, Rows, Snapshots, Aggregates
<1>4. \A k \in Keys \ {tx.key} : rows'[k] = rows[k]
  BY <1>0, <1>1 DEF TypeOK
<1>5. Numbered'
  <2>1. rows'[tx.key].etag <= tags' /\ rows'[tx.key].etag > 0
    <3>1. CASE rows'[tx.key].etag = tags + 1 /\ tags' = tags + 1
      BY <1>3, <3>1
    <3>2. CASE /\ tags' = tags /\ rows'[tx.key].etag = rows[tx.key].etag
               /\ tx.plan[1].change \in {"delete", "undelete"}
      <4>1. rows[tx.key].state # "absent"
        BY <1>1, <3>2 DEF Changed
      <4> QED BY <1>1, <1>3, <3>2, <4>1 DEF SaveInv, Numbered, Tagged
    <3> QED BY <1>1, <3>1, <3>2
  <2>2. tags <= tags'
    BY <1>1, <1>3
  <2>3. Tagged(rows)' /\ Tagged(undo.rows)'
    <3>1. tags' \in Nat
      BY <1>0 DEF CallInv, TypeOK
    <3>2. ASSUME NEW k \in Keys
          PROVE  rows'[k].etag <= tags' /\ (rows'[k].state # "absent" => rows'[k].etag > 0)
      <4>1. CASE k = tx.key
        BY <2>1, <4>1
      <4>2. CASE k # tx.key
        BY <1>3, <1>4, <2>2, <3>1, <4>2 DEF SaveInv, Numbered, Tagged
      <4> QED BY <4>1, <4>2
    <3>3. ASSUME NEW k \in Keys
          PROVE  /\ undo'.rows[k].etag <= tags'
                 /\ undo'.rows[k].state # "absent" => undo'.rows[k].etag > 0
      BY <1>1, <1>2, <1>3, <2>2, <3>1 DEF SaveInv, Numbered, Tagged
    <3> QED BY <3>2, <3>3 DEF Tagged
  <2>4. \A c \in Clients : /\ loaded'[c].etag <= tags'
                           /\ loaded'[c].stage # "none" => loaded'[c].etag > 0
    BY <1>0, <1>2, <1>3, <2>2 DEF SaveInv, Numbered, CallInv, TypeOK
  <2> QED BY <2>3, <2>4 DEF Numbered
<1>6. Adding'
  <2>1. CASE rows'[tx.key].etag = tags + 1
    <3>1. Fresher(tx.key)'
      BY <1>2, <1>3, <2>1 DEF SaveInv, Numbered, Fresher
    <3> QED BY <1>1, <1>2, <1>4, <3>1 DEF SaveInv, Adding, Fresher
  <2>2. CASE /\ rows'[tx.key].etag = rows[tx.key].etag
             /\ tx.plan[1].change \in {"delete", "undelete"}
    <3>1. tx.list = {}
      BY <1>0, <1>1, <2>2 DEF CallInv, Planned
    <3>2. \A k \in Keys : rows'[k].etag = rows[k].etag
      BY <1>4, <2>2
    <3> QED BY <1>1, <1>2, <3>1, <3>2 DEF SaveInv, Adding, Fresher
  <2> QED BY <1>1, <2>1, <2>2
<1>7. Committed(undo.rows, undo.members)'
  BY <1>1, <1>2 DEF SaveInv, Committed
<1> QED BY <1>0, <1>2, <1>5, <1>6, <1>7 DEF SaveInv

LEMMA EmitSaveInv ==
    ASSUME SaveInv, Emit \/ EmitProjections
    PROVE  SaveInv'
<1>0. CallInv /\ CallInv'
  BY EmitCallInv, EmitProjectionsCallInv DEF SaveInv
<1>1. /\ tx.stage \in {"emit", "project"} /\ tx'.stage \in {"write", "project", "commit"}
      /\ tx'.key = tx.key /\ tx'.list = tx.list /\ tx'.client = tx.client
      /\ tx'.stage = "write" => tx.list = {}
  <2>1. CASE Emit
    BY <1>0, <2>1 DEF Emit, CallInv, TypeOK, Transactions
  <2>2. CASE EmitProjections
    <3>1. tx.stage = "project"
      BY <2>2 DEF EmitProjections
    <3> QED BY <1>0, <2>2, <3>1, EmitProjectionsDoes
  <2> QED BY <2>1, <2>2
<1>2. ~Idle /\ ~Idle'
  BY <1>0, <1>1, PlanType DEF Idle
<1>3. UNCHANGED <<rows, members, undo, loaded, saved, tags>>
  BY DEF Emit, EmitProjections, counts
<1>4. Numbered'
  BY <1>2, <1>3 DEF SaveInv, Numbered, Tagged
<1>5. Adding'
  BY <1>1, <1>2, <1>3 DEF SaveInv, Adding, Fresher
<1>6. Committed(undo.rows, undo.members)'
  BY <1>2, <1>3 DEF SaveInv, Committed
<1> QED BY <1>0, <1>2, <1>4, <1>5, <1>6 DEF SaveInv

LEMMA EndSaveInv ==
    ASSUME SaveInv, Commit \/ Rollback
    PROVE  SaveInv'
<1>0. CallInv /\ CallInv' /\ Idle' /\ ~Idle
  <2>1. tx.stage # "none" /\ tx' = NoTx
    BY DEF Commit, Rollback
  <2> QED BY <2>1, EndCallInv, Opened, NoTxType DEF SaveInv, CallInv, Idle
<1>1. CASE Commit
  <2>1. /\ UNCHANGED <<rows, members, loaded, tags>> /\ tx.stage = "commit"
        /\ saved' = IF tx.list # {} THEN saved \cup {<<tx.key, tx.client>>} ELSE saved
    BY <1>1 DEF Commit, store, counts
  <2>2. Numbered'
    BY <1>0, <2>1 DEF SaveInv, Numbered, Tagged
  <2>3. tx.key \in Keys /\ \A c \in Clients : loaded[c].key \in Keys /\ loaded[c].etag \in Nat
    BY <1>0 DEF CallInv, TypeOK, Transactions, Aggregates
  <2>4. /\ undo.members \in [Keys -> SUBSET Clients]
        /\ \A k \in Keys : rows[k].etag \in Nat
        /\ saved \subseteq Keys \X Clients
    BY <1>0 DEF CallInv, TypeOK, Snapshots, Rows
  <2>5. ASSUME NEW c \in Clients, loaded[c].stage = "all",
               loaded[c].etag = rows[loaded[c].key].etag
        PROVE  loaded[c].list = members[loaded[c].key]
    <3>1. ~Fresher(loaded[c].key)
      BY <2>3, <2>4, <2>5 DEF Fresher
    <3>2. rows[loaded[c].key].etag = undo.rows[loaded[c].key].etag
      BY <1>0, <2>3, <3>1 DEF SaveInv, Adding
    <3>3. loaded[c].list = undo.members[loaded[c].key]
      BY <1>0, <2>5, <3>2 DEF SaveInv, Committed
    <3>4. CASE tx.list = {}
      BY <1>0, <3>3, <3>4 DEF SaveInv, Adding
    <3>5. CASE tx.list # {}
      <4>1. members = [undo.members EXCEPT ![tx.key] = tx.list] /\ Fresher(tx.key)
        BY <1>0, <2>1, <3>5 DEF SaveInv, Adding
      <4>2. loaded[c].key # tx.key
        BY <3>1, <4>1
      <4> QED BY <2>3, <2>4, <3>3, <4>1, <4>2
    <3> QED BY <3>4, <3>5
  <2>6. ASSUME NEW s \in saved'
        PROVE  s[2] \in members[s[1]]
    <3>1. CASE tx.list = {}
      BY <1>0, <2>1, <2>6, <3>1 DEF SaveInv, Adding, Committed
    <3>2. CASE tx.list # {}
      <4>1. /\ members = [undo.members EXCEPT ![tx.key] = tx.list]
            /\ undo.members[tx.key] \subseteq tx.list /\ tx.client \in tx.list
        BY <1>0, <3>2 DEF SaveInv, Adding
      <4>2. CASE s \in saved
        <5>1. s[2] \in undo.members[s[1]] /\ s[1] \in Keys
          BY <1>0, <2>4, <4>2 DEF SaveInv, Committed
        <5> QED BY <2>3, <2>4, <4>1, <5>1
      <4>3. CASE s = <<tx.key, tx.client>>
        BY <2>3, <2>4, <4>1, <4>3
      <4> QED BY <2>1, <2>6, <3>2, <4>2, <4>3
    <3> QED BY <3>1, <3>2
  <2>7. Committed(rows, members)'
    BY <2>1, <2>5, <2>6 DEF Committed
  <2> QED BY <1>0, <2>2, <2>7 DEF SaveInv, Adding
<1>2. CASE Rollback
  <2>1. /\ rows' = undo.rows /\ members' = undo.members
        /\ UNCHANGED <<loaded, saved, tags>>
    BY <1>2 DEF Rollback, Restore, counts
  <2>2. Numbered'
    BY <1>0, <2>1 DEF SaveInv, Numbered, Tagged
  <2>3. Committed(rows, members)'
    BY <1>0, <2>1 DEF SaveInv, Committed
  <2> QED BY <1>0, <2>2, <2>3 DEF SaveInv, Adding
<1> QED BY <1>1, <1>2

LEMMA BackfillSaveInv ==
    ASSUME SaveInv, \/ StartBackfill \/ ListPage \/ PublishPage
                    \/ UNCHANGED vars
    PROVE  SaveInv'
<1>1. UNCHANGED <<rows, members, tx, undo, loaded, saved, tags>>
  BY DEF StartBackfill, ListPage, PublishPage, store, counts, vars
<1>2. CallInv'
  BY CallInvStep DEF SaveInv, Next
<1> QED BY <1>1, <1>2
        DEF SaveInv, Numbered, Tagged, Adding, Fresher, Committed, Idle

(* Save is a compare-and-set on the aggregate: whatever else the callers    *)
(* do, and whichever transactions fail, a member added by a Save that       *)
(* committed is never dropped by another Save that had loaded the root      *)
(* before it.                                                               *)
THEOREM SavesAreKept == Spec => []NoLostSave
<1>1. Init => SaveInv
  BY SaveInvInit
<1>2. SaveInv /\ [Next]_vars => SaveInv'
  BY RequestSaveInv, WriteSaveInv, EmitSaveInv, EndSaveInv, BackfillSaveInv DEF Next
<1>3. ASSUME SaveInv
      PROVE  NoLostSave
  <2>1. CASE Idle
    BY <1>3, <2>1 DEF SaveInv, Committed, NoLostSave
  <2>2. CASE ~Idle
    <3>1. /\ undo.members \in [Keys -> SUBSET Clients] /\ saved \subseteq Keys \X Clients
          /\ tx.key \in Keys
      BY <1>3, <2>2 DEF SaveInv, CallInv, TypeOK, Snapshots, Transactions
    <3>2. ASSUME NEW s \in saved
          PROVE  s[2] \in members[s[1]]
      <4>1. s[2] \in undo.members[s[1]] /\ s[1] \in Keys
        BY <1>3, <2>2, <3>1 DEF SaveInv, Committed
      <4>2. CASE tx.list = {}
        BY <1>3, <2>2, <4>1, <4>2 DEF SaveInv, Adding
      <4>3. CASE tx.list # {}
        <5>1. /\ members = [undo.members EXCEPT ![tx.key] = tx.list]
              /\ undo.members[tx.key] \subseteq tx.list
          BY <1>3, <2>2, <4>3 DEF SaveInv, Adding
        <5> QED BY <3>1, <4>1, <5>1
      <4> QED BY <4>2, <4>3
    <3> QED BY <3>2 DEF NoLostSave
  <2> QED BY <2>1, <2>2
<1> QED BY <1>1, <1>2, <1>3, PTL DEF Spec
-----------------------------------------------------------------------------
(* What a consumer of the outbox knows after one more event. *)

LEMMA MaxIs ==
    ASSUME NEW n \in Nat, NEW S, S \subseteq 1..n, S # {}
    PROVE  Max(S) \in S /\ \A y \in S : Max(S) >= y
<1> DEFINE T == {n - x : x \in S}
<1>0. \A x \in S : n - x \in Nat
  OBVIOUS
<1>1. T \subseteq Nat /\ T # {}
  BY <1>0
<1>2. PICK m \in T : \A y \in T : ~(<<y, m>> \in OpToRel(<, Nat))
  <2> HIDE DEF T
  <2> QED BY <1>1, NatLessThanWellFounded, WFMin
<1>3. PICK x \in S : m = n - x
  BY <1>2
<1>4. \A y \in S : x >= y
  <2>1. ASSUME NEW y \in S
        PROVE  x >= y
    <3>1. n - y \in T /\ n - y \in Nat /\ m \in Nat
      BY <1>1
    <3>2. ~(n - y < m)
      BY <1>2, <3>1 DEF OpToRel
    <3> QED BY <1>3, <3>1, <3>2
  <2> QED BY <2>1
<1>5. \E z \in S : \A y \in S : z >= y
  BY <1>3, <1>4
<1> QED BY <1>5, Zenon DEF Max

(* more is box with e after it. *)
Longer(box, e, more) ==
    /\ Len(box) \in Nat /\ DOMAIN box = 1..Len(box) /\ DOMAIN more = 1..(Len(box) + 1)
    /\ more[Len(box) + 1] = e
    /\ \A i \in 1..Len(box) : more[i] = box[i]

LEMMA AppendDoes ==
    ASSUME NEW box \in Seq(Feed), NEW e \in Feed
    PROVE  Longer(box, e, Append(box, e))
BY DEF Longer

LEMMA AppendMatch ==
    ASSUME NEW box, NEW e \in Feed, NEW more, Longer(box, e, more),
           NEW changes, e.change \in changes
    PROVE  /\ EventsOf(more, e.kind, e.key, changes) # {}
           /\ more[Max(EventsOf(more, e.kind, e.key, changes))] = e
<1> DEFINE new == EventsOf(more, e.kind, e.key, changes)
<1>1. new \subseteq 1..(Len(box) + 1) /\ Len(box) + 1 \in new /\ Len(box) + 1 \in Nat
  BY DEF Longer, EventsOf
<1>2. Max(new) \in new /\ Max(new) >= Len(box) + 1
  <2> HIDE DEF new
  <2> QED BY <1>1, MaxIs
<1>3. Max(new) = Len(box) + 1
  <2> HIDE DEF new
  <2>1. \A n \in Nat : \A m \in 1..n : m >= n => m = n
    OBVIOUS
  <2> QED BY <1>1, <1>2, <2>1, Zenon
<1> QED BY <1>1, <1>3 DEF Longer

LEMMA AppendMiss ==
    ASSUME NEW box, NEW e \in Feed, NEW more, Longer(box, e, more),
           NEW kind, NEW k, NEW changes,
           ~(e.kind = kind /\ e.key = k /\ e.change \in changes)
    PROVE  /\ EventsOf(more, kind, k, changes) = EventsOf(box, kind, k, changes)
           /\ EventsOf(box, kind, k, changes) # {} =>
                 more[Max(EventsOf(box, kind, k, changes))]
                    = box[Max(EventsOf(box, kind, k, changes))]
<1> DEFINE old == EventsOf(box, kind, k, changes)
           new == EventsOf(more, kind, k, changes)
<1>1. new = old
  <2>1. Len(box) + 1 \notin new
    BY DEF Longer, EventsOf
  <2>2. \A i \in 1..Len(box) : i \in new <=> i \in old
    BY DEF Longer, EventsOf
  <2>3. old \subseteq 1..Len(box) /\ new \subseteq 1..(Len(box) + 1)
    BY DEF Longer, EventsOf
  <2>4. \A i \in new : i \in 1..Len(box)
    <3> HIDE DEF new
    <3> QED BY <2>1, <2>3 DEF Longer
  <2> HIDE DEF new, old
  <2> QED BY <2>2, <2>3, <2>4
<1>2. old \subseteq 1..Len(box)
  BY DEF Longer, EventsOf
<1>3. old # {} => Max(old) \in 1..Len(box)
  <2> HIDE DEF old
  <2> QED BY <1>2, MaxIs DEF Longer
<1> QED BY <1>1, <1>3 DEF Longer

(* The entity events of other keys, and the documents, do not matter. *)
LEMMA ReplayedOther ==
    ASSUME NEW box, NEW e \in Feed, NEW more, Longer(box, e, more),
           NEW k, e.kind # "entity" \/ e.key # k
    PROVE  Replayed(more, k) = Replayed(box, k)
<1> DEFINE os == EventsOf(box, "entity", k, Changes \ {"update"})
           ns == EventsOf(more, "entity", k, Changes \ {"update"})
           oe == EventsOf(box, "entity", k, {"create", "update"})
           ne == EventsOf(more, "entity", k, {"create", "update"})
<1>1. ns = os /\ (os # {} => more[Max(os)] = box[Max(os)])
  BY AppendMiss
<1>2. ne = oe /\ (oe # {} => more[Max(oe)] = box[Max(oe)])
  BY AppendMiss
<1>3. Replayed(box, k) =
        [state |-> IF os = {} THEN "absent"
                   ELSE IF box[Max(os)].change = "delete" THEN "deleted" ELSE "live",
         etag |-> IF oe = {} THEN 0 ELSE box[Max(oe)].etag]
  BY DEF Replayed
<1>4. Replayed(more, k) =
        [state |-> IF ns = {} THEN "absent"
                   ELSE IF more[Max(ns)].change = "delete" THEN "deleted" ELSE "live",
         etag |-> IF ne = {} THEN 0 ELSE more[Max(ne)].etag]
  BY DEF Replayed
<1> HIDE DEF os, ns, oe, ne
<1>5. Replayed(more, k) = Replayed(box, k)
  BY <1>1, <1>2, <1>3, <1>4
<1> QED BY <1>5

(* One more event of k itself. *)
LEMMA ReplayedNext ==
    ASSUME NEW box, NEW e \in Feed, NEW more, Longer(box, e, more),
           NEW k, e.kind = "entity", e.key = k
    PROVE  Replayed(more, k) =
             [state |-> IF e.change = "update" THEN Replayed(box, k).state
                        ELSE IF e.change = "delete" THEN "deleted" ELSE "live",
              etag  |-> IF e.change \in {"create", "update"} THEN e.etag
                        ELSE Replayed(box, k).etag]
<1> DEFINE os == EventsOf(box, "entity", k, Changes \ {"update"})
           ns == EventsOf(more, "entity", k, Changes \ {"update"})
           oe == EventsOf(box, "entity", k, {"create", "update"})
           ne == EventsOf(more, "entity", k, {"create", "update"})
<1>1. CASE e.change = "update"
  <2>1. ns = os /\ (os # {} => more[Max(os)] = box[Max(os)])
    BY <1>1, AppendMiss
  <2>2. ne # {} /\ more[Max(ne)] = e
    BY <1>1, AppendMatch
  <2>3. Replayed(box, k).state =
          IF os = {} THEN "absent"
          ELSE IF box[Max(os)].change = "delete" THEN "deleted" ELSE "live"
    BY DEF Replayed
  <2>4. Replayed(more, k) =
          [state |-> IF ns = {} THEN "absent"
                     ELSE IF more[Max(ns)].change = "delete" THEN "deleted" ELSE "live",
           etag |-> IF ne = {} THEN 0 ELSE more[Max(ne)].etag]
    BY DEF Replayed
  <2> HIDE DEF os, ns, oe, ne
  <2>5. Replayed(more, k) = [state |-> Replayed(box, k).state, etag |-> e.etag]
    BY <2>1, <2>2, <2>3, <2>4
  <2> QED BY <1>1, <2>5
<1>2. CASE e.change # "update"
  <2>0. e.change \in Changes \ {"update"}
    BY <1>2 DEF Feed
  <2>1. ns # {} /\ more[Max(ns)] = e
    BY <2>0, AppendMatch
  <2>2. IF e.change = "create" THEN ne # {} /\ more[Max(ne)] = e
        ELSE ne = oe /\ (oe # {} => more[Max(oe)] = box[Max(oe)])
    <3>1. CASE e.change = "create"
      BY <3>1, AppendMatch
    <3>2. CASE e.change # "create"
      BY <1>2, <3>2, AppendMiss
    <3> QED BY <3>1, <3>2
  <2>3. Replayed(box, k).etag = IF oe = {} THEN 0 ELSE box[Max(oe)].etag
    BY DEF Replayed
  <2>4. Replayed(more, k) =
          [state |-> IF ns = {} THEN "absent"
                     ELSE IF more[Max(ns)].change = "delete" THEN "deleted" ELSE "live",
           etag |-> IF ne = {} THEN 0 ELSE more[Max(ne)].etag]
    BY DEF Replayed
  <2> HIDE DEF os, ns, oe, ne
  <2>5. Replayed(more, k) =
          [state |-> IF e.change = "delete" THEN "deleted" ELSE "live",
           etag |-> IF e.change = "create" THEN e.etag ELSE Replayed(box, k).etag]
    BY <2>1, <2>2, <2>3, <2>4
  <2> QED BY <1>2, <2>5
<1> QED BY <1>1, <1>2

LEMMA IndexedOther ==
    ASSUME NEW box, NEW e \in Feed, NEW more, Longer(box, e, more),
           NEW k, e.kind # "doc" \/ e.key # k
    PROVE  Indexed(more, k) = Indexed(box, k)
<1>0. ~(e.kind = "doc" /\ e.key = k /\ e.change \in Changes)
  OBVIOUS
<1>1. /\ EventsOf(more, "doc", k, Changes) = EventsOf(box, "doc", k, Changes)
      /\ EventsOf(box, "doc", k, Changes) # {} =>
            more[Max(EventsOf(box, "doc", k, Changes))]
               = box[Max(EventsOf(box, "doc", k, Changes))]
  BY <1>0, AppendMiss
<1> QED BY <1>1 DEF Indexed

LEMMA IndexedNext ==
    ASSUME NEW box, NEW e \in Feed, NEW more, Longer(box, e, more),
           NEW k, e.kind = "doc", e.key = k
    PROVE  Indexed(more, k) = IF e.change = "delete" THEN 0 ELSE e.etag
<1>0. e.change \in Changes
  BY DEF Feed
<1>1. /\ EventsOf(more, "doc", k, Changes) # {}
      /\ more[Max(EventsOf(more, "doc", k, Changes))] = e
  BY <1>0, AppendMatch
<1> QED BY <1>1 DEF Indexed
-----------------------------------------------------------------------------
(* The feed tells the table. *)

LEMMA IdleStage ==
    ASSUME TypeOK, Idle
    PROVE  tx.stage = "none"
BY NoTxType DEF TypeOK

(* A request reads the store, and may open a transaction. *)
LEMMA RequestKeeps ==
    ASSUME TypeOK, NEW c \in Clients, Request(c)
    PROVE  /\ Idle /\ UNCHANGED <<rows, order, outbox, backfill, disturbed>>
           /\ \/ UNCHANGED <<tx, undo>>
              \/ tx'.stage = "write" /\ undo' = Snapshot
<1>1. CASE \E k \in Keys, emit \in BOOLEAN, plan \in Seq(Steps) :
              plan # <<>> /\ Begin(c, k, emit, plan, {})
  BY <1>1 DEF Begin, store
<1>2. CASE (\E k \in Roots : LoadRoot(c, k)) \/ LoadMembers(c)
  BY <1>2 DEF LoadRoot, LoadMembers, store
<1>3. CASE Save(c)
  BY <1>3 DEF Save
<1> QED BY <1>1, <1>2, <1>3, Opens DEF Request

LEMMA FeedInvInit ==
    ASSUME Init
    PROVE  FeedInv
<1>1. CallInv /\ Idle
  BY CallInvInit, NoTxType DEF Init, Idle
<1>2. \A k : Replayed(outbox, k) = [state |-> "absent", etag |-> 0]
  BY DEF Init, Replayed, EventsOf
<1>3. \A k \in Keys : Seen(k, {"emit"}) = Absent
  BY NoTxType DEF Init, Seen
<1> QED BY <1>1, <1>2, <1>3 DEF FeedInv, View, Absent

LEMMA RequestFeedInv ==
    ASSUME FeedInv, NEW c \in Clients, Request(c)
    PROVE  FeedInv'
<1>0. TypeOK /\ CallInv'
  BY RequestCallInv DEF FeedInv, CallInv
<1>1. /\ Idle /\ UNCHANGED <<rows, outbox>> /\ tx.stage = "none"
      /\ \/ UNCHANGED <<tx, undo>>
         \/ tx'.stage = "write" /\ undo' = Snapshot
  BY <1>0, RequestKeeps, IdleStage
<1>2. \A k \in Keys : Replayed(outbox, k) = View(rows[k])
  BY <1>1 DEF FeedInv, Seen
<1>3. \A k \in Keys : Replayed(outbox, k)' = View(Seen(k, {"emit"}))'
  BY <1>1, <1>2 DEF Seen
<1>4. ~Idle' => undo'.outbox = outbox /\ undo'.rows = rows
  BY <1>1 DEF Snapshot, Idle
<1> QED BY <1>0, <1>2, <1>3, <1>4 DEF FeedInv

LEMMA WriteFeedInv ==
    ASSUME FeedInv, Write
    PROVE  FeedInv'
<1>0. CallInv /\ CallInv' /\ TypeOK
  BY WriteCallInv DEF FeedInv, CallInv
<1>1. /\ ~Idle /\ tx.stage = "write" /\ tx.key \in Keys
      /\ rows' = [rows EXCEPT ![tx.key] = rows'[tx.key]]
      /\ tx' = [tx EXCEPT !.stage = "emit"] /\ tx.before = rows[tx.key]
      /\ UNCHANGED <<outbox, undo>>
  BY <1>0, WriteDoes DEF CallInv, Looked, Write
<1>2. tx'.key = tx.key /\ tx'.before = tx.before /\ tx'.stage = "emit"
  BY <1>0, <1>1 DEF TypeOK, Transactions
<1>3. \A k \in Keys : Seen(k, {"emit"})' = rows[k] /\ Seen(k, {"emit"}) = rows[k]
  BY <1>0, <1>1, <1>2 DEF Seen, TypeOK
<1> QED BY <1>0, <1>1, <1>3 DEF FeedInv

LEMMA EmitFeedInv ==
    ASSUME FeedInv, Emit
    PROVE  FeedInv'
<1> DEFINE e == Event("entity", tx.plan[1].change, tx.key, rows[tx.key].etag)
<1>0. CallInv /\ CallInv' /\ TypeOK /\ tx.stage = "emit"
  BY EmitCallInv DEF FeedInv, CallInv, Emit
<1>1. /\ ~Idle /\ tx.key \in Keys /\ tx.plan[1].change \in Changes
      /\ outbox' = Append(outbox, e) /\ UNCHANGED <<rows, undo>>
      /\ tx' = [tx EXCEPT !.stage = "project"]
      /\ Changed(tx.plan[1].change, tx.before, rows[tx.key])
  BY <1>0, PlanType DEF Emit, CallInv, Looked
<1>2. /\ e \in Feed /\ e.kind = "entity" /\ e.key = tx.key
      /\ e.change = tx.plan[1].change /\ e.etag = rows[tx.key].etag
  BY <1>0, <1>1 DEF Event, Feed, TypeOK, Rows
<1> HIDE DEF e
<1>3. Longer(outbox, e, outbox')
  BY <1>0, <1>1, <1>2, AppendDoes DEF TypeOK
<1>4. tx'.stage = "project"
  BY <1>0, <1>1 DEF TypeOK, Transactions
<1>5. ASSUME NEW k \in Keys
      PROVE  Replayed(outbox, k)' = View(rows[k])
  <2>1. CASE k # tx.key
    BY <1>2, <1>3, <2>1, ReplayedOther DEF FeedInv, Seen
  <2>2. CASE k = tx.key
    <3>1. Replayed(outbox, k) = View(tx.before)
      BY <1>0, <2>2 DEF FeedInv, Seen
    <3>2. Replayed(outbox', k) =
             [state |-> IF e.change = "update" THEN tx.before.state
                        ELSE IF e.change = "delete" THEN "deleted" ELSE "live",
              etag  |-> IF e.change \in {"create", "update"} THEN e.etag ELSE tx.before.etag]
      BY <1>2, <1>3, <2>2, <3>1, ReplayedNext DEF View
    <3>3. tx.before \in Rows /\ rows[tx.key] \in Rows
      BY <1>0, <1>1 DEF TypeOK, Transactions
    <3>4. /\ e.change = "update" => rows[k].state = tx.before.state
          /\ e.change = "create" => rows[k].state = "live"
          /\ e.change = "delete" => rows[k].state = "deleted" /\ rows[k].etag = tx.before.etag
          /\ e.change = "undelete" => rows[k].state = "live" /\ rows[k].etag = tx.before.etag
          /\ e.change \in Changes
      BY <1>1, <1>2, <2>2, <3>3 DEF Changed, Rows
    <3> QED BY <1>2, <2>2, <3>2, <3>4 DEF View, Changes
  <2> QED BY <2>1, <2>2
<1> QED BY <1>0, <1>1, <1>4, <1>5 DEF FeedInv, Seen

(* The documents of one call: none, or one. *)
LEMMA EmitProjectionsAdds ==
    ASSUME CallInv, EmitProjections
    PROVE  LET e == Event("doc", tx.plan[1].change, tx.key, rows[tx.key].etag)
           IN  /\ e \in Feed /\ e.kind = "doc" /\ e.key = tx.key
               /\ e.change = tx.plan[1].change /\ e.etag = rows[tx.key].etag
               /\ IF Projected(tx.plan[1].change) THEN Longer(outbox, e, outbox')
                  ELSE outbox' = outbox
<1> DEFINE e == Event("doc", tx.plan[1].change, tx.key, rows[tx.key].etag)
<1>1. /\ tx.stage = "project" /\ Head(tx.plan) = tx.plan[1] /\ outbox \in Seq(Feed)
  BY PlanType DEF EmitProjections, CallInv, TypeOK
<1>2. e \in Feed
  BY <1>1, ProjectionType
<1>3. /\ e.kind = "doc" /\ e.key = tx.key
      /\ e.change = tx.plan[1].change /\ e.etag = rows[tx.key].etag
  BY DEF Event
<1>4. outbox' = outbox \o (IF Projected(tx.plan[1].change) THEN <<e>> ELSE <<>>)
  BY <1>1 DEF EmitProjections, ProjectionEvents
<1> HIDE DEF e
<1>5. outbox \o <<>> = outbox /\ outbox \o <<e>> = Append(outbox, e)
  BY <1>1, <1>2
<1>6. Longer(outbox, e, Append(outbox, e))
  BY <1>1, <1>2, AppendDoes
<1> QED BY <1>2, <1>3, <1>4, <1>5, <1>6 DEF e

LEMMA EmitProjectionsFeedInv ==
    ASSUME FeedInv, EmitProjections
    PROVE  FeedInv'
<1> DEFINE e == Event("doc", tx.plan[1].change, tx.key, rows[tx.key].etag)
<1>0. CallInv /\ CallInv' /\ tx.stage = "project" /\ ~Idle /\ UNCHANGED <<rows, undo>>
  BY EmitProjectionsCallInv, PlanType DEF FeedInv, EmitProjections
<1>1. /\ e \in Feed /\ e.kind = "doc"
      /\ IF Projected(tx.plan[1].change) THEN Longer(outbox, e, outbox')
         ELSE outbox' = outbox
  BY <1>0, EmitProjectionsAdds
<1> HIDE DEF e
<1>2. \A k \in Keys : Replayed(outbox', k) = Replayed(outbox, k)
  BY <1>1, ReplayedOther
<1>3. tx'.stage # "emit"
  BY <1>0, EmitProjectionsDoes
<1> QED BY <1>0, <1>2, <1>3 DEF FeedInv, Seen

LEMMA EndFeedInv ==
    ASSUME FeedInv, Commit \/ Rollback
    PROVE  FeedInv'
<1>0. CallInv' /\ Idle' /\ tx'.stage = "none" /\ ~Idle
  <2>1. tx.stage # "none" /\ tx' = NoTx
    BY DEF Commit, Rollback
  <2> QED BY <2>1, EndCallInv, Opened, NoTxType DEF FeedInv, CallInv, Idle
<1>1. CASE Commit
  <2>1. tx.stage = "commit" /\ UNCHANGED <<rows, outbox>>
    BY <1>1 DEF Commit, store
  <2> QED BY <1>0, <2>1 DEF FeedInv, Seen
<1>2. CASE Rollback
  <2>1. rows' = undo.rows /\ outbox' = undo.outbox
    BY <1>2 DEF Rollback, Restore
  <2> QED BY <1>0, <2>1 DEF FeedInv, Seen
<1> QED BY <1>1, <1>2

(* A page adds a document, or nothing. *)
LEMMA PublishPageAdds ==
    ASSUME CallInv, PublishPage
    PROVE  LET e == Event("doc", "create", backfill.key, backfill.row.etag)
           IN  /\ e \in Feed /\ e.kind = "doc" /\ e.key = backfill.key
               /\ e.change = "create" /\ e.etag = backfill.row.etag
               /\ \/ outbox' = outbox /\ disturbed' = disturbed
                  \/ /\ backfill.row.ready /\ Longer(outbox, e, outbox')
                     /\ disturbed' = IF rows[backfill.key] # backfill.row
                                     THEN disturbed \cup {backfill.key} ELSE disturbed
<1> DEFINE e == Event("doc", "create", backfill.key, backfill.row.etag)
<1>1. backfill.key \in Keys /\ backfill.row \in Rows /\ outbox \in Seq(Feed)
  BY DEF CallInv, TypeOK, Pages
<1>2. /\ e \in Feed /\ e.kind = "doc" /\ e.key = backfill.key
      /\ e.change = "create" /\ e.etag = backfill.row.etag
  BY <1>1 DEF Event, Feed, Rows, Changes
<1>3. \/ outbox' = outbox /\ disturbed' = disturbed
      \/ /\ backfill.row.ready /\ outbox' = Append(outbox, e)
         /\ disturbed' = IF rows[backfill.key] # backfill.row
                         THEN disturbed \cup {backfill.key} ELSE disturbed
  BY Zenon DEF PublishPage
<1>4. Longer(outbox, e, Append(outbox, e))
  BY <1>1, <1>2, AppendDoes
<1> HIDE DEF e
<1> QED BY <1>2, <1>3, <1>4 DEF e

LEMMA BackfillFeedInv ==
    ASSUME FeedInv, \/ StartBackfill \/ ListPage \/ PublishPage
                    \/ UNCHANGED vars
    PROVE  FeedInv'
<1>0. CallInv /\ CallInv' /\ UNCHANGED <<rows, tx, undo>>
  BY CallInvStep
     DEF FeedInv, Next, StartBackfill, ListPage, PublishPage, store, counts, vars
<1>1. ASSUME \A k \in Keys : Replayed(outbox', k) = Replayed(outbox, k)
      PROVE  FeedInv'
  BY <1>0, <1>1 DEF FeedInv, Seen, Idle
<1>2. CASE StartBackfill \/ ListPage \/ UNCHANGED vars
  BY <1>1, <1>2 DEF StartBackfill, ListPage, store, vars
<1>3. CASE PublishPage
  <2> DEFINE e == Event("doc", "create", backfill.key, backfill.row.etag)
  <2>1. /\ e \in Feed /\ e.kind = "doc"
        /\ outbox' = outbox \/ Longer(outbox, e, outbox')
    BY <1>0, <1>3, PublishPageAdds
  <2> HIDE DEF e
  <2> QED BY <1>1, <2>1, ReplayedOther
<1> QED BY <1>2, <1>3

(* The feed is the table: outside a transaction, a consumer that replays    *)
(* the change events of an entity has exactly the state and etag that the   *)
(* repository stores, for every mix of calls, upserts, aggregate saves,     *)
(* backfills and failed transactions.                                       *)
THEOREM FeedTellsTable == Spec => []FeedComplete
<1>1. Init => FeedInv
  BY FeedInvInit
<1>2. FeedInv /\ [Next]_vars => FeedInv'
  BY RequestFeedInv, WriteFeedInv, EmitFeedInv, EmitProjectionsFeedInv, EndFeedInv,
     BackfillFeedInv DEF Next
<1>3. FeedInv => FeedComplete
  BY IdleStage DEF FeedInv, CallInv, FeedComplete, Seen, View
<1> QED BY <1>1, <1>2, <1>3, PTL DEF Spec

-----------------------------------------------------------------------------
(* The index mirrors the table, where a delete is projected from the        *)
(* snapshot taken before it.                                                *)

LEMMA IndexInvInit ==
    ASSUME Init
    PROVE  IndexInv
<1>1. CallInv /\ Idle
  BY CallInvInit, NoTxType DEF Init, Idle
<1>2. \A k : Indexed(outbox, k) = 0
  BY DEF Init, Indexed, EventsOf
<1>3. \A k \in Keys : Seen(k, {"emit", "project"}) = Absent
  BY NoTxType DEF Init, Seen
<1>4. Document(Absent) = 0
  BY DEF Document, Absent
<1>5. Paged
  BY <1>1, NoPageType DEF Init, Paged, Listed
<1> QED BY <1>1, <1>2, <1>3, <1>4, <1>5 DEF IndexInv

LEMMA RequestIndexInv ==
    ASSUME IndexInv, NEW c \in Clients, Request(c)
    PROVE  IndexInv'
<1>0. TypeOK /\ CallInv'
  BY RequestCallInv DEF IndexInv, CallInv
<1>1. /\ Idle /\ UNCHANGED <<rows, order, outbox, backfill, disturbed>> /\ tx.stage = "none"
      /\ \/ UNCHANGED <<tx, undo>>
         \/ tx'.stage = "write" /\ undo' = Snapshot
  BY <1>0, RequestKeeps, IdleStage
<1>2. \A k \in Keys \ disturbed : Indexed(outbox, k) = Document(rows[k])
  BY <1>1 DEF IndexInv, Seen
<1>3. \A k \in Keys \ disturbed' :
         Indexed(outbox, k)' = Document(Seen(k, {"emit", "project"}))'
  BY <1>1, <1>2 DEF Seen
<1>4. ~Idle' => /\ undo'.outbox = outbox /\ undo'.rows = rows /\ undo'.order = order
                /\ undo'.disturbed = disturbed
  BY <1>1 DEF Snapshot, Idle
<1>5. Paged'
  BY <1>1, <1>4 DEF IndexInv, Paged, Listed
<1> QED BY <1>0, <1>2, <1>3, <1>4, <1>5 DEF IndexInv

LEMMA WriteIndexInv ==
    ASSUME IndexInv, Write
    PROVE  IndexInv'
<1>0. CallInv /\ CallInv' /\ TypeOK
  BY WriteCallInv DEF IndexInv, CallInv
<1>1. /\ ~Idle /\ tx.stage = "write" /\ tx.key \in Keys
      /\ rows' = [rows EXCEPT ![tx.key] = rows'[tx.key]]
      /\ Changed(tx.plan[1].change, tx.before, rows'[tx.key])
      /\ tx.plan[1].change \in Changes /\ tx.before \in Rows
      /\ tx' = [tx EXCEPT !.stage = "emit"] /\ tx.before = rows[tx.key]
      /\ UNCHANGED <<outbox, undo, disturbed, backfill>>
      /\ order' = order \/ order' = Append(order, tx.key)
  BY <1>0, WriteDoes, PlanType DEF CallInv, Looked, Write, TypeOK, Transactions
<1>2. tx'.key = tx.key /\ tx'.before = tx.before /\ tx'.stage = "emit" /\ ~Idle'
  BY <1>0, <1>1 DEF TypeOK, Transactions, Idle
<1>3. \A k \in Keys : /\ Seen(k, {"emit", "project"})' = rows[k]
                      /\ Seen(k, {"emit", "project"}) = rows[k]
  BY <1>0, <1>1, <1>2 DEF Seen, TypeOK
<1>4. rows'[tx.key].state # "absent"
  BY <1>1 DEF Changed, Changes, Rows
<1>5. Listed(rows', order')
  <2>1. \A k \in Keys : rows[k].state # "absent" => rows'[k].state # "absent"
    BY <1>0, <1>1, <1>4 DEF TypeOK
  <2>2. order \in Seq(Keys) /\ Listed(rows, order)
    BY <1>0 DEF IndexInv, Paged, TypeOK
  <2>3. \A i \in DOMAIN order : rows'[order[i]].state # "absent"
    BY <2>1, <2>2 DEF Listed
  <2>4. CASE order' = order
    BY <2>3, <2>4 DEF Listed
  <2>5. CASE order' = Append(order, tx.key)
    <3>1. \A i \in DOMAIN order' : (i \in DOMAIN order /\ order'[i] = order[i])
                                     \/ order'[i] = tx.key
      BY <1>1, <2>2, <2>5
    <3> QED BY <1>4, <2>3, <3>1 DEF Listed
  <2> QED BY <1>1, <2>4, <2>5
<1>6. Paged'
  BY <1>1, <1>2, <1>5 DEF IndexInv, Paged, Listed
<1> QED BY <1>0, <1>1, <1>3, <1>6 DEF IndexInv

LEMMA EmitIndexInv ==
    ASSUME IndexInv, Emit
    PROVE  IndexInv'
<1> DEFINE e == Event("entity", tx.plan[1].change, tx.key, rows[tx.key].etag)
<1>0. CallInv /\ CallInv' /\ TypeOK /\ tx.stage = "emit"
  BY EmitCallInv DEF IndexInv, CallInv, Emit
<1>1. /\ ~Idle /\ tx.key \in Keys /\ tx.plan[1].change \in Changes
      /\ outbox' = Append(outbox, e) /\ UNCHANGED <<rows, order, undo, disturbed, backfill>>
      /\ tx' = [tx EXCEPT !.stage = "project"]
  BY <1>0, PlanType DEF Emit
<1>2. e \in Feed /\ e.kind = "entity"
  BY <1>0, <1>1 DEF Event, Feed, TypeOK, Rows
<1> HIDE DEF e
<1>3. Longer(outbox, e, outbox')
  BY <1>0, <1>1, <1>2, AppendDoes DEF TypeOK
<1>4. /\ tx'.stage = "project" /\ tx'.key = tx.key /\ tx'.before = tx.before
      /\ Idle' = Idle
  BY <1>0, <1>1 DEF TypeOK, Transactions, Idle
<1>5. \A k \in Keys : Indexed(outbox', k) = Indexed(outbox, k)
  BY <1>2, <1>3, IndexedOther
<1>6. \A k \in Keys : Seen(k, {"emit", "project"})' = Seen(k, {"emit", "project"})
  BY <1>0, <1>1, <1>4 DEF Seen
<1>7. Paged'
  BY <1>1, <1>4 DEF IndexInv, Paged, Listed
<1> QED BY <1>0, <1>1, <1>5, <1>6, <1>7 DEF IndexInv

(* A call whose document is not emitted changes nothing the index holds,    *)
(* or is one that disturbs.                                                 *)
LEMMA Unprojected ==
    ASSUME Named, NEW change \in Changes, NEW b \in Rows, NEW r \in Rows,
           Changed(change, b, r),
           ~(change = "update" /\ ((b.ready /\ ~r.ready) \/ r.state = "deleted")),
           ~(IF change = "delete" THEN b.ready ELSE r.ready)
    PROVE  Document(r) = Document(b)
<1>1. CASE change = "create"
  BY <1>1 DEF Changed, Document
<1>2. CASE change = "update"
  BY <1>2 DEF Changed, Document
<1>3. CASE change = "delete"
  BY <1>3 DEF Changed, Document, Rows
<1>4. CASE change = "undelete"
  BY <1>4 DEF Changed, Document, Rows
<1> QED BY <1>1, <1>2, <1>3, <1>4 DEF Changes

(* A document that does not disturb says what the index should hold. *)
LEMMA Documented ==
    ASSUME NEW change \in Changes, NEW b \in Rows, NEW r \in Rows,
           Changed(change, b, r),
           ~(change = "update" /\ ((b.ready /\ ~r.ready) \/ r.state = "deleted")),
           IF change = "delete" THEN b.ready ELSE r.ready
    PROVE  Document(r) = IF change = "delete" THEN 0 ELSE r.etag
<1>1. CASE change = "create"
  BY <1>1 DEF Changed, Document
<1>2. CASE change = "update"
  BY <1>2 DEF Changed, Document, Rows
<1>3. CASE change = "delete"
  BY <1>3 DEF Changed, Document, Rows
<1>4. CASE change = "undelete"
  BY <1>4 DEF Changed, Document, Rows
<1> QED BY <1>1, <1>2, <1>3, <1>4 DEF Changes

LEMMA EmitProjectionsIndexInv ==
    ASSUME Named, IndexInv, EmitProjections
    PROVE  IndexInv'
<1> DEFINE change == tx.plan[1].change
           e == Event("doc", change, tx.key, rows[tx.key].etag)
<1>0. CallInv /\ CallInv' /\ TypeOK /\ tx.stage = "project"
  BY EmitProjectionsCallInv DEF IndexInv, CallInv, EmitProjections
<1>1. /\ ~Idle /\ tx.key \in Keys /\ change \in Changes
      /\ disturbed' = IF Disturbs(change) THEN disturbed \cup {tx.key}
                      ELSE IF Projected(change) THEN disturbed \ {tx.key} ELSE disturbed
      /\ UNCHANGED <<rows, order, undo, backfill>>
      /\ Changed(change, tx.before, rows[tx.key])
      /\ tx.before \in Rows /\ rows[tx.key] \in Rows
  BY <1>0, PlanType DEF EmitProjections, CallInv, Looked, TypeOK, Transactions
<1>2. /\ e \in Feed /\ e.kind = "doc" /\ e.key = tx.key
      /\ e.change = change /\ e.etag = rows[tx.key].etag
      /\ IF Projected(change) THEN Longer(outbox, e, outbox') ELSE outbox' = outbox
  BY <1>0, EmitProjectionsAdds
<1>3. tx'.stage \in {"write", "commit"} /\ Idle' = Idle
  BY <1>0, EmitProjectionsDoes DEF Idle
<1>4. /\ Disturbs(change) <=>
            change = "update" /\ (\/ tx.before.ready /\ ~rows[tx.key].ready
                                  \/ rows[tx.key].state = "deleted")
      /\ Projected(change) <=> IF change = "delete" THEN tx.before.ready ELSE rows[tx.key].ready
  BY Zenon DEF Disturbs, Projected
<1> HIDE DEF e, change
<1>5. ASSUME NEW k \in Keys \ disturbed'
      PROVE  Indexed(outbox', k) = Document(rows[k])
  <2>1. CASE k # tx.key
    <3>1. k \notin disturbed
      BY <1>1, <1>5, <2>1
    <3>2. Indexed(outbox, k) = Document(rows[k])
      BY <2>1, <3>1 DEF IndexInv, Seen
    <3>3. Indexed(outbox', k) = Indexed(outbox, k)
      BY <1>2, <2>1, IndexedOther
    <3> QED BY <3>2, <3>3
  <2>2. CASE k = tx.key
    <3>0. ~Disturbs(change)
      BY <1>1, <1>5, <2>2
    <3>1. CASE Projected(change)
      <4>1. Indexed(outbox', k) = IF change = "delete" THEN 0 ELSE rows[k].etag
        BY <1>2, <2>2, <3>1, IndexedNext
      <4>2. Document(rows[k]) = IF change = "delete" THEN 0 ELSE rows[k].etag
        BY <1>1, <1>4, <2>2, <3>0, <3>1, Documented
      <4> QED BY <4>1, <4>2
    <3>2. CASE ~Projected(change)
      <4>1. k \notin disturbed /\ outbox' = outbox
        BY <1>1, <1>2, <1>5, <3>0, <3>2
      <4>2. Indexed(outbox, k) = Document(tx.before)
        BY <1>0, <2>2, <4>1 DEF IndexInv, Seen
      <4>3. Document(rows[k]) = Document(tx.before)
        BY <1>1, <1>4, <2>2, <3>0, <3>2, Unprojected
      <4> QED BY <4>1, <4>2, <4>3
    <3> QED BY <3>1, <3>2
  <2> QED BY <2>1, <2>2
<1>6. \A k \in Keys : Seen(k, {"emit", "project"})' = rows[k]
  BY <1>1, <1>3 DEF Seen
<1>7. Paged'
  BY <1>1, <1>3 DEF IndexInv, Paged, Listed
<1>8. \A k \in Keys \ disturbed' :
         Indexed(outbox, k)' = Document(Seen(k, {"emit", "project"}))'
  BY <1>5, <1>6 DEF Document
<1> QED BY <1>0, <1>1, <1>3, <1>7, <1>8 DEF IndexInv

LEMMA EndIndexInv ==
    ASSUME IndexInv, Commit \/ Rollback
    PROVE  IndexInv'
<1>0. CallInv' /\ Idle' /\ tx'.stage = "none" /\ ~Idle /\ UNCHANGED backfill
  <2>1. tx.stage # "none" /\ tx' = NoTx /\ UNCHANGED backfill
    BY DEF Commit, Rollback
  <2> QED BY <2>1, EndCallInv, Opened, NoTxType DEF IndexInv, CallInv, Idle
<1>1. CASE Commit
  <2>1. tx.stage = "commit" /\ UNCHANGED <<rows, order, outbox, disturbed>>
    BY <1>1 DEF Commit, store
  <2>2. Paged'
    BY <1>0, <2>1 DEF IndexInv, Paged, Listed
  <2> QED BY <1>0, <2>1, <2>2 DEF IndexInv, Seen
<1>2. CASE Rollback
  <2>1. /\ rows' = undo.rows /\ order' = undo.order /\ outbox' = undo.outbox
        /\ disturbed' = undo.disturbed
    BY <1>2 DEF Rollback, Restore
  <2>2. Paged'
    BY <1>0, <2>1 DEF IndexInv, Paged, Listed
  <2> QED BY <1>0, <2>1, <2>2 DEF IndexInv, Seen
<1> QED BY <1>1, <1>2

LEMMA BackfillIndexInv ==
    ASSUME IndexInv, \/ StartBackfill \/ ListPage \/ PublishPage
                     \/ UNCHANGED vars
    PROVE  IndexInv'
<1>0. CallInv /\ CallInv' /\ TypeOK /\ UNCHANGED <<rows, order, tx, undo>>
  BY CallInvStep
     DEF IndexInv, CallInv, Next, StartBackfill, ListPage, PublishPage, store, counts, vars
<1>1. \A k : Seen(k, {"emit", "project"})' = Seen(k, {"emit", "project"})
  BY <1>0 DEF Seen
<1>2. ASSUME UNCHANGED <<outbox, disturbed>>,
             backfill'.stage = "publish" => backfill'.row.state = "live"
      PROVE  IndexInv'
  <2>1. Paged'
    BY <1>0, <1>2 DEF IndexInv, Paged, Listed, Idle
  <2> QED BY <1>0, <1>1, <1>2, <2>1 DEF IndexInv, Idle
<1>3. CASE StartBackfill
  BY <1>2, <1>3 DEF StartBackfill, NoPage, store
<1>4. CASE ListPage
  <2>1. ASSUME backfill'.stage = "publish"
        PROVE  backfill'.row.state = "live"
    <3>1. PICK i \in DOMAIN order : /\ rows[order[i]].state # "deleted"
                                    /\ backfill'.row = rows[order[i]]
      BY <1>0, <1>4, <2>1, ListPageDoes
    <3>2. rows[order[i]].state # "absent"
      BY DEF IndexInv, Paged, Listed
    <3>3. rows[order[i]] \in Rows
      BY <1>0 DEF TypeOK
    <3> QED BY <3>1, <3>2, <3>3 DEF Rows
  <2> QED BY <1>2, <1>4, <2>1 DEF ListPage, store
<1>5. CASE UNCHANGED vars
  BY <1>2, <1>5 DEF vars, store, IndexInv, Paged
<1>6. CASE PublishPage
  <2> DEFINE e == Event("doc", "create", backfill.key, backfill.row.etag)
  <2>1. /\ e \in Feed /\ e.kind = "doc" /\ e.key = backfill.key
        /\ e.change = "create" /\ e.etag = backfill.row.etag
        /\ \/ outbox' = outbox /\ disturbed' = disturbed
           \/ /\ backfill.row.ready /\ Longer(outbox, e, outbox')
              /\ disturbed' = IF rows[backfill.key] # backfill.row
                              THEN disturbed \cup {backfill.key} ELSE disturbed
    BY <1>0, <1>6, PublishPageAdds
  <2>2. /\ backfill.stage = "publish" /\ backfill.row.state = "live" /\ Idle
        /\ tx.stage = "none" /\ backfill.key \in Keys
    BY <1>0, <1>6, IdleStage DEF IndexInv, Paged, PublishPage, TypeOK, Pages
  <2>3. backfill'.stage # "publish"
    <3>1. \A p \in Pages : [p EXCEPT !.stage = "list", !.offset = @ + 1].stage = "list"
      BY DEF Pages
    <3>2. \/ backfill' = NoPage
          \/ backfill' = [backfill EXCEPT !.stage = "list", !.offset = @ + 1]
      BY <1>6 DEF PublishPage
    <3> QED BY <1>0, <3>1, <3>2, NoPageType DEF TypeOK
  <2> HIDE DEF e
  <2>4. CASE outbox' = outbox /\ disturbed' = disturbed
    BY <1>2, <2>3, <2>4
  <2>5. CASE /\ backfill.row.ready /\ Longer(outbox, e, outbox')
             /\ disturbed' = IF rows[backfill.key] # backfill.row
                             THEN disturbed \cup {backfill.key} ELSE disturbed
    <3>1. ASSUME NEW k \in Keys \ disturbed'
          PROVE  Indexed(outbox', k) = Document(rows[k])
      <4>1. CASE k # backfill.key
        <5>1. Indexed(outbox, k) = Document(rows[k])
          BY <2>2, <2>5, <3>1 DEF IndexInv, Seen
        <5>2. Indexed(outbox', k) = Indexed(outbox, k)
          BY <2>1, <2>5, <4>1, IndexedOther
        <5> QED BY <5>1, <5>2
      <4>2. CASE k = backfill.key
        <5>1. rows[k] = backfill.row
          BY <2>5, <3>1, <4>2
        <5>2. Indexed(outbox', k) = backfill.row.etag
          BY <2>1, <2>5, <4>2, IndexedNext
        <5> QED BY <2>2, <2>5, <5>1, <5>2 DEF Document
      <4> QED BY <4>1, <4>2
    <3>2. \A k \in Keys : Seen(k, {"emit", "project"})' = rows[k]
      BY <1>0, <2>2 DEF Seen
    <3>3. Paged'
      BY <1>0, <2>3 DEF IndexInv, Paged, Listed, Idle
    <3>4. \A k \in Keys \ disturbed' :
             Indexed(outbox, k)' = Document(Seen(k, {"emit", "project"}))'
      BY <3>1, <3>2 DEF Document
    <3> QED BY <1>0, <2>2, <3>3, <3>4 DEF IndexInv, Idle
  <2> QED BY <2>1, <2>4, <2>5
<1> QED BY <1>3, <1>4, <1>5, <1>6

(* Where the feed projects a delete from the snapshot before it (NameOf or  *)
(* EmitBefore), a consumer of the projection that has read the outbox       *)
(* indexes exactly the live projected entities at their current etag, but   *)
(* for a key whose last change is one that the projection misrepresents.    *)
THEOREM IndexTellsTable ==
    ASSUME Named
    PROVE  Spec => []IndexMirrors
<1>1. Init => IndexInv
  BY IndexInvInit
<1>2. IndexInv /\ [Next]_vars => IndexInv'
  BY RequestIndexInv, WriteIndexInv, EmitIndexInv, EmitProjectionsIndexInv, EndIndexInv,
     BackfillIndexInv DEF Next
<1>3. IndexInv => IndexMirrors
  BY IdleStage DEF IndexInv, CallInv, IndexMirrors, Seen
<1> QED BY <1>1, <1>2, <1>3, PTL DEF Spec
=============================================================================
