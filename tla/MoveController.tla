--------------------------- MODULE MoveController ---------------------------
(***************************************************************************)
(* The tenant-move controller (cells/move.go) over the routing table       *)
(* (cells/memtable.go), the storage fence (cells/plane.go and              *)
(* persistence/gormtx/fence.go) and the event barrier (cells/plane.go,     *)
(* persistence/gormtx/eventbarrier.go), for ONE tenant and any number of   *)
(* concurrent drivers: operators, retries and crash-recovery processes     *)
(* that call Move, Resume, Rollback and Assign at the same time.           *)
(*                                                                         *)
(* A driver is a control point pc[d] and the local variables of the Go     *)
(* call it executes.  Every call the code makes on the table, the fence or *)
(* the event barrier is one step; between two of them any other driver may *)
(* run, the driver may crash, or the call may return a transient error.    *)
(* A reply lost after the call took effect needs no step of its own: it is *)
(* a Fault at the driver's next call.                                      *)
(***************************************************************************)
EXTENDS Naturals

CONSTANTS
    Cells,        \* the cells a tenant can be placed on
    NoCell,       \* the empty cell name ""
    Drivers,      \* concurrent callers of the controller
    FencerKind,   \* "none" (nil Fencer), "mem" (MemFencer), "gorm" (GormFencer)
    HasEvents,    \* FALSE: nil EventBarrier
    MaxCalls,     \* bound: controller calls started
    MaxFaults,    \* bound: transient errors of the table, fence or barrier
    MaxCrashes,   \* bound: driver crashes
    MaxDeletes    \* bound: administrative route deletions

ASSUME ConstantsAssumption ==
    /\ NoCell \notin Cells
    /\ FencerKind \in {"none", "mem", "gorm"}
    /\ HasEvents \in BOOLEAN
    /\ MaxCalls \in Nat /\ MaxFaults \in Nat
    /\ MaxCrashes \in Nat /\ MaxDeletes \in Nat

VARIABLES
    route,    \* the tenant's TenantRoute in the table (ZeroRoute: absent)
    fence,    \* the tenant's fence row
    events,   \* the tenant's publisher policy and event epoch
    pc,       \* control point of each driver
    plan,     \* MovePlan of the call: from and to
    exp,      \* last observed route: the expect of the next CompareAndSet
    want,     \* wantState of the cas in progress
    bar,      \* continueMove's captured barrierEpoch
    tgt,      \* continueMove's captured target
    depth,    \* Rollbacks the enclosing frames still run if an error returns
    err,      \* an error is being returned through those frames
    ret,      \* outcome of the driver's last call
    rested,   \* history: <<epoch, cell>> pairs at which the tenant has rested
    calls, faults, crashes, deletes

shared == <<route, fence, events, rested>>
local  == <<exp, want, bar, tgt, depth, err>>
counts == <<calls, faults, crashes, deletes>>
vars   == <<route, fence, events, rested, pc, plan, exp, want, bar, tgt, depth,
            err, ret, calls, faults, crashes, deletes>>

-----------------------------------------------------------------------------
(* Routes. *)

MovingStates  == {"QUIESCING", "DRAINING", "COPYING", "COMMITTING"}
RestingStates == {"ACTIVE", "ACTIVE_NEW", "ABORTED", "UNKNOWN"}
States        == MovingStates \cup RestingStates
Policies      == {"NORMAL", "PAUSE", "DRAIN_QUEUE"}

AdmitsNew(s) == s \in RestingStates

(* TenantRoute.  BarrierID, ControllerClass, LastOperator and the data      *)
(* high-watermarks are audit data no branch reads.  Deadline is set exactly *)
(* while the route is moving; whether it has passed is a choice of the step *)
(* that compares it with its own clock (the code never relies on it for     *)
(* safety, and drivers on different machines disagree about it).            *)
Routes == [epoch : Nat, active : Cells \cup {NoCell},
           source : Cells \cup {NoCell}, target : Cells \cup {NoCell},
           state : States, barrier : Nat, evPolicy : Policies, evEpoch : Nat]

ZeroRoute == [epoch |-> 0, active |-> NoCell, source |-> NoCell,
              target |-> NoCell, state |-> "UNKNOWN", barrier |-> 0,
              evPolicy |-> "NORMAL", evEpoch |-> 0]

(* An ACTIVE route on cell c at epoch e: what Assign, the commit and        *)
(* Rollback store.                                                          *)
Resting(c, e) == [epoch |-> e, active |-> c, source |-> NoCell,
                  target |-> NoCell, state |-> "ACTIVE", barrier |-> 0,
                  evPolicy |-> "NORMAL", evEpoch |-> e]

(* CompareAndSet's precondition: only (RouteEpoch, State) are compared.     *)
(* The zero route stands for "absent", so creation is the same test.        *)
Matches(cur, expect) == cur.epoch = expect.epoch /\ cur.state = expect.state

-----------------------------------------------------------------------------
(* The storage fence.  MemFencer keeps one epoch for both operations;       *)
(* GormFencer keeps the owner's route epoch and the seal's barrier epoch in *)
(* separate columns and checks each operation against its own column only.  *)

Fences == [row : BOOLEAN, owner : Cells \cup {NoCell}, epoch : Nat,
           sealed : BOOLEAN, barrier : Nat]

NoFence == [row |-> FALSE, owner |-> NoCell, epoch |-> 0, sealed |-> FALSE,
            barrier |-> 0]

(* Mutant: Seal without its forward-only check. *)
SealUnchecked(f, b) == TRUE

SealAccepts(f, b) ==
    CASE FencerKind = "none" -> TRUE
      [] FencerKind = "mem"  -> b >= f.epoch
      [] FencerKind = "gorm" -> b >= f.barrier

(* Mutant: Seal does not record its epoch. *)
SealedSameEpoch(f, b) == [f EXCEPT !.row = TRUE, !.sealed = TRUE]

Sealed(f, b) ==
    CASE FencerKind = "none" -> f
      [] FencerKind = "mem"  -> [f EXCEPT !.row = TRUE, !.epoch = b, !.sealed = TRUE]
      [] FencerKind = "gorm" -> [f EXCEPT !.row = TRUE, !.barrier = b, !.sealed = TRUE]

(* Mutant: SetOwner without its forward-only check. *)
SetOwnerUnchecked(f, e) == TRUE

SetOwnerAccepts(f, e) == FencerKind = "none" \/ e >= f.epoch

OwnedBy(f, c, e) ==
    IF FencerKind = "none" THEN f
    ELSE [f EXCEPT !.row = TRUE, !.owner = c, !.epoch = e, !.sealed = FALSE]

(* The write-guard predicate: may cell c write at epoch e?                  *)
Allow(f, c, e) == f.row => (~f.sealed /\ c = f.owner /\ e = f.epoch)

(* The event barrier: forward-only on the event epoch.                      *)
SetPolicyAccepts(ev, e) == ~HasEvents \/ e >= ev.epoch
WithPolicy(ev, p, e) == IF HasEvents THEN [policy |-> p, epoch |-> e] ELSE ev

-----------------------------------------------------------------------------
(* Driver control. *)

CallPcs     == {"moveGet", "resumeGet", "assignGet"}
AssignPcs   == {"assignOwner", "assignCas"}
ForwardPcs  == {"begin", "reget", "drain", "casDraining", "seal", "pause",
                "waitDrained", "casCopying", "casCommitting", "commitOwner",
                "resumeEvents", "casActive"}
RollbackPcs == {"rbGet", "rbOwner", "rbEvents", "rbCas"}
Pcs         == {"idle"} \cup CallPcs \cup AssignPcs \cup ForwardPcs \cup RollbackPcs

Goto(d, l) == pc' = [pc EXCEPT ![d] = l]

(* The frames of cas and continueMove are popped. *)
DropPhase(d) ==
    /\ exp'  = [exp EXCEPT ![d] = ZeroRoute]
    /\ want' = [want EXCEPT ![d] = "UNKNOWN"]
    /\ bar'  = [bar EXCEPT ![d] = 0]
    /\ tgt'  = [tgt EXCEPT ![d] = NoCell]

(* The call returns: its locals are gone, its outcome remains. *)
Return(d, outcome) ==
    /\ Goto(d, "idle")
    /\ DropPhase(d)
    /\ depth' = [depth EXCEPT ![d] = 0]
    /\ err'   = [err EXCEPT ![d] = FALSE]
    /\ ret'   = [ret EXCEPT ![d] = outcome]

(* Mutant: an error is returned without the Rollback. *)
FailWithoutRollback(d) == Return(d, "err")

(* An error returns to the innermost frame: Move and resumeFrom answer it   *)
(* with a Rollback (one per frame still open), every other frame passes it  *)
(* on to the caller.                                                        *)
Fail(d) ==
    IF depth[d] > 0
    THEN /\ Goto(d, "rbGet")
         /\ depth' = [depth EXCEPT ![d] = @ - 1]
         /\ err'   = [err EXCEPT ![d] = TRUE]
         /\ DropPhase(d)
         /\ UNCHANGED ret
    ELSE Return(d, "err")

(* A Rollback finished without error of its own. *)
RollbackDone(d) ==
    IF err[d] THEN Fail(d) ELSE Return(d, "ok")

(* continueMove(r): capture the barrier epoch and the target, enter at the  *)
(* phase r is in.                                                           *)
PhaseOf(s) == CASE s = "QUIESCING"  -> "drain"
                [] s = "DRAINING"   -> "seal"
                [] s = "COPYING"    -> "casCommitting"
                [] s = "COMMITTING" -> "commitOwner"

Continue(d, r) ==
    /\ Goto(d, PhaseOf(r.state))
    /\ exp' = [exp EXCEPT ![d] = r]
    /\ bar' = [bar EXCEPT ![d] = r.barrier]
    /\ tgt' = [tgt EXCEPT ![d] = r.target]

(* Mutant: COMMITTING is taken for a finished move. *)
ResumeFromLeavesCommitting(d, r, k) ==
    \/ /\ AdmitsNew(r.state) \/ r.state = "COMMITTING"
       /\ Return(d, "ok")
    \/ /\ r.state \in MovingStates \ {"COMMITTING"}
       /\ Continue(d, r)
       /\ depth' = [depth EXCEPT ![d] = k + 1]
       /\ UNCHANGED <<want, err, ret>>

(* resumeFrom(r) under k enclosing Rollback frames. *)
ResumeFrom(d, r, k) ==
    \/ /\ AdmitsNew(r.state)
       /\ Return(d, "ok")
    \/ /\ r.state \in MovingStates \ {"COMMITTING"}  \* deadline passed
       /\ Goto(d, "rbGet")
       /\ depth' = [depth EXCEPT ![d] = k]
       /\ UNCHANGED <<exp, want, bar, tgt, err, ret>>
    \/ /\ r.state \in MovingStates
       /\ Continue(d, r)
       /\ depth' = [depth EXCEPT ![d] = k + 1]
       /\ UNCHANGED <<want, err, ret>>

-----------------------------------------------------------------------------
(* Calls. *)

StartCall(d, l, from, to) ==
    /\ pc[d] = "idle"
    /\ Goto(d, l)
    /\ plan' = [plan EXCEPT ![d] = [from |-> from, to |-> to]]
    /\ ret' = [ret EXCEPT ![d] = "none"]
    /\ UNCHANGED <<shared, local, faults, crashes, deletes>>

(* The bound MaxCalls counts the calls that can raise the epoch or abort a  *)
(* move; Resume may be called any number of times.                          *)
Counted == calls < MaxCalls /\ calls' = calls + 1

(* Move: ErrSameCell rejects from = to before anything is read.  A refusal  *)
(* by the preflight hook or the budget gate is a Fault at moveGet.          *)
CallMove(d) ==
    \E from, to \in Cells :
        from # to /\ StartCall(d, "moveGet", from, to) /\ Counted

CallResume(d) == StartCall(d, "resumeGet", NoCell, NoCell) /\ UNCHANGED calls

CallRollback(d) == StartCall(d, "rbGet", NoCell, NoCell) /\ Counted

CallAssign(d) ==
    \E c \in Cells : StartCall(d, "assignGet", NoCell, c) /\ Counted

(* Move's Get and the first branch of drive. *)
MoveGet(d) ==
    /\ pc[d] = "moveGet"
    /\ \/ /\ route = ZeroRoute                    \* ErrNoRouteToMove
          /\ Return(d, "err")
       \/ /\ route # ZeroRoute
          /\ AdmitsNew(route.state) /\ route.active = plan[d].to
          /\ Return(d, "ok")
       \/ /\ route # ZeroRoute
          /\ AdmitsNew(route.state) /\ route.active # plan[d].to
          /\ Goto(d, "begin")
          /\ exp' = [exp EXCEPT ![d] = route]
          /\ depth' = [depth EXCEPT ![d] = 1]
          /\ UNCHANGED <<want, bar, tgt, err, ret>>
       \/ /\ ~AdmitsNew(route.state)
          /\ ResumeFrom(d, route, 1)
    /\ UNCHANGED <<shared, plan, counts>>

ResumeGet(d) ==
    /\ pc[d] = "resumeGet"
    /\ ResumeFrom(d, route, 0)
    /\ UNCHANGED <<shared, plan, counts>>

(* Assign's Get: create, nothing to do, or a Move away from the cell it saw.*)
AssignGet(d) ==
    /\ pc[d] = "assignGet"
    /\ \/ /\ route = ZeroRoute
          /\ Goto(d, "assignOwner")
          /\ UNCHANGED <<plan, local, ret>>
       \/ /\ route # ZeroRoute
          /\ route.active = plan[d].to
          /\ Return(d, IF AdmitsNew(route.state) THEN "ok" ELSE "err") \* ErrSameCell
          /\ UNCHANGED plan
       \/ /\ route # ZeroRoute
          /\ route.active # plan[d].to
          /\ Goto(d, "moveGet")
          /\ plan' = [plan EXCEPT ![d].from = route.active]
          /\ UNCHANGED <<local, ret>>
    /\ UNCHANGED <<shared, counts>>

AssignOwner(d) ==
    /\ pc[d] = "assignOwner"
    /\ IF SetOwnerAccepts(fence, 1)
       THEN /\ fence' = OwnedBy(fence, plan[d].to, 1)
            /\ Goto(d, "assignCas")
            /\ UNCHANGED <<local, ret>>
       ELSE /\ Fail(d)
            /\ UNCHANGED fence
    /\ UNCHANGED <<route, events, rested, plan, counts>>

(* The create CAS; a lost create race re-evaluates the whole Assign. *)
AssignCas(d) ==
    /\ pc[d] = "assignCas"
    /\ IF Matches(route, ZeroRoute)
       THEN /\ route' = Resting(plan[d].to, 1)
            /\ rested' = rested \cup {<<1, plan[d].to>>}
            /\ Return(d, "ok")
       ELSE /\ Goto(d, "assignGet")
            /\ UNCHANGED <<route, rested, local, ret>>
    /\ UNCHANGED <<fence, events, plan, counts>>

-----------------------------------------------------------------------------
(* The phases of continueMove.                                              *)

(* MoveController.cas: store next if the table still holds exp, else        *)
(* remember wantState and re-read.                                          *)
Cas(d, next, wantState, l) ==
    IF Matches(route, exp[d])
    THEN IF next.epoch < route.epoch                     \* ErrEpochRegression
         THEN Fail(d) /\ UNCHANGED route
         ELSE /\ route' = next
              /\ exp' = [exp EXCEPT ![d] = next]
              /\ Goto(d, l)
              /\ UNCHANGED <<want, bar, tgt, depth, err, ret>>
    ELSE /\ want' = [want EXCEPT ![d] = wantState]
         /\ Goto(d, "reget")
         /\ UNCHANGED <<route, exp, bar, tgt, depth, err, ret>>

(* The re-read after a conflict: a route already in wantState at no lower   *)
(* epoch is adopted as this step's result, anything else is an error.       *)
StepLanded(d) == route.state = want[d] /\ route.epoch >= exp[d].epoch

Reget(d) ==
    /\ pc[d] = "reget"
    /\ \/ /\ StepLanded(d) /\ want[d] = "QUIESCING"
          /\ Continue(d, route)
          /\ want' = [want EXCEPT ![d] = "UNKNOWN"]
          /\ UNCHANGED <<depth, err, ret>>
       \/ /\ StepLanded(d) /\ want[d] \in {"DRAINING", "COPYING", "COMMITTING"}
          /\ Goto(d, PhaseOf(route.state))
          /\ exp' = [exp EXCEPT ![d] = route]
          /\ want' = [want EXCEPT ![d] = "UNKNOWN"]
          /\ UNCHANGED <<bar, tgt, depth, err, ret>>
       \/ /\ StepLanded(d) /\ want[d] = "ACTIVE"
          /\ Return(d, "ok")
       \/ ~StepLanded(d) /\ Fail(d)
    /\ UNCHANGED <<shared, plan, counts>>

(* Mutant: the barrier is one epoch too high. *)
QuiescingTwoUp(r, from, to) ==
    [r EXCEPT !.source = from, !.target = to, !.state = "QUIESCING",
              !.barrier = r.epoch + 2]

(* Phase 1: ACTIVE(N) -> QUIESCING with barrier epoch N+1. *)
Quiescing(r, from, to) ==
    [r EXCEPT !.source = from, !.target = to, !.state = "QUIESCING",
              !.barrier = r.epoch + 1]

Begin(d) ==
    /\ pc[d] = "begin"
    /\ LET next == Quiescing(exp[d], plan[d].from, plan[d].to)
       IN  IF Matches(route, exp[d])
           THEN /\ route' = next
                /\ Continue(d, next)
                /\ UNCHANGED <<want, depth, err, ret>>
           ELSE /\ want' = [want EXCEPT ![d] = "QUIESCING"]
                /\ Goto(d, "reget")
                /\ UNCHANGED <<route, exp, bar, tgt, depth, err, ret>>
    /\ UNCHANGED <<fence, events, rested, plan, counts>>

(* Phase 2: the drainer returns drained, or a forced cutoff at the deadline.*)
Drain(d) ==
    /\ pc[d] = "drain"
    /\ \/ Goto(d, "casDraining") /\ UNCHANGED <<local, ret>>
       \/ Fail(d)
    /\ UNCHANGED <<shared, plan, counts>>

CasDraining(d) ==
    /\ pc[d] = "casDraining"
    /\ Cas(d, [exp[d] EXCEPT !.state = "DRAINING"], "DRAINING", "seal")
    /\ UNCHANGED <<fence, events, rested, plan, counts>>

(* Phase 3: seal every writer at the barrier epoch. *)
Seal(d) ==
    /\ pc[d] = "seal"
    /\ IF SealAccepts(fence, bar[d])
       THEN /\ fence' = Sealed(fence, bar[d])
            /\ Goto(d, "pause")
            /\ UNCHANGED <<local, ret>>
       ELSE /\ Fail(d)
            /\ UNCHANGED fence
    /\ UNCHANGED <<route, events, rested, plan, counts>>

(* Phase 5: pause the publisher, then wait until it is drained. *)
Pause(d) ==
    /\ pc[d] = "pause"
    /\ IF SetPolicyAccepts(events, bar[d])
       THEN /\ events' = WithPolicy(events, "PAUSE", bar[d])
            /\ Goto(d, "waitDrained")
            /\ UNCHANGED <<local, ret>>
       ELSE /\ Fail(d)
            /\ UNCHANGED events
    /\ UNCHANGED <<route, fence, rested, plan, counts>>

WaitDrained(d) ==
    /\ pc[d] = "waitDrained"
    /\ \/ Goto(d, "casCopying") /\ UNCHANGED <<local, ret>>
       \/ HasEvents /\ Fail(d)                           \* ErrMoveDeadline
    /\ UNCHANGED <<shared, plan, counts>>

CasCopying(d) ==
    /\ pc[d] = "casCopying"
    /\ Cas(d, [exp[d] EXCEPT !.state = "COPYING", !.evPolicy = "PAUSE",
                             !.evEpoch = bar[d]], "COPYING", "casCommitting")
    /\ UNCHANGED <<fence, events, rested, plan, counts>>

(* Phase 6: no data to copy. *)
CasCommitting(d) ==
    /\ pc[d] = "casCommitting"
    /\ Cas(d, [exp[d] EXCEPT !.state = "COMMITTING"], "COMMITTING", "commitOwner")
    /\ UNCHANGED <<fence, events, rested, plan, counts>>

(* Phase 7: hand the fence to the target, resume events, flip the route. *)
CommitOwner(d) ==
    /\ pc[d] = "commitOwner"
    /\ IF SetOwnerAccepts(fence, bar[d] + 1)
       THEN /\ fence' = OwnedBy(fence, tgt[d], bar[d] + 1)
            /\ Goto(d, "resumeEvents")
            /\ UNCHANGED <<local, ret>>
       ELSE /\ Fail(d)
            /\ UNCHANGED fence
    /\ UNCHANGED <<route, events, rested, plan, counts>>

ResumeEvents(d) ==
    /\ pc[d] = "resumeEvents"
    /\ IF SetPolicyAccepts(events, bar[d] + 1)
       THEN /\ events' = WithPolicy(events, "NORMAL", bar[d] + 1)
            /\ Goto(d, "casActive")
            /\ UNCHANGED <<local, ret>>
       ELSE /\ Fail(d)
            /\ UNCHANGED events
    /\ UNCHANGED <<route, fence, rested, plan, counts>>

CasActive(d) ==
    /\ pc[d] = "casActive"
    /\ IF Matches(route, exp[d])
       THEN IF bar[d] + 1 < route.epoch                  \* ErrEpochRegression
            THEN Fail(d) /\ UNCHANGED <<route, rested>>
            ELSE /\ route' = Resting(tgt[d], bar[d] + 1)
                 /\ rested' = rested \cup {<<bar[d] + 1, tgt[d]>>}
                 /\ Return(d, "ok")
       ELSE /\ want' = [want EXCEPT ![d] = "ACTIVE"]
            /\ Goto(d, "reget")
            /\ UNCHANGED <<route, rested, exp, bar, tgt, depth, err, ret>>
    /\ UNCHANGED <<fence, events, plan, counts>>

-----------------------------------------------------------------------------
(* Rollback. *)

(* Mutant: back to the active cell. *)
RollbackToActive(r) == r.active

RollbackCell(r)  == IF r.source = NoCell THEN r.active ELSE r.source
RollbackEpoch(r) == IF r.barrier + 1 <= r.epoch THEN r.epoch + 1 ELSE r.barrier + 1

RbGet(d) ==
    /\ pc[d] = "rbGet"
    /\ IF AdmitsNew(route.state)
       THEN RollbackDone(d)
       ELSE /\ exp' = [exp EXCEPT ![d] = route]
            /\ Goto(d, "rbOwner")
            /\ UNCHANGED <<want, bar, tgt, depth, err, ret>>
    /\ UNCHANGED <<shared, plan, counts>>

RbOwner(d) ==
    /\ pc[d] = "rbOwner"
    /\ IF SetOwnerAccepts(fence, RollbackEpoch(exp[d]))
       THEN /\ fence' = OwnedBy(fence, RollbackCell(exp[d]), RollbackEpoch(exp[d]))
            /\ Goto(d, "rbEvents")
            /\ UNCHANGED <<local, ret>>
       ELSE /\ Fail(d)
            /\ UNCHANGED fence
    /\ UNCHANGED <<route, events, rested, plan, counts>>

RbEvents(d) ==
    /\ pc[d] = "rbEvents"
    /\ IF SetPolicyAccepts(events, RollbackEpoch(exp[d]))
       THEN /\ events' = WithPolicy(events, "NORMAL", RollbackEpoch(exp[d]))
            /\ Goto(d, "rbCas")
            /\ UNCHANGED <<local, ret>>
       ELSE /\ Fail(d)
            /\ UNCHANGED events
    /\ UNCHANGED <<route, fence, rested, plan, counts>>

(* Mutant: a conflict is retried without reading the route again. *)
RbCasBlindRetry(d) ==
    /\ pc[d] = "rbCas"
    /\ IF Matches(route, exp[d])
       THEN /\ route' = Resting(RollbackCell(exp[d]), RollbackEpoch(exp[d]))
            /\ rested' = rested \cup {<<RollbackEpoch(exp[d]), RollbackCell(exp[d])>>}
            /\ RollbackDone(d)
       ELSE UNCHANGED <<route, rested, pc, local, ret>>
    /\ UNCHANGED <<fence, events, plan, counts>>

RbCas(d) ==
    /\ pc[d] = "rbCas"
    /\ IF Matches(route, exp[d])
       THEN /\ route' = Resting(RollbackCell(exp[d]), RollbackEpoch(exp[d]))
            /\ rested' = rested \cup {<<RollbackEpoch(exp[d]), RollbackCell(exp[d])>>}
            /\ RollbackDone(d)
       ELSE /\ Goto(d, "rbGet")                          \* conflict: retry
            /\ UNCHANGED <<route, rested, local, ret>>
    /\ UNCHANGED <<fence, events, plan, counts>>

-----------------------------------------------------------------------------
(* The environment. *)

(* The pending call returns a transient error (or its context is done). *)
Fault(d) ==
    /\ pc[d] # "idle"
    /\ faults < MaxFaults
    /\ faults' = faults + 1
    /\ Fail(d)
    /\ UNCHANGED <<shared, plan, calls, crashes, deletes>>

(* The driver's process dies between two calls. *)
Crash(d) ==
    /\ pc[d] # "idle"
    /\ crashes < MaxCrashes
    /\ crashes' = crashes + 1
    /\ Return(d, "none")
    /\ UNCHANGED <<shared, plan, calls, faults, deletes>>

(* MemTable.Delete / FileTable.Delete. *)
Delete ==
    /\ deletes < MaxDeletes
    /\ route # ZeroRoute
    /\ deletes' = deletes + 1
    /\ route' = ZeroRoute
    /\ UNCHANGED <<fence, events, rested, pc, plan, local, ret, calls, faults, crashes>>

-----------------------------------------------------------------------------

Init ==
    /\ route = ZeroRoute
    /\ fence = NoFence
    /\ events = [policy |-> "NORMAL", epoch |-> 0]
    /\ rested = {}
    /\ pc = [d \in Drivers |-> "idle"]
    /\ plan = [d \in Drivers |-> [from |-> NoCell, to |-> NoCell]]
    /\ exp = [d \in Drivers |-> ZeroRoute]
    /\ want = [d \in Drivers |-> "UNKNOWN"]
    /\ bar = [d \in Drivers |-> 0]
    /\ tgt = [d \in Drivers |-> NoCell]
    /\ depth = [d \in Drivers |-> 0]
    /\ err = [d \in Drivers |-> FALSE]
    /\ ret = [d \in Drivers |-> "none"]
    /\ calls = 0 /\ faults = 0 /\ crashes = 0 /\ deletes = 0

Call(d) == CallMove(d) \/ CallResume(d) \/ CallRollback(d) \/ CallAssign(d)

Step(d) ==
    \/ MoveGet(d) \/ ResumeGet(d)
    \/ AssignGet(d) \/ AssignOwner(d) \/ AssignCas(d)
    \/ Begin(d) \/ Reget(d) \/ Drain(d) \/ CasDraining(d)
    \/ Seal(d) \/ Pause(d) \/ WaitDrained(d) \/ CasCopying(d)
    \/ CasCommitting(d)
    \/ CommitOwner(d) \/ ResumeEvents(d) \/ CasActive(d)
    \/ RbGet(d) \/ RbOwner(d) \/ RbEvents(d) \/ RbCas(d)

Next == \/ \E d \in Drivers : Call(d) \/ Step(d) \/ Fault(d) \/ Crash(d)
        \/ Delete

Spec == Init /\ [][Next]_vars

(* A running driver is not descheduled for ever: its goroutine takes its    *)
(* next step.  Calls, faults, crashes and deletions are never obligatory.   *)
FairSpec == Spec /\ \A d \in Drivers : WF_vars(Step(d))

(* The deployment keeps calling Resume, the recovery entry point, from any  *)
(* process that is not already driving the tenant.                          *)
RecoverySpec == FairSpec /\ \A d \in Drivers : WF_vars(CallResume(d))

-----------------------------------------------------------------------------
(* Properties. *)

AllIdle == \A d \in Drivers : pc[d] = "idle"

SharedTypeOK ==
    /\ route \in Routes
    /\ fence \in Fences
    /\ events \in [policy : Policies, epoch : Nat]
    /\ rested \subseteq (Nat \X (Cells \cup {NoCell}))

LocalTypeOK ==
    /\ pc \in [Drivers -> Pcs]
    /\ exp \in [Drivers -> Routes]
    /\ want \in [Drivers -> States]
    /\ bar \in [Drivers -> Nat]
    /\ tgt \in [Drivers -> Cells \cup {NoCell}]
    /\ depth \in [Drivers -> 0..2]
    /\ err \in [Drivers -> BOOLEAN]
    /\ ret \in [Drivers -> {"none", "ok", "err"}]

CallTypeOK ==
    /\ plan \in [Drivers -> [from : Cells \cup {NoCell}, to : Cells \cup {NoCell}]]
    /\ calls \in Nat /\ faults \in Nat /\ crashes \in Nat /\ deletes \in Nat

(* Types; in particular at most two Rollback frames are ever open. *)
TypeOK == SharedTypeOK /\ LocalTypeOK /\ CallTypeOK

(* The write-guard never admits a writer at an epoch below the route's,     *)
(* whichever driver stalled where: an owner is installed before the route   *)
(* flips, and the fence never goes back (SetOwner in continueMove and       *)
(* Rollback against Allow).                                                 *)
StaleWritersFenced ==
    \A c \in Cells : \A e \in 0 .. route.epoch : e < route.epoch => ~Allow(fence, c, e)

(* From COPYING on, no cell can write at the pre-move epoch: the source's   *)
(* data and events are frozen at the cut (Seal before the COPYING CAS, and  *)
(* no late SetOwner lifts the seal at the old epoch).                       *)
CutIsSealed ==
    route.state \in {"COPYING", "COMMITTING"} =>
        \A c \in Cells : ~Allow(fence, c, route.epoch)

(* From COPYING on, the publisher is paused at the barrier epoch, or some   *)
(* driver has already resumed it for the epoch after the move; it never     *)
(* runs NORMAL at the old epoch (SetPolicy in phases 5 and 7).              *)
EventsPausedInCut ==
    HasEvents /\ route.state \in {"COPYING", "COMMITTING"} =>
        \/ events.policy = "PAUSE" /\ events.epoch = route.epoch + 1
        \/ events.epoch = route.epoch + 2

(* An epoch names one owner for ever: a token issued at (cell, epoch) can   *)
(* never be mistaken for one of another cell.                               *)
EpochNamesOneOwner == \A p, q \in rested : p[1] = q[1] => p[2] = q[2]

(* No ABA: although CompareAndSet compares only epoch and state, a driver   *)
(* whose expected epoch and state match the table expects the very route    *)
(* that is stored, so its CAS never overwrites another move's cells.        *)
CasPcs == {"begin", "casDraining", "casCopying", "casCommitting", "casActive", "rbCas"}

ExpectIsCurrent ==
    \A d \in Drivers :
        /\ pc[d] \in CasPcs
        /\ exp[d].epoch = route.epoch
        /\ exp[d].state = route.state
        => exp[d] = route

(* A resting tenant is never left sealed, so its owner can write: a late    *)
(* Seal of an already decided barrier is refused.                           *)
NotSealedAtRest == AdmitsNew(route.state) => ~fence.sealed

(* Without faults and crashes no move is abandoned half-way: when every     *)
(* driver has returned, the route rests.                                    *)
NoAbandonedMove ==
    AllIdle /\ faults = 0 /\ crashes = 0 => AdmitsNew(route.state)

(* Whoever ends a move, by commit or by rollback, advances the epoch by     *)
(* exactly two ("advancing the route epoch N->N+2").                        *)
EpochAdvances ==
    [][route # ZeroRoute /\ route' # route /\ AdmitsNew(route'.state)
         => route'.epoch = route.epoch + 2]_vars

(* Every call returns: no driver waits or retries for ever. *)
Terminates == \A d \in Drivers : pc[d] # "idle" ~> pc[d] = "idle"

(* A move interrupted at any phase ends: with Resume called again, the      *)
(* route comes back to rest in spite of crashes and transient errors.       *)
Recovers == route.state \in MovingStates ~> AdmitsNew(route.state)

(* The controller implements TenantMove: concurrent, retrying and crashing  *)
(* drivers together look like one sequence of moves, each decided once.     *)
Abstract == INSTANCE TenantMove WITH
    owner <- route.active, epoch <- route.epoch,
    source <- route.source, target <- route.target

Implements == Abstract!Spec

-----------------------------------------------------------------------------
(* The inductive invariant of a controller with a MemFencer (or any fence   *)
(* with its single forward-only epoch) whose routes are never deleted.      *)

Rank(s) == CASE s = "QUIESCING" -> 1 [] s = "DRAINING" -> 2
             [] s = "COPYING" -> 3 [] s = "COMMITTING" -> 4 [] OTHER -> 0

RouteInv ==
    /\ route.state \in MovingStates \cup {"UNKNOWN", "ACTIVE"}
    /\ route.epoch = 0 => route = ZeroRoute
    /\ route.epoch > 0 => route.state # "UNKNOWN" /\ route.active \in Cells
    /\ route.state = "ACTIVE" => route.source = NoCell /\ route.target = NoCell
    /\ route.state \in MovingStates =>
          /\ route.source \in Cells /\ route.target \in Cells
          /\ route.source # route.target
          /\ route.barrier = route.epoch + 1

(* The fence runs between the route's epoch and the epoch after the move;   *)
(* it equals the route's epoch at rest and has left it from COPYING on.     *)
FenceInv ==
    /\ route.epoch <= fence.epoch /\ fence.epoch <= route.epoch + 2
    /\ route.epoch = 0 => fence.epoch <= 1
    /\ fence.epoch >= 1 => fence.row
    /\ route.state = "ACTIVE" => fence.epoch = route.epoch
    /\ fence.sealed => fence.epoch = route.epoch + 1 /\ Rank(route.state) >= 2
    /\ Rank(route.state) >= 3 => fence.epoch >= route.epoch + 1

EventInv ==
    /\ events.epoch <= route.epoch + 2
    /\ route.epoch = 0 => events.epoch = 0
    /\ events.epoch = route.epoch + 1 => events.policy = "PAUSE"
    /\ HasEvents /\ Rank(route.state) >= 3 => events.epoch >= route.epoch + 1

HistoryInv ==
    /\ \A p \in rested : /\ p[1] <= route.epoch
                         /\ p[1] = route.epoch => p[2] = route.active
    /\ EpochNamesOneOwner

(* What driver d remembers of the route is the current move's, at a phase   *)
(* no later than the table's, or belongs to a decided move, two epochs back *)
(* or more.                                                                 *)
ExpInv(d) ==
    exp[d] # ZeroRoute =>
        /\ exp[d].epoch >= 1
        /\ exp[d].state \in MovingStates \cup {"ACTIVE"}
        /\ exp[d].state \in MovingStates =>
              /\ exp[d].source \in Cells /\ exp[d].target \in Cells
              /\ exp[d].barrier = exp[d].epoch + 1
        /\ \/ exp[d].epoch + 2 <= route.epoch
           \/ /\ exp[d].epoch = route.epoch
              /\ Rank(exp[d].state) <= Rank(route.state)
              /\ exp[d].state = route.state => exp[d] = route
              /\ exp[d].state \in MovingStates =>
                    exp[d].source = route.source /\ exp[d].target = route.target

(* The barrier epoch captured by continueMove belongs to the remembered     *)
(* move or to an earlier one (a route adopted after a conflict).            *)
BarInv(d) ==
    bar[d] # 0 =>
        /\ bar[d] >= 2
        /\ exp[d] # ZeroRoute
        /\ tgt[d] \in Cells
        /\ \/ bar[d] + 1 <= exp[d].epoch
           \/ bar[d] = exp[d].epoch + 1 /\ tgt[d] = exp[d].target

PcInv(d) ==
    /\ pc[d] \notin ForwardPcs \ {"begin"} => bar[d] = 0
    /\ pc[d] \in {"moveGet", "begin"} =>
          plan[d].from \in Cells /\ plan[d].to \in Cells /\ plan[d].from # plan[d].to
    /\ pc[d] \in {"assignGet", "assignOwner", "assignCas"} => plan[d].to \in Cells
    /\ pc[d] = "assignCas" => fence.epoch >= 1
    /\ pc[d] = "begin" => exp[d].state = "ACTIVE"
    /\ pc[d] = "reget" =>
          /\ exp[d] # ZeroRoute
          /\ want[d] \in MovingStates \cup {"ACTIVE"}
          /\ want[d] # "QUIESCING" => bar[d] # 0 /\ exp[d].state \in MovingStates
    /\ pc[d] \in {"drain", "casDraining"} =>
          exp[d].state = "QUIESCING" /\ bar[d] # 0
    /\ pc[d] \in {"seal", "pause", "waitDrained", "casCopying"} =>
          exp[d].state = "DRAINING" /\ bar[d] # 0
    /\ pc[d] \in {"pause", "waitDrained", "casCopying"} =>
          bar[d] = exp[d].epoch + 1 /\ fence.epoch >= bar[d]
    /\ pc[d] \in {"waitDrained", "casCopying"} =>
          (HasEvents => events.epoch >= bar[d])
    /\ pc[d] = "casCommitting" => exp[d].state = "COPYING" /\ bar[d] # 0
    /\ pc[d] \in {"commitOwner", "resumeEvents", "casActive"} =>
          exp[d].state = "COMMITTING" /\ bar[d] # 0
    /\ pc[d] \in {"resumeEvents", "casActive"} =>
          bar[d] = exp[d].epoch + 1 /\ fence.epoch >= bar[d] + 1
    /\ pc[d] \in {"rbOwner", "rbEvents", "rbCas"} => exp[d].state \in MovingStates
    /\ pc[d] \in {"rbEvents", "rbCas"} => fence.epoch >= exp[d].epoch + 2

DriverInv(d) == ExpInv(d) /\ BarInv(d) /\ PcInv(d)

SharedInv == RouteInv /\ FenceInv /\ EventInv /\ HistoryInv

IInv ==
    /\ TypeOK
    /\ SharedInv
    /\ \A d \in Drivers : DriverInv(d)
    /\ deletes = 0

-----------------------------------------------------------------------------
(* What comments of the repository say and the code does not do. *)

(* "Fencing and the event plane are reset to the source at the new epoch    *)
(* before the route flips back" (Rollback), "hand ownership to the target"  *)
(* (phase 7): when every driver has returned, the fence admits the cell the *)
(* route names.                                                             *)
OwnerCanWriteAtRest ==
    AllIdle /\ faults = 0 /\ crashes = 0 /\ route.state = "ACTIVE" =>
        Allow(fence, route.active, route.epoch)

(* "from its current cell" (Move): the cell a move drains, and rolls back   *)
(* to, is the cell that serves the tenant.                                  *)
SourceIsActive == route.state \in MovingStates => route.source = route.active

(* Move "drives the full move protocol ... to plan.ToCell": a Move that     *)
(* returned nil has had the tenant rest on its target.                      *)
MoveOkMeansLanded ==
    \A d \in Drivers :
        ret[d] = "ok" /\ plan[d].from # NoCell =>
            \E p \in rested : p[2] = plan[d].to

(* "COMMITTING always finishes forward (the cut is decided)" (resumeFrom).  *)
CommittingFinishesForward ==
    [][route.state = "COMMITTING" /\ AdmitsNew(route'.state)
         => route'.active = route.target]_vars
=============================================================================
