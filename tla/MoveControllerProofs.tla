------------------------ MODULE MoveControllerProofs ------------------------
(***************************************************************************)
(* Proofs about MoveController, for every set of cells and drivers and     *)
(* every bound on calls, faults and crashes: types, then the safety of moves. *)
(***************************************************************************)
EXTENDS MoveController, TLAPS

-----------------------------------------------------------------------------
(* Types. *)

LEMMA ZeroRouteType == ZeroRoute \in Routes
BY ConstantsAssumption DEF ZeroRoute, Routes, States, MovingStates, RestingStates, Policies

LEMMA RestingType ==
    ASSUME NEW c \in Cells \cup {NoCell}, NEW e \in Nat
    PROVE  Resting(c, e) \in Routes
BY DEF Resting, Routes, States, MovingStates, RestingStates, Policies

LEMMA FenceOpsType ==
    ASSUME NEW f \in Fences, NEW c \in Cells \cup {NoCell}, NEW e \in Nat
    PROVE  /\ Sealed(f, e) \in Fences
           /\ OwnedBy(f, c, e) \in Fences
BY ConstantsAssumption DEF Sealed, OwnedBy, Fences

LEMMA PolicyType ==
    ASSUME NEW ev \in [policy : Policies, epoch : Nat], NEW p \in Policies, NEW e \in Nat
    PROVE  WithPolicy(ev, p, e) \in [policy : Policies, epoch : Nat]
BY DEF WithPolicy

LEMMA RollbackType ==
    ASSUME NEW r \in Routes
    PROVE  RollbackCell(r) \in Cells \cup {NoCell} /\ RollbackEpoch(r) \in Nat
BY DEF RollbackCell, RollbackEpoch, Routes

LEMMA PhaseRouteType ==
    ASSUME NEW r \in Routes, NEW from \in Cells \cup {NoCell}, NEW to \in Cells \cup {NoCell},
           NEW b \in Nat
    PROVE  /\ Quiescing(r, from, to) \in Routes
           /\ Quiescing(r, from, to).state = "QUIESCING"
           /\ [r EXCEPT !.state = "DRAINING"] \in Routes
           /\ [r EXCEPT !.state = "COPYING", !.evPolicy = "PAUSE", !.evEpoch = b] \in Routes
           /\ [r EXCEPT !.state = "COMMITTING"] \in Routes
<1>1. {"QUIESCING", "DRAINING", "COPYING", "COMMITTING"} \subseteq States /\ "PAUSE" \in Policies
  BY DEF States, MovingStates, Policies
<1>0. r.epoch + 1 \in Nat
  BY DEF Routes
<1>2. Quiescing(r, from, to) \in Routes
  BY <1>0, <1>1 DEF Quiescing, Routes
<1>5. Quiescing(r, from, to).state = "QUIESCING"
  BY DEF Quiescing, Routes
<1>3. [r EXCEPT !.state = "DRAINING"] \in Routes /\ [r EXCEPT !.state = "COMMITTING"] \in Routes
  BY <1>1 DEF Routes
<1>4. [r EXCEPT !.state = "COPYING", !.evPolicy = "PAUSE", !.evEpoch = b] \in Routes
  BY <1>1 DEF Routes
<1> QED BY <1>2, <1>3, <1>4, <1>5

LEMMA DropPhaseType ==
    ASSUME LocalTypeOK, NEW d \in Drivers, DropPhase(d)
    PROVE  /\ exp' \in [Drivers -> Routes]
           /\ want' \in [Drivers -> States]
           /\ bar' \in [Drivers -> Nat]
           /\ tgt' \in [Drivers -> Cells \cup {NoCell}]
BY ZeroRouteType DEF LocalTypeOK, DropPhase, States, RestingStates

LEMMA ReturnType ==
    ASSUME LocalTypeOK, NEW d \in Drivers, NEW o \in {"none", "ok", "err"}, Return(d, o)
    PROVE  LocalTypeOK'
BY DropPhaseType DEF LocalTypeOK, Return, Goto, Pcs

LEMMA FailType ==
    ASSUME LocalTypeOK, NEW d \in Drivers, Fail(d)
    PROVE  LocalTypeOK'
<1>1. CASE depth[d] > 0
  <2>1. pc' \in [Drivers -> Pcs]
    BY <1>1 DEF LocalTypeOK, Fail, Goto, Pcs, RollbackPcs
  <2>2. /\ exp' \in [Drivers -> Routes]
        /\ want' \in [Drivers -> States]
        /\ bar' \in [Drivers -> Nat]
        /\ tgt' \in [Drivers -> Cells \cup {NoCell}]
    BY <1>1, DropPhaseType DEF Fail
  <2>3. depth' \in [Drivers -> 0..2] /\ ret' \in [Drivers -> {"none", "ok", "err"}]
    BY <1>1 DEF LocalTypeOK, Fail
  <2>4. err' \in [Drivers -> BOOLEAN]
    BY <1>1 DEF LocalTypeOK, Fail
  <2> QED BY <2>1, <2>2, <2>3, <2>4 DEF LocalTypeOK
<1>2. CASE ~(depth[d] > 0)
  BY <1>2, ReturnType DEF Fail
<1> QED BY <1>1, <1>2

LEMMA RollbackDoneType ==
    ASSUME LocalTypeOK, NEW d \in Drivers, RollbackDone(d)
    PROVE  LocalTypeOK'
BY FailType, ReturnType DEF RollbackDone

LEMMA PhaseOfType ==
    ASSUME NEW s \in MovingStates
    PROVE  PhaseOf(s) \in Pcs
BY DEF PhaseOf, MovingStates, Pcs, ForwardPcs

(* Moving to another control point leaves the locals well-typed. *)
LEMMA GotoType ==
    ASSUME LocalTypeOK, NEW d \in Drivers, NEW l \in Pcs, Goto(d, l), UNCHANGED <<local, ret>>
    PROVE  LocalTypeOK'
BY DEF LocalTypeOK, Goto, local

LEMMA ContinueType ==
    ASSUME LocalTypeOK, NEW d \in Drivers, NEW r \in Routes, r.state \in MovingStates,
           Continue(d, r)
    PROVE  /\ pc' \in [Drivers -> Pcs]
           /\ exp' \in [Drivers -> Routes]
           /\ bar' \in [Drivers -> Nat]
           /\ tgt' \in [Drivers -> Cells \cup {NoCell}]
<1>1. PhaseOf(r.state) \in Pcs /\ r.barrier \in Nat /\ r.target \in Cells \cup {NoCell}
  BY PhaseOfType DEF Routes
<1> QED BY <1>1 DEF LocalTypeOK, Continue, Goto

LEMMA ResumeFromType ==
    ASSUME LocalTypeOK, NEW d \in Drivers, NEW r \in Routes, NEW k \in 0..1,
           ResumeFrom(d, r, k)
    PROVE  LocalTypeOK'
<1>1. CASE AdmitsNew(r.state) /\ Return(d, "ok")
  BY <1>1, ReturnType
<1>2. CASE /\ Goto(d, "rbGet")
           /\ depth' = [depth EXCEPT ![d] = k]
           /\ UNCHANGED <<exp, want, bar, tgt, err, ret>>
  BY <1>2 DEF LocalTypeOK, Goto, Pcs, RollbackPcs
<1>3. CASE /\ r.state \in MovingStates
           /\ Continue(d, r)
           /\ depth' = [depth EXCEPT ![d] = k + 1]
           /\ UNCHANGED <<want, err, ret>>
  <2>1. depth' \in [Drivers -> 0..2]
    BY <1>3 DEF LocalTypeOK
  <2> QED BY <1>3, <2>1, ContinueType DEF LocalTypeOK
<1> QED BY <1>1, <1>2, <1>3 DEF ResumeFrom

LEMMA CasType ==
    ASSUME SharedTypeOK, LocalTypeOK, NEW d \in Drivers, NEW next \in Routes,
           NEW w \in States, NEW l \in Pcs, Cas(d, next, w, l)
    PROVE  route' \in Routes /\ LocalTypeOK'
<1>1. CASE Fail(d) /\ UNCHANGED route
  BY <1>1, FailType DEF SharedTypeOK
<1>2. CASE /\ route' = next
           /\ exp' = [exp EXCEPT ![d] = next]
           /\ Goto(d, l)
           /\ UNCHANGED <<want, bar, tgt, depth, err, ret>>
  BY <1>2 DEF LocalTypeOK, Goto
<1>3. CASE /\ want' = [want EXCEPT ![d] = w]
           /\ Goto(d, "reget")
           /\ UNCHANGED <<route, exp, bar, tgt, depth, err, ret>>
  BY <1>3 DEF LocalTypeOK, SharedTypeOK, Goto, Pcs, ForwardPcs
<1> QED BY <1>1, <1>2, <1>3 DEF Cas

(* Every step preserves the types. *)
LEMMA TypeStep ==
    ASSUME TypeOK, [Next]_vars
    PROVE  TypeOK'
<1> USE DEF TypeOK
<1>0. CASE UNCHANGED vars
  BY <1>0 DEF vars, SharedTypeOK, LocalTypeOK, CallTypeOK
<1>d. CASE Delete
  BY <1>d, ZeroRouteType DEF Delete, local, SharedTypeOK, LocalTypeOK, CallTypeOK
<1> SUFFICES ASSUME NEW d \in Drivers, Call(d) \/ Step(d) \/ Fault(d) \/ Crash(d)
             PROVE  TypeOK'
  BY <1>0, <1>d DEF Next
<1>p. /\ {"idle", "moveGet", "resumeGet", "assignGet", "assignOwner", "assignCas"} \subseteq Pcs
      /\ ForwardPcs \subseteq Pcs /\ RollbackPcs \subseteq Pcs
  BY DEF Pcs, CallPcs, AssignPcs
<1>s. MovingStates \subseteq States /\ "ACTIVE" \in States /\ "UNKNOWN" \in States
  BY DEF States, RestingStates
<1>c. CASE Call(d)
  <2>1. ASSUME NEW from \in Cells \cup {NoCell}, NEW to \in Cells \cup {NoCell},
               NEW l \in Pcs, StartCall(d, l, from, to), Counted \/ UNCHANGED calls
        PROVE  TypeOK'
    BY <2>1 DEF StartCall, Counted, Goto, shared, local, SharedTypeOK, LocalTypeOK, CallTypeOK
  <2> QED BY <1>c, <1>p, <2>1 DEF Call, CallMove, CallResume, CallRollback, CallAssign, RollbackPcs
<1>f. CASE Fault(d)
  BY <1>f, FailType DEF Fault, shared, SharedTypeOK, CallTypeOK
<1>x. CASE Crash(d)
  BY <1>x, ReturnType DEF Crash, shared, SharedTypeOK, CallTypeOK
<1>1. CASE MoveGet(d)
  <2>1. SharedTypeOK' /\ CallTypeOK'
    BY <1>1 DEF MoveGet, shared, counts, SharedTypeOK, CallTypeOK
  <2>2. CASE Return(d, "err") \/ Return(d, "ok")
    BY <2>1, <2>2, ReturnType
  <2>3. CASE /\ Goto(d, "begin")
             /\ exp' = [exp EXCEPT ![d] = route]
             /\ depth' = [depth EXCEPT ![d] = 1]
             /\ UNCHANGED <<want, bar, tgt, err, ret>>
    BY <1>p, <2>1, <2>3 DEF Goto, SharedTypeOK, LocalTypeOK, ForwardPcs
  <2>4. CASE ResumeFrom(d, route, 1)
    BY <2>1, <2>4, ResumeFromType DEF SharedTypeOK
  <2> QED BY <1>1, <2>2, <2>3, <2>4 DEF MoveGet
<1>2. CASE ResumeGet(d)
  BY <1>2, ResumeFromType DEF ResumeGet, shared, counts, SharedTypeOK, CallTypeOK
<1>3. CASE AssignGet(d)
  <2>1. SharedTypeOK' /\ CallTypeOK'
    BY <1>3 DEF AssignGet, shared, counts, SharedTypeOK, CallTypeOK, Routes
  <2>2. CASE \E l \in {"assignOwner", "moveGet"} : Goto(d, l) /\ UNCHANGED <<local, ret>>
    BY <1>p, <2>1, <2>2, GotoType
  <2>3. CASE \E o \in {"ok", "err"} : Return(d, o)
    BY <2>1, <2>3, ReturnType
  <2> QED BY <1>3, <2>2, <2>3 DEF AssignGet
<1>4. CASE AssignOwner(d)
  <2>0. plan[d].to \in Cells \cup {NoCell}
    BY DEF CallTypeOK
  <2>1. SharedTypeOK' /\ CallTypeOK'
    <3>1. fence' \in Fences
      BY <1>4, <2>0, FenceOpsType DEF AssignOwner, SharedTypeOK
    <3> QED BY <1>4, <3>1 DEF AssignOwner, counts, SharedTypeOK, CallTypeOK
  <2> QED BY <1>4, <1>p, <2>1, GotoType, FailType DEF AssignOwner
<1>5. CASE AssignCas(d)
  <2>1. CallTypeOK' /\ SharedTypeOK'
    BY <1>5, RestingType DEF AssignCas, counts, SharedTypeOK, CallTypeOK
  <2> QED BY <1>5, <1>p, <2>1, GotoType, ReturnType DEF AssignCas
<1>6. CASE Begin(d)
  <2> DEFINE next == Quiescing(exp[d], plan[d].from, plan[d].to)
  <2>1. next \in Routes /\ next.state = "QUIESCING"
    <3>1. exp[d] \in Routes /\ plan[d].from \in Cells \cup {NoCell} /\ plan[d].to \in Cells \cup {NoCell}
      BY DEF LocalTypeOK, CallTypeOK
    <3> QED BY <3>1, PhaseRouteType
  <2>2. CASE route' = next /\ Continue(d, next) /\ UNCHANGED <<want, depth, err, ret>>
    <3> HIDE DEF next
    <3> QED BY <1>6, <2>1, <2>2, ContinueType
            DEF Begin, counts, SharedTypeOK, LocalTypeOK, CallTypeOK, MovingStates
  <2>3. CASE /\ want' = [want EXCEPT ![d] = "QUIESCING"]
             /\ Goto(d, "reget")
             /\ UNCHANGED <<route, exp, bar, tgt, depth, err, ret>>
    BY <1>6, <1>p, <1>s, <2>3
       DEF Begin, Goto, counts, SharedTypeOK, LocalTypeOK, CallTypeOK, ForwardPcs, MovingStates
  <2> QED BY <1>6, <2>2, <2>3 DEF Begin
<1>7. CASE Reget(d)
  <2>1. SharedTypeOK' /\ CallTypeOK'
    BY <1>7 DEF Reget, shared, counts, SharedTypeOK, CallTypeOK
  <2>2. CASE StepLanded(d) /\ want[d] = "QUIESCING"
    BY <1>7, <1>s, <2>1, <2>2, ContinueType
       DEF Reget, StepLanded, SharedTypeOK, LocalTypeOK, MovingStates
  <2>3. CASE StepLanded(d) /\ want[d] \in {"DRAINING", "COPYING", "COMMITTING"}
    <3>1. PhaseOf(route.state) \in Pcs
      BY <2>3, PhaseOfType DEF StepLanded, MovingStates
    <3> QED BY <1>7, <1>s, <2>1, <2>3, <3>1 DEF Reget, Goto, SharedTypeOK, LocalTypeOK
  <2>4. CASE Return(d, "ok")
    BY <2>1, <2>4, ReturnType
  <2>5. CASE Fail(d)
    BY <2>1, <2>5, FailType
  <2> QED BY <1>7, <2>2, <2>3, <2>4, <2>5 DEF Reget
<1>8. CASE Drain(d)
  <2>1. SharedTypeOK' /\ CallTypeOK'
    BY <1>8 DEF Drain, shared, counts, SharedTypeOK, CallTypeOK
  <2> QED BY <1>8, <1>p, <2>1, GotoType, FailType DEF Drain, ForwardPcs
<1>9. CASE CasDraining(d)
  <2> DEFINE next == [exp[d] EXCEPT !.state = "DRAINING"]
  <2>1. next \in Routes
    <3>1. exp[d] \in Routes /\ bar[d] \in Nat
      BY DEF LocalTypeOK
    <3> QED BY <3>1, PhaseRouteType
  <2>2. Cas(d, next, "DRAINING", "seal")
    BY <1>9 DEF CasDraining
  <2>3. route' \in Routes /\ LocalTypeOK'
    <3> HIDE DEF next
    <3> QED BY <1>p, <1>s, <2>1, <2>2, CasType DEF ForwardPcs, MovingStates
  <2> QED BY <1>9, <2>3 DEF CasDraining, counts, SharedTypeOK, CallTypeOK
<1>10. CASE Seal(d)
  <2>1. SharedTypeOK' /\ CallTypeOK'
    <3>1. fence' \in Fences
      BY <1>10, FenceOpsType DEF Seal, SharedTypeOK, LocalTypeOK
    <3> QED BY <1>10, <3>1 DEF Seal, counts, SharedTypeOK, CallTypeOK
  <2> QED BY <1>10, <1>p, <2>1, GotoType, FailType DEF Seal, ForwardPcs
<1>11. CASE Pause(d)
  <2>1. SharedTypeOK' /\ CallTypeOK'
    <3>1. events' \in [policy : Policies, epoch : Nat]
      BY <1>11, PolicyType DEF Pause, SharedTypeOK, LocalTypeOK, Policies
    <3> QED BY <1>11, <3>1 DEF Pause, counts, SharedTypeOK, CallTypeOK
  <2> QED BY <1>11, <1>p, <2>1, GotoType, FailType DEF Pause, ForwardPcs
<1>12. CASE WaitDrained(d)
  <2>1. SharedTypeOK' /\ CallTypeOK'
    BY <1>12 DEF WaitDrained, shared, counts, SharedTypeOK, CallTypeOK
  <2> QED BY <1>12, <1>p, <2>1, GotoType, FailType DEF WaitDrained, ForwardPcs
<1>13. CASE CasCopying(d)
  <2> DEFINE next == [exp[d] EXCEPT !.state = "COPYING", !.evPolicy = "PAUSE",
                                    !.evEpoch = bar[d]]
  <2>1. next \in Routes
    <3>1. exp[d] \in Routes /\ bar[d] \in Nat
      BY DEF LocalTypeOK
    <3> QED BY <3>1, PhaseRouteType
  <2>2. Cas(d, next, "COPYING", "casCommitting")
    BY <1>13 DEF CasCopying
  <2>3. route' \in Routes /\ LocalTypeOK'
    <3> HIDE DEF next
    <3> QED BY <1>p, <1>s, <2>1, <2>2, CasType DEF ForwardPcs, MovingStates
  <2> QED BY <1>13, <2>3 DEF CasCopying, counts, SharedTypeOK, CallTypeOK
<1>14. CASE CasCommitting(d)
  <2> DEFINE next == [exp[d] EXCEPT !.state = "COMMITTING"]
  <2>1. next \in Routes
    <3>1. exp[d] \in Routes /\ bar[d] \in Nat
      BY DEF LocalTypeOK
    <3> QED BY <3>1, PhaseRouteType
  <2>2. Cas(d, next, "COMMITTING", "commitOwner")
    BY <1>14 DEF CasCommitting
  <2>3. route' \in Routes /\ LocalTypeOK'
    <3> HIDE DEF next
    <3> QED BY <1>p, <1>s, <2>1, <2>2, CasType DEF ForwardPcs, MovingStates
  <2> QED BY <1>14, <2>3 DEF CasCommitting, counts, SharedTypeOK, CallTypeOK
<1>15. CASE CommitOwner(d)
  <2>1. bar[d] + 1 \in Nat /\ tgt[d] \in Cells \cup {NoCell}
    BY DEF LocalTypeOK
  <2>2. SharedTypeOK' /\ CallTypeOK'
    <3>1. fence' \in Fences
      BY <1>15, <2>1, FenceOpsType DEF CommitOwner, SharedTypeOK
    <3> QED BY <1>15, <3>1 DEF CommitOwner, counts, SharedTypeOK, CallTypeOK
  <2> QED BY <1>15, <1>p, <2>2, GotoType, FailType DEF CommitOwner, ForwardPcs
<1>16. CASE ResumeEvents(d)
  <2>1. bar[d] + 1 \in Nat
    BY DEF LocalTypeOK
  <2>2. SharedTypeOK' /\ CallTypeOK'
    <3>1. events' \in [policy : Policies, epoch : Nat]
      <4>1. WithPolicy(events, "NORMAL", bar[d] + 1) \in [policy : Policies, epoch : Nat]
        BY <2>1, PolicyType DEF SharedTypeOK, Policies
      <4> QED BY <1>16, <4>1 DEF ResumeEvents, SharedTypeOK
    <3> QED BY <1>16, <3>1 DEF ResumeEvents, counts, SharedTypeOK, CallTypeOK
  <2> QED BY <1>16, <1>p, <2>2, GotoType, FailType DEF ResumeEvents, ForwardPcs
<1>17. CASE CasActive(d)
  <2>1. bar[d] + 1 \in Nat /\ tgt[d] \in Cells \cup {NoCell}
    BY DEF LocalTypeOK
  <2>2. SharedTypeOK' /\ CallTypeOK'
    BY <1>17, <2>1, RestingType DEF CasActive, counts, SharedTypeOK, CallTypeOK
  <2>3. CASE /\ want' = [want EXCEPT ![d] = "ACTIVE"]
             /\ Goto(d, "reget")
             /\ UNCHANGED <<exp, bar, tgt, depth, err, ret>>
    BY <1>p, <1>s, <2>2, <2>3 DEF Goto, LocalTypeOK, ForwardPcs
  <2> QED BY <1>17, <2>2, <2>3, FailType, ReturnType DEF CasActive
<1>18. CASE RbGet(d)
  <2>1. SharedTypeOK' /\ CallTypeOK'
    BY <1>18 DEF RbGet, shared, counts, SharedTypeOK, CallTypeOK
  <2>2. CASE RollbackDone(d)
    BY <2>1, <2>2, RollbackDoneType
  <2>3. CASE /\ exp' = [exp EXCEPT ![d] = route]
             /\ Goto(d, "rbOwner")
             /\ UNCHANGED <<want, bar, tgt, depth, err, ret>>
    BY <1>p, <2>1, <2>3 DEF Goto, LocalTypeOK, SharedTypeOK, RollbackPcs
  <2> QED BY <1>18, <2>2, <2>3 DEF RbGet
<1>19. CASE RbOwner(d)
  <2>1. exp[d] \in Routes
    BY DEF LocalTypeOK
  <2>2. SharedTypeOK' /\ CallTypeOK'
    <3>1. fence' \in Fences
      BY <1>19, <2>1, FenceOpsType, RollbackType DEF RbOwner, SharedTypeOK
    <3> QED BY <1>19, <3>1 DEF RbOwner, counts, SharedTypeOK, CallTypeOK
  <2> QED BY <1>19, <1>p, <2>2, GotoType, FailType DEF RbOwner, RollbackPcs
<1>20. CASE RbEvents(d)
  <2>1. exp[d] \in Routes
    BY DEF LocalTypeOK
  <2>2. SharedTypeOK' /\ CallTypeOK'
    <3>1. events' \in [policy : Policies, epoch : Nat]
      <4>1. WithPolicy(events, "NORMAL", RollbackEpoch(exp[d])) \in [policy : Policies, epoch : Nat]
        BY <2>1, PolicyType, RollbackType DEF SharedTypeOK, Policies
      <4> QED BY <1>20, <4>1 DEF RbEvents, SharedTypeOK
    <3> QED BY <1>20, <3>1 DEF RbEvents, counts, SharedTypeOK, CallTypeOK
  <2> QED BY <1>20, <1>p, <2>2, GotoType, FailType DEF RbEvents, RollbackPcs
<1>21. CASE RbCas(d)
  <2>1. exp[d] \in Routes
    BY DEF LocalTypeOK
  <2>2. SharedTypeOK' /\ CallTypeOK'
    <3>1. /\ RollbackCell(exp[d]) \in Cells \cup {NoCell} /\ RollbackEpoch(exp[d]) \in Nat
          /\ Resting(RollbackCell(exp[d]), RollbackEpoch(exp[d])) \in Routes
      BY <2>1, RestingType, RollbackType
    <3> QED BY <1>21, <3>1 DEF RbCas, counts, SharedTypeOK, CallTypeOK
  <2> QED BY <1>21, <1>p, <2>2, GotoType, RollbackDoneType DEF RbCas, RollbackPcs
<1> QED BY <1>c, <1>f, <1>x, <1>1, <1>2, <1>3, <1>4, <1>5, <1>6, <1>7, <1>8, <1>9, <1>10,
           <1>11, <1>12, <1>13, <1>14, <1>15, <1>16, <1>17, <1>18, <1>19, <1>20, <1>21 DEF Step

LEMMA TypeInit == Init => TypeOK
BY ConstantsAssumption, ZeroRouteType
   DEF Init, TypeOK, SharedTypeOK, LocalTypeOK, CallTypeOK, NoFence, Fences, Policies,
       Pcs, States, RestingStates

(* TypeOK, and with it the bound of two open Rollback frames, holds of      *)
(* every controller, whatever its fencer and event barrier.                 *)
THEOREM TypeCorrect == Spec => []TypeOK
<1>1. TypeOK /\ [Next]_vars => TypeOK'
  BY TypeStep
<1> QED BY <1>1, TypeInit, PTL DEF Spec

-----------------------------------------------------------------------------
(* The safety of a move driven by any number of concurrent controllers over *)
(* a MemFencer, for every set of cells and drivers and every number of      *)
(* calls, faults and crashes, as long as the route is never deleted.        *)
(*                                                                          *)
(* IInv is inductive.  A step of driver d changes the shared state in one   *)
(* of few ways (Progress), which keep what every other driver remembers     *)
(* (OthersKeep); what remains per action is the shared invariant and the    *)
(* invariant of d itself.                                                   *)

(* How a step may change what other drivers depend on. *)
Progress ==
    /\ fence'.epoch >= fence.epoch
    /\ events'.epoch >= events.epoch
    /\ \/ route' = route
       \/ route.epoch = 0 /\ route'.epoch = 1
       \/ /\ route'.epoch = route.epoch
          /\ Rank(route'.state) > Rank(route.state)
          /\ route.state \in MovingStates =>
                route'.source = route.source /\ route'.target = route.target
       \/ route'.epoch = route.epoch + 2

SameLocals(x) ==
    /\ pc'[x] = pc[x] /\ plan'[x] = plan[x] /\ exp'[x] = exp[x]
    /\ want'[x] = want[x] /\ bar'[x] = bar[x] /\ tgt'[x] = tgt[x]

OthersSame(d) == \A x \in Drivers : x # d => SameLocals(x)

LEMMA RankFacts ==
    ASSUME NEW s \in States
    PROVE  /\ Rank(s) \in 0..4
           /\ s \in MovingStates <=> Rank(s) >= 1
BY DEF Rank, States, MovingStates, RestingStates

(* What a driver remembers stays true of the route under Progress. *)
LEMMA MemoryKept ==
    ASSUME IInv, TypeOK', Progress, NEW x \in Drivers,
           exp'[x] = exp[x], bar'[x] = bar[x], tgt'[x] = tgt[x]
    PROVE  ExpInv(x)' /\ BarInv(x)'
<1> USE DEF IInv
<1>t. /\ route \in Routes /\ route' \in Routes /\ exp[x] \in Routes
      /\ fence \in Fences /\ fence' \in Fences
      /\ events.epoch \in Nat /\ events'.epoch \in Nat /\ bar[x] \in Nat
  BY DEF TypeOK, SharedTypeOK, LocalTypeOK
<1>i. ExpInv(x) /\ BarInv(x)
  BY DEF DriverInv
<1>1. ExpInv(x)'
  <2> SUFFICES ASSUME exp[x] # ZeroRoute
               PROVE  ExpInv(x)'
    BY DEF ExpInv
  <2>1. /\ exp[x].epoch >= 1
        /\ exp[x].state \in MovingStates \cup {"ACTIVE"}
        /\ exp[x].state \in MovingStates =>
              /\ exp[x].source \in Cells /\ exp[x].target \in Cells
              /\ exp[x].barrier = exp[x].epoch + 1
    BY <1>i DEF ExpInv
  <2>2. /\ exp[x].epoch \in Nat /\ route.epoch \in Nat /\ route'.epoch \in Nat
        /\ exp[x].state \in States /\ route.state \in States /\ route'.state \in States
    BY <1>t DEF Routes
  <2>3. \/ exp[x].epoch + 2 <= route'.epoch
        \/ /\ exp[x].epoch = route'.epoch
           /\ Rank(exp[x].state) <= Rank(route'.state)
           /\ exp[x].state = route'.state => exp[x] = route'
           /\ exp[x].state \in MovingStates =>
                 exp[x].source = route'.source /\ exp[x].target = route'.target
    <3>1. CASE exp[x].epoch + 2 <= route.epoch
      BY <2>2, <3>1 DEF Progress
    <3>2. CASE /\ exp[x].epoch = route.epoch
               /\ Rank(exp[x].state) <= Rank(route.state)
               /\ exp[x].state = route.state => exp[x] = route
               /\ exp[x].state \in MovingStates =>
                     exp[x].source = route.source /\ exp[x].target = route.target
      <4>1. CASE route' = route
        BY <3>2, <4>1
      <4>2. CASE route'.epoch = route.epoch + 2 \/ route.epoch = 0
        BY <2>1, <2>2, <3>2, <4>2
      <4>3. CASE /\ route'.epoch = route.epoch
                 /\ Rank(route'.state) > Rank(route.state)
                 /\ route.state \in MovingStates =>
                       route'.source = route.source /\ route'.target = route.target
        BY <2>2, <3>2, <4>3, RankFacts
      <4> QED BY <4>1, <4>2, <4>3 DEF Progress
    <3> QED BY <1>i, <3>1, <3>2 DEF ExpInv
  <2> QED BY <2>1, <2>3 DEF ExpInv
<1>2. BarInv(x)'
  BY <1>i DEF BarInv
<1> QED BY <1>1, <1>2

LEMMA OthersKeep ==
    ASSUME IInv, TypeOK', Progress, NEW x \in Drivers, SameLocals(x)
    PROVE  DriverInv(x)'
<1>t. /\ route \in Routes /\ route' \in Routes /\ exp[x] \in Routes
      /\ fence \in Fences /\ fence' \in Fences
      /\ events.epoch \in Nat /\ events'.epoch \in Nat /\ bar[x] \in Nat
  BY DEF IInv, TypeOK, SharedTypeOK, LocalTypeOK
<1>i. PcInv(x)
  BY DEF DriverInv, IInv
<1>1. ExpInv(x)' /\ BarInv(x)'
  BY MemoryKept DEF SameLocals
<1>3. PcInv(x)'
  <2>1. /\ fence.epoch \in Nat /\ fence'.epoch \in Nat /\ exp[x].epoch \in Nat
        /\ fence'.epoch >= fence.epoch /\ events'.epoch >= events.epoch
    BY <1>t DEF Fences, Routes, Progress
  <2> QED BY <1>i, <1>t, <2>1 DEF PcInv, SameLocals
<1> QED BY <1>1, <1>3 DEF DriverInv

(* How the per-action facts combine. *)
LEMMA StepKeepsIInv ==
    ASSUME IInv, TypeOK', NEW d \in Drivers, OthersSame(d), Progress,
           SharedInv', DriverInv(d)', deletes' = 0
    PROVE  IInv'
<1>1. ASSUME NEW x \in Drivers PROVE DriverInv(x)'
  <2>1. CASE x = d
    BY <2>1
  <2>2. CASE x # d
    BY <2>2, OthersKeep DEF OthersSame
  <2> QED BY <2>1, <2>2
<1> QED BY <1>1 DEF IInv

(* A step that leaves the shared state alone. *)
LEMMA SharedSame ==
    ASSUME IInv, TypeOK, UNCHANGED shared
    PROVE  Progress /\ SharedInv'
<1>1. fence.epoch \in Nat /\ events.epoch \in Nat
  BY DEF TypeOK, SharedTypeOK, Fences
<1> QED BY <1>1 DEF IInv, shared, Progress, SharedInv, RouteInv, FenceInv, EventInv, HistoryInv,
           EpochNamesOneOwner

(* A driver whose phase locals are dropped has nothing to keep. *)
LEMMA DroppedInv ==
    ASSUME NEW d \in Drivers, exp'[d] = ZeroRoute, bar'[d] = 0, pc'[d] \in {"idle", "rbGet"}
    PROVE  DriverInv(d)'
BY DEF DriverInv, ExpInv, BarInv, PcInv, ForwardPcs

LEMMA ReturnInv ==
    ASSUME TypeOK, NEW d \in Drivers, NEW o, Return(d, o), UNCHANGED plan
    PROVE  DriverInv(d)' /\ OthersSame(d)
<1>1. exp'[d] = ZeroRoute /\ bar'[d] = 0 /\ pc'[d] = "idle"
  BY DEF Return, DropPhase, Goto, TypeOK, LocalTypeOK
<1>2. OthersSame(d)
  BY DEF Return, DropPhase, Goto, TypeOK, LocalTypeOK, OthersSame, SameLocals
<1> QED BY <1>1, <1>2, DroppedInv

LEMMA FailInv ==
    ASSUME TypeOK, NEW d \in Drivers, Fail(d), UNCHANGED plan
    PROVE  DriverInv(d)' /\ OthersSame(d)
<1>1. CASE depth[d] > 0
  <2>1. exp'[d] = ZeroRoute /\ bar'[d] = 0 /\ pc'[d] = "rbGet"
    BY <1>1 DEF Fail, DropPhase, Goto, TypeOK, LocalTypeOK
  <2>2. OthersSame(d)
    BY <1>1 DEF Fail, DropPhase, Goto, TypeOK, LocalTypeOK, OthersSame, SameLocals
  <2> QED BY <2>1, <2>2, DroppedInv
<1>2. CASE ~(depth[d] > 0)
  BY <1>2, ReturnInv DEF Fail
<1> QED BY <1>1, <1>2

LEMMA RollbackDoneInv ==
    ASSUME TypeOK, NEW d \in Drivers, RollbackDone(d), UNCHANGED plan
    PROVE  DriverInv(d)' /\ OthersSame(d)
BY FailInv, ReturnInv DEF RollbackDone

(* Remembering the route that is stored. *)
LEMMA FreshExp ==
    ASSUME TypeOK', RouteInv', NEW d \in Drivers, exp'[d] = route'
    PROVE  ExpInv(d)'
<1>1. route' \in Routes /\ route'.epoch \in Nat /\ route'.state \in States
  BY DEF TypeOK, SharedTypeOK, Routes
<1>2. Rank(route'.state) \in Nat
  BY <1>1, RankFacts
<1> QED BY <1>1, <1>2 DEF ExpInv, RouteInv, ZeroRoute

(* Entering continueMove on the stored route. *)
LEMMA ContinueInv ==
    ASSUME TypeOK, TypeOK', RouteInv', NEW d \in Drivers, route'.state \in MovingStates,
           Continue(d, route')
    PROVE  DriverInv(d)'
<1>1. /\ exp'[d] = route' /\ bar'[d] = route'.barrier /\ tgt'[d] = route'.target
      /\ pc'[d] = PhaseOf(route'.state)
  BY DEF Continue, Goto, TypeOK, LocalTypeOK
<1>2. ExpInv(d)'
  BY <1>1, FreshExp
<1>3. route'.epoch \in Nat /\ route'.epoch >= 1 /\ route'.barrier = route'.epoch + 1
  BY DEF RouteInv, TypeOK, SharedTypeOK, Routes, ZeroRoute, MovingStates
<1>4. BarInv(d)'
  BY <1>1, <1>3 DEF BarInv, RouteInv, ZeroRoute
<1>5. PcInv(d)'
  <2>1. bar'[d] # 0
    BY <1>1, <1>3
  <2>2. exp'[d].state = route'.state
    BY <1>1
  <2> QED BY <1>1, <2>1, <2>2 DEF PcInv, PhaseOf, MovingStates, ForwardPcs
<1> QED BY <1>2, <1>4, <1>5 DEF DriverInv

(* Installing an owner for the epoch after the current move, or again for   *)
(* the epoch the fence already has.                                         *)
LEMMA SetOwnerShared ==
    ASSUME IInv, TypeOK', FencerKind = "mem", NEW c, NEW e \in Nat, e >= fence.epoch,
           fence' = OwnedBy(fence, c, e), UNCHANGED <<route, events, rested>>,
           \/ e = route.epoch + 2 /\ route.state \in MovingStates
           \/ e <= route.epoch
           \/ e = 1 /\ route.epoch = 0
    PROVE  Progress /\ SharedInv' /\ fence'.epoch = e
<1>t. fence \in Fences /\ fence.epoch \in Nat /\ events.epoch \in Nat /\ route.epoch \in Nat
  BY DEF IInv, TypeOK, SharedTypeOK, Fences, Routes
<1>1. fence'.epoch = e /\ fence'.row /\ ~fence'.sealed
  BY <1>t DEF OwnedBy, Fences
<1>2. Progress
  BY <1>1, <1>t DEF Progress
<1>3. RouteInv' /\ EventInv' /\ HistoryInv'
  BY DEF IInv, SharedInv, RouteInv, EventInv, HistoryInv, EpochNamesOneOwner
<1>4. FenceInv'
  <2>1. FenceInv /\ route.state \in States /\ Rank(route.state) \in Nat
    BY RankFacts DEF IInv, SharedInv, TypeOK, SharedTypeOK, Routes
  <2>2. route.state = "ACTIVE" => ~(route.state \in MovingStates)
    BY DEF MovingStates
  <2> QED BY <1>1, <1>t, <2>1, <2>2 DEF FenceInv, IInv, SharedInv, RouteInv, ZeroRoute, MovingStates
<1> QED BY <1>1, <1>2, <1>3, <1>4 DEF SharedInv

(* Raising the publisher's epoch: to the epoch after the move, to the       *)
(* barrier epoch as PAUSE, or not beyond the route's.                       *)
LEMMA SetPolicyShared ==
    ASSUME IInv, TypeOK', NEW p, NEW e \in Nat, SetPolicyAccepts(events, e),
           events' = WithPolicy(events, p, e), UNCHANGED <<route, fence, rested>>,
           route.epoch >= 1,
           \/ e = route.epoch + 2
           \/ e = route.epoch + 1 /\ p = "PAUSE"
           \/ e <= route.epoch
    PROVE  Progress /\ SharedInv' /\ (HasEvents => events'.epoch = e)
<1>t. fence.epoch \in Nat /\ events.epoch \in Nat /\ route.epoch \in Nat
  BY DEF IInv, TypeOK, SharedTypeOK, Fences, Routes
<1>1. (HasEvents => events'.epoch = e /\ events'.policy = p) /\ (~HasEvents => events' = events)
  BY DEF WithPolicy
<1>2. Progress
  BY <1>1, <1>t DEF Progress, SetPolicyAccepts
<1>3. RouteInv' /\ FenceInv' /\ HistoryInv'
  BY DEF IInv, SharedInv, RouteInv, FenceInv, HistoryInv, EpochNamesOneOwner
<1>4. EventInv'
  <2>1. EventInv /\ route.state \in States /\ Rank(route.state) \in Nat
    BY RankFacts DEF IInv, SharedInv, TypeOK, SharedTypeOK, Routes
  <2>2. CASE HasEvents
    BY <1>1, <1>t, <2>1, <2>2 DEF EventInv, SetPolicyAccepts
  <2>3. CASE ~HasEvents
    BY <1>1, <2>1, <2>3 DEF EventInv
  <2> QED BY <2>2, <2>3
<1> QED BY <1>1, <1>2, <1>3, <1>4 DEF SharedInv

(* The table advances to the next phase of the same move. *)
LEMMA PhaseShared ==
    ASSUME IInv, TypeOK', UNCHANGED <<fence, events, rested>>,
           route.epoch >= 1, route'.epoch = route.epoch, route'.active = route.active,
           route'.state \in MovingStates, Rank(route'.state) = Rank(route.state) + 1,
           route'.source \in Cells, route'.target \in Cells, route'.source # route'.target,
           route'.barrier = route'.epoch + 1,
           route.state \in MovingStates =>
               route'.source = route.source /\ route'.target = route.target,
           Rank(route'.state) = 3 =>
               /\ fence.epoch >= route.epoch + 1
               /\ HasEvents => events.epoch >= route.epoch + 1
    PROVE  Progress /\ SharedInv'
<1>t. /\ fence.epoch \in Nat /\ events.epoch \in Nat /\ route.epoch \in Nat
      /\ route.state \in States /\ Rank(route.state) \in 0..4
  BY RankFacts DEF IInv, TypeOK, SharedTypeOK, Fences, Routes
<1>i. RouteInv /\ FenceInv /\ EventInv /\ HistoryInv
  BY DEF IInv, SharedInv
<1>1. Progress
  BY <1>t DEF Progress
<1>2. RouteInv'
  BY <1>t, <1>i DEF RouteInv, MovingStates
<1>3. FenceInv'
  BY <1>t, <1>i DEF FenceInv, MovingStates
<1>4. EventInv'
  BY <1>t, <1>i DEF EventInv
<1>5. HistoryInv'
  BY <1>i DEF HistoryInv, EpochNamesOneOwner
<1> QED BY <1>1, <1>2, <1>3, <1>4, <1>5 DEF SharedInv

(* The move is decided: the fence already has the new epoch. *)
LEMMA SettleShared ==
    ASSUME IInv, TypeOK', UNCHANGED <<fence, events>>, NEW c \in Cells,
           route.state \in MovingStates, fence.epoch >= route.epoch + 2,
           route' = Resting(c, route.epoch + 2),
           rested' = rested \cup {<<route.epoch + 2, c>>}
    PROVE  Progress /\ SharedInv'
<1>t. /\ fence.epoch \in Nat /\ events.epoch \in Nat /\ route.epoch \in Nat
      /\ rested \subseteq (Nat \X (Cells \cup {NoCell}))
  BY DEF IInv, TypeOK, SharedTypeOK, Fences, Routes
<1>i. RouteInv /\ FenceInv /\ EventInv /\ HistoryInv
  BY DEF IInv, SharedInv
<1>r. /\ route'.epoch = route.epoch + 2 /\ route'.state = "ACTIVE" /\ route'.active = c
      /\ route'.source = NoCell /\ route'.target = NoCell /\ Rank(route'.state) = 0
  BY DEF Resting, Rank
<1>1. Progress
  BY <1>t, <1>r DEF Progress
<1>2. RouteInv'
  BY <1>t, <1>r DEF RouteInv, MovingStates
<1>3. FenceInv'
  BY <1>t, <1>i, <1>r DEF FenceInv
<1>4. EventInv'
  BY <1>t, <1>i, <1>r DEF EventInv
<1>5. HistoryInv'
  <2>1. ASSUME NEW p \in rested' PROVE (p \in rested /\ p[1] <= route.epoch) \/ p = <<route.epoch + 2, c>>
    BY <1>i DEF HistoryInv
  <2>2. \A p \in rested : p[1] \in Nat
    BY <1>t
  <2> QED BY <1>t, <1>i, <1>r, <2>1, <2>2 DEF HistoryInv, EpochNamesOneOwner
<1> QED BY <1>1, <1>2, <1>3, <1>4, <1>5 DEF SharedInv

(* The tenant is placed for the first time, its fence installed before. *)
LEMMA PlaceShared ==
    ASSUME IInv, TypeOK', UNCHANGED <<fence, events>>, NEW c \in Cells,
           route = ZeroRoute, fence.epoch >= 1,
           route' = Resting(c, 1), rested' = rested \cup {<<1, c>>}
    PROVE  Progress /\ SharedInv'
<1>t. /\ fence.epoch \in Nat /\ events.epoch \in Nat /\ route.epoch = 0
      /\ rested \subseteq (Nat \X (Cells \cup {NoCell}))
  BY DEF IInv, TypeOK, SharedTypeOK, Fences, ZeroRoute
<1>i. RouteInv /\ FenceInv /\ EventInv /\ HistoryInv
  BY DEF IInv, SharedInv
<1>r. /\ route'.epoch = 1 /\ route'.state = "ACTIVE" /\ route'.active = c
      /\ route'.source = NoCell /\ route'.target = NoCell /\ Rank(route'.state) = 0
  BY DEF Resting, Rank
<1>1. Progress
  BY <1>t, <1>r DEF Progress
<1>2. RouteInv'
  BY <1>t, <1>r DEF RouteInv, MovingStates
<1>z. Rank(route.state) = 0
  BY DEF ZeroRoute, Rank
<1>3. FenceInv'
  BY <1>t, <1>i, <1>r, <1>z DEF FenceInv
<1>4. EventInv'
  BY <1>t, <1>i, <1>r DEF EventInv
<1>5. HistoryInv'
  <2>1. \A p \in rested : p[1] \in Nat /\ p[1] <= 0
    BY <1>t, <1>i DEF HistoryInv
  <2> QED BY <1>t, <1>i, <1>r, <2>1 DEF HistoryInv, EpochNamesOneOwner
<1> QED BY <1>1, <1>2, <1>3, <1>4, <1>5 DEF SharedInv

LEMMA GotoFacts ==
    ASSUME TypeOK, NEW d \in Drivers, NEW l, Goto(d, l), UNCHANGED <<plan, local, ret>>
    PROVE  /\ OthersSame(d) /\ pc'[d] = l
           /\ exp'[d] = exp[d] /\ bar'[d] = bar[d] /\ tgt'[d] = tgt[d]
           /\ want'[d] = want[d] /\ plan'[d] = plan[d]
BY DEF Goto, local, TypeOK, LocalTypeOK, OthersSame, SameLocals

(* What a step of driver d has to establish. *)
Good(d) == OthersSame(d) /\ Progress /\ SharedInv' /\ DriverInv(d)'

(* The types of what driver d reads. *)
LEMMA ReadTypes ==
    ASSUME TypeOK, NEW d \in Drivers
    PROVE  /\ route \in Routes /\ route.epoch \in Nat /\ route.state \in States
           /\ fence \in Fences /\ fence.epoch \in Nat /\ events.epoch \in Nat
           /\ exp[d] \in Routes /\ exp[d].epoch \in Nat /\ exp[d].state \in States
           /\ bar[d] \in Nat
BY DEF TypeOK, SharedTypeOK, LocalTypeOK, Fences, Routes

(* A step that touches no shared state and ends, or fails, the call. *)
LEMMA QuietFail ==
    ASSUME IInv, TypeOK, NEW d \in Drivers, UNCHANGED shared, UNCHANGED plan,
           Fail(d) \/ RollbackDone(d) \/ \E o \in {"ok", "err", "none"} : Return(d, o)
    PROVE  Good(d)
<1>1. DriverInv(d)' /\ OthersSame(d)
  BY FailInv, RollbackDoneInv, ReturnInv
<1> QED BY <1>1, SharedSame DEF Good

(* A step that moves d on and keeps what it remembers. *)
LEMMA Advance ==
    ASSUME IInv, TypeOK, TypeOK', NEW d \in Drivers, NEW l, Goto(d, l),
           UNCHANGED <<plan, local, ret>>, Progress, SharedInv', PcInv(d)'
    PROVE  Good(d)
<1>1. OthersSame(d) /\ exp'[d] = exp[d] /\ bar'[d] = bar[d] /\ tgt'[d] = tgt[d]
  BY GotoFacts
<1>2. ExpInv(d)' /\ BarInv(d)'
  BY <1>1, MemoryKept
<1> QED BY <1>1, <1>2 DEF Good, DriverInv

(* The facts of the invariant about driver d. *)
LEMMA ReadInv ==
    ASSUME IInv, NEW d \in Drivers
    PROVE  /\ ExpInv(d) /\ BarInv(d) /\ PcInv(d)
           /\ TypeOK /\ RouteInv /\ FenceInv /\ EventInv /\ HistoryInv
BY DEF IInv, DriverInv, SharedInv

-----------------------------------------------------------------------------
(* The calls and the steps that only read. *)

LEMMA CallInv ==
    ASSUME IInv, TypeOK', NEW d \in Drivers, Call(d)
    PROVE  Good(d)
<1> SUFFICES ASSUME NEW l, NEW from, NEW to, StartCall(d, l, from, to),
                    \/ l \in {"resumeGet", "rbGet"}
                    \/ l = "moveGet" /\ from \in Cells /\ to \in Cells /\ from # to
                    \/ l = "assignGet" /\ to \in Cells
             PROVE  Good(d)
  BY DEF Call, CallMove, CallResume, CallRollback, CallAssign
<1>T. TypeOK /\ PcInv(d)
  BY ReadInv
<1>1. /\ OthersSame(d) /\ UNCHANGED shared
      /\ pc'[d] = l /\ plan'[d] = [from |-> from, to |-> to]
      /\ exp'[d] = exp[d] /\ bar'[d] = bar[d] /\ tgt'[d] = tgt[d]
  BY <1>T DEF StartCall, Goto, local, TypeOK, LocalTypeOK, CallTypeOK, OthersSame, SameLocals
<1>2. Progress /\ SharedInv'
  BY <1>T, <1>1, SharedSame
<1>3. ExpInv(d)' /\ BarInv(d)'
  BY <1>1, <1>2, MemoryKept
<1>4. bar[d] = 0
  BY <1>T DEF PcInv, StartCall, ForwardPcs
<1>5. PcInv(d)'
  BY <1>1, <1>4 DEF PcInv
<1> QED BY <1>1, <1>2, <1>3, <1>5 DEF DriverInv, Good

LEMMA FaultInv ==
    ASSUME IInv, NEW d \in Drivers, Fault(d) \/ Crash(d)
    PROVE  Good(d)
BY ReadInv, QuietFail DEF Fault, Crash, shared

(* resumeFrom on the stored route. *)
LEMMA ResumeFromInv ==
    ASSUME IInv, TypeOK', NEW d \in Drivers, NEW k, ResumeFrom(d, route, k),
           UNCHANGED <<shared, plan>>, pc[d] \in CallPcs
    PROVE  Good(d)
<1>T. TypeOK /\ PcInv(d) /\ RouteInv
  BY ReadInv
<1>S. UNCHANGED shared /\ UNCHANGED plan /\ UNCHANGED route
  BY DEF shared
<1>P. Progress /\ SharedInv'
  BY <1>T, <1>S, SharedSame
<1>1. CASE \E o \in {"ok", "err", "none"} : Return(d, o)
  BY <1>1, <1>T, <1>S, QuietFail
<1>2. CASE Goto(d, "rbGet") /\ UNCHANGED <<exp, want, bar, tgt, err, ret>>
  <2>1. /\ OthersSame(d) /\ pc'[d] = "rbGet"
        /\ exp'[d] = exp[d] /\ bar'[d] = bar[d] /\ tgt'[d] = tgt[d]
    BY <1>2, <1>T, <1>S DEF Goto, TypeOK, LocalTypeOK, OthersSame, SameLocals
  <2>2. ExpInv(d)' /\ BarInv(d)'
    BY <1>P, <2>1, MemoryKept
  <2>3. PcInv(d)'
    BY <1>T, <2>1 DEF PcInv, CallPcs, ForwardPcs
  <2> QED BY <1>P, <2>1, <2>2, <2>3 DEF Good, DriverInv
<1>3. CASE route.state \in MovingStates /\ Continue(d, route) /\ UNCHANGED <<want, err, ret>>
  <2>1. OthersSame(d)
    BY <1>3, <1>T, <1>S DEF Continue, Goto, TypeOK, LocalTypeOK, OthersSame, SameLocals
  <2>2. RouteInv' /\ route'.state \in MovingStates /\ Continue(d, route')
    BY <1>3, <1>P, <1>S DEF SharedInv
  <2>3. DriverInv(d)'
    BY <1>T, <2>2, ContinueInv
  <2> QED BY <1>P, <2>1, <2>3 DEF Good
<1> QED BY <1>1, <1>2, <1>3 DEF ResumeFrom

LEMMA MoveGetInv ==
    ASSUME IInv, TypeOK', NEW d \in Drivers, MoveGet(d)
    PROVE  Good(d)
<1>T. TypeOK /\ PcInv(d) /\ RouteInv
  BY ReadInv
<1>S. UNCHANGED shared /\ UNCHANGED plan /\ UNCHANGED route
  BY DEF MoveGet, shared
<1>1. CASE \E o \in {"ok", "err", "none"} : Return(d, o)
  BY <1>1, <1>T, <1>S, QuietFail
<1>2. CASE /\ route # ZeroRoute /\ AdmitsNew(route.state) /\ Goto(d, "begin")
           /\ exp' = [exp EXCEPT ![d] = route] /\ UNCHANGED <<want, bar, tgt, err, ret>>
  <2>P. Progress /\ SharedInv'
    BY <1>T, <1>S, SharedSame
  <2>1. /\ OthersSame(d) /\ pc'[d] = "begin" /\ exp'[d] = route' /\ bar'[d] = 0
        /\ plan'[d] = plan[d] /\ pc[d] = "moveGet"
    BY <1>2, <1>T, <1>S
       DEF Goto, TypeOK, LocalTypeOK, OthersSame, SameLocals, PcInv, ForwardPcs, MoveGet
  <2>2. ExpInv(d)'
    BY <2>P, <2>1, FreshExp DEF SharedInv
  <2>3. BarInv(d)'
    BY <2>1 DEF BarInv
  <2>4. route.state = "ACTIVE"
    BY <1>2, <1>T, ReadTypes DEF RouteInv, AdmitsNew, RestingStates, MovingStates
  <2>5. PcInv(d)'
    BY <1>T, <1>S, <2>1, <2>4 DEF PcInv
  <2> QED BY <2>P, <2>1, <2>2, <2>3, <2>5 DEF Good, DriverInv
<1>3. CASE ResumeFrom(d, route, 1)
  BY <1>3, <1>S, ResumeFromInv DEF MoveGet, CallPcs
<1> QED BY <1>1, <1>2, <1>3 DEF MoveGet

LEMMA ResumeGetInv ==
    ASSUME IInv, TypeOK', NEW d \in Drivers, ResumeGet(d)
    PROVE  Good(d)
BY ResumeFromInv DEF ResumeGet, CallPcs

LEMMA AssignGetInv ==
    ASSUME IInv, TypeOK', NEW d \in Drivers, AssignGet(d)
    PROVE  Good(d)
<1>T. TypeOK /\ PcInv(d) /\ RouteInv
  BY ReadInv
<1>S. UNCHANGED shared /\ UNCHANGED route
  BY DEF AssignGet, shared
<1>P. Progress /\ SharedInv'
  BY <1>T, <1>S, SharedSame
<1>1. CASE UNCHANGED plan /\ \E o \in {"ok", "err", "none"} : Return(d, o)
  BY <1>1, <1>T, <1>S, QuietFail
<1>2. CASE Goto(d, "assignOwner") /\ UNCHANGED <<plan, local, ret>>
  <2>1. PcInv(d)'
    BY <1>2, <1>T, <1>S, GotoFacts DEF PcInv, AssignGet, ForwardPcs
  <2> QED BY <1>2, <1>P, <1>T, <2>1, Advance
<1>3. CASE /\ route # ZeroRoute /\ route.active # plan[d].to
           /\ Goto(d, "moveGet") /\ plan' = [plan EXCEPT ![d].from = route.active]
           /\ UNCHANGED <<local, ret>>
  <2>1. /\ OthersSame(d) /\ pc'[d] = "moveGet" /\ exp'[d] = exp[d] /\ bar'[d] = bar[d]
        /\ tgt'[d] = tgt[d] /\ plan'[d] = [plan[d] EXCEPT !.from = route.active]
    BY <1>3, <1>T DEF Goto, local, TypeOK, LocalTypeOK, CallTypeOK, OthersSame, SameLocals
  <2>2. ExpInv(d)' /\ BarInv(d)'
    BY <1>P, <2>1, MemoryKept
  <2>3. plan'[d].from = route.active /\ plan'[d].to = plan[d].to
    BY <1>T, <2>1 DEF TypeOK, CallTypeOK
  <2>4. route.active \in Cells
    BY <1>3, <1>T, ReadTypes DEF RouteInv
  <2>5. PcInv(d)'
    BY <1>3, <1>T, <2>1, <2>3, <2>4 DEF PcInv, AssignGet, ForwardPcs
  <2> QED BY <1>P, <2>1, <2>2, <2>5 DEF Good, DriverInv
<1> QED BY <1>1, <1>2, <1>3 DEF AssignGet

LEMMA AssignOwnerInv ==
    ASSUME IInv, TypeOK', FencerKind = "mem", NEW d \in Drivers, AssignOwner(d)
    PROVE  Good(d)
<1>T. TypeOK /\ PcInv(d) /\ RouteInv /\ FenceInv
  BY ReadInv
<1>1. CASE Fail(d) /\ UNCHANGED fence
  BY <1>1, <1>T, QuietFail DEF AssignOwner, shared
<1>2. CASE /\ SetOwnerAccepts(fence, 1) /\ fence' = OwnedBy(fence, plan[d].to, 1)
           /\ Goto(d, "assignCas") /\ UNCHANGED <<local, ret>>
  <2>1. 1 >= fence.epoch
    BY <1>2 DEF SetOwnerAccepts
  <2>2. Progress /\ SharedInv' /\ fence'.epoch = 1
    BY <1>2, <2>1, <1>T, ReadTypes, SetOwnerShared DEF AssignOwner
  <2>3. PcInv(d)'
    BY <1>2, <2>2, <1>T, GotoFacts DEF PcInv, AssignOwner, ForwardPcs
  <2> QED BY <1>2, <2>2, <2>3, <1>T, Advance DEF AssignOwner
<1> QED BY <1>1, <1>2 DEF AssignOwner

LEMMA AssignCasInv ==
    ASSUME IInv, TypeOK', NEW d \in Drivers, AssignCas(d)
    PROVE  Good(d)
<1>T. TypeOK /\ PcInv(d) /\ RouteInv
  BY ReadInv
<1>1. CASE /\ Matches(route, ZeroRoute) /\ route' = Resting(plan[d].to, 1)
           /\ rested' = rested \cup {<<1, plan[d].to>>} /\ Return(d, "ok")
  <2>1. route = ZeroRoute /\ fence.epoch >= 1 /\ plan[d].to \in Cells
    BY <1>1, <1>T DEF Matches, RouteInv, ZeroRoute, PcInv, AssignCas
  <2>2. Progress /\ SharedInv'
    BY <1>1, <2>1, PlaceShared DEF AssignCas
  <2> QED BY <1>1, <1>T, <2>2, ReturnInv DEF AssignCas, Good
<1>2. CASE Goto(d, "assignGet") /\ UNCHANGED <<route, rested, local, ret>>
  <2>1. UNCHANGED shared /\ UNCHANGED <<plan, local, ret>>
    BY <1>2 DEF AssignCas, shared
  <2>2. Progress /\ SharedInv'
    BY <1>T, <2>1, SharedSame
  <2>3. PcInv(d)'
    BY <1>2, <2>1, <1>T, GotoFacts DEF PcInv, AssignCas, ForwardPcs
  <2> QED BY <1>2, <2>1, <2>2, <2>3, <1>T, Advance
<1> QED BY <1>1, <1>2 DEF AssignCas

-----------------------------------------------------------------------------
(* The phases of continueMove. *)

(* A CAS that lost: d remembers what it wanted and re-reads. *)
LEMMA ConflictInv ==
    ASSUME IInv, TypeOK', NEW d \in Drivers, UNCHANGED shared, UNCHANGED plan,
           NEW s \in MovingStates \cup {"ACTIVE"}, exp[d] # ZeroRoute,
           s # "QUIESCING" => bar[d] # 0 /\ exp[d].state \in MovingStates,
           want' = [want EXCEPT ![d] = s], Goto(d, "reget"),
           UNCHANGED <<exp, bar, tgt>>
    PROVE  Good(d)
<1>T. TypeOK
  BY ReadInv
<1>P. Progress /\ SharedInv'
  BY <1>T, SharedSame
<1>1. /\ OthersSame(d) /\ pc'[d] = "reget" /\ want'[d] = s
      /\ exp'[d] = exp[d] /\ bar'[d] = bar[d] /\ tgt'[d] = tgt[d]
  BY <1>T DEF Goto, TypeOK, LocalTypeOK, OthersSame, SameLocals
<1>2. ExpInv(d)' /\ BarInv(d)'
  BY <1>P, <1>1, MemoryKept
<1>3. PcInv(d)'
  BY <1>1 DEF PcInv, ForwardPcs
<1> QED BY <1>P, <1>1, <1>2, <1>3 DEF Good, DriverInv

(* A driver whose remembered epoch and state match remembers the route. *)
LEMMA MatchIsRoute ==
    ASSUME IInv, NEW d \in Drivers, exp[d] # ZeroRoute, Matches(route, exp[d])
    PROVE  exp[d] = route
<1>1. ExpInv(d) /\ exp[d].epoch \in Nat /\ route.epoch \in Nat
  BY ReadInv, ReadTypes
<1> QED BY <1>1 DEF ExpInv, Matches

LEMMA BeginInv ==
    ASSUME IInv, TypeOK', NEW d \in Drivers, Begin(d)
    PROVE  Good(d)
<1> DEFINE next == Quiescing(exp[d], plan[d].from, plan[d].to)
<1>T. TypeOK /\ PcInv(d) /\ RouteInv /\ ExpInv(d)
  BY ReadInv
<1>p. /\ exp[d].state = "ACTIVE" /\ pc[d] = "begin"
      /\ plan[d].from \in Cells /\ plan[d].to \in Cells /\ plan[d].from # plan[d].to
  BY <1>T DEF Begin, PcInv
<1>z. exp[d] # ZeroRoute
  BY <1>p DEF ZeroRoute
<1>1. CASE /\ ~Matches(route, exp[d]) /\ want' = [want EXCEPT ![d] = "QUIESCING"]
           /\ Goto(d, "reget") /\ UNCHANGED <<route, exp, bar, tgt, depth, err, ret>>
  <2>1. UNCHANGED shared /\ UNCHANGED plan /\ UNCHANGED <<exp, bar, tgt>>
    BY <1>1 DEF Begin, shared
  <2> QED BY <1>1, <1>z, <2>1, ConflictInv DEF MovingStates
<1>2. CASE /\ Matches(route, exp[d]) /\ route' = next
           /\ Continue(d, next) /\ UNCHANGED <<want, depth, err, ret>>
  <2>1. exp[d] = route
    BY <1>2, <1>z, MatchIsRoute
  <2>2. /\ next.epoch = route.epoch /\ next.active = route.active /\ next.state = "QUIESCING"
        /\ next.source = plan[d].from /\ next.target = plan[d].to
        /\ next.barrier = route.epoch + 1
    BY <1>T, <2>1, ReadTypes DEF Quiescing, Routes
  <2>3. Rank(route.state) = 0 /\ Rank(next.state) = 1 /\ route.epoch >= 1
    BY <1>T, <1>p, <1>z, <2>1, <2>2 DEF Rank, ExpInv
  <2>4. "QUIESCING" \in MovingStates /\ route.state \notin MovingStates
    BY <1>p, <2>1 DEF MovingStates
  <2> HIDE DEF next
  <2>5. Progress /\ SharedInv'
    BY <1>2, <1>p, <2>2, <2>3, <2>4, PhaseShared DEF Begin
  <2>6. OthersSame(d)
    BY <1>2, <1>T DEF Begin, Continue, Goto, TypeOK, LocalTypeOK, OthersSame, SameLocals
  <2>7. DriverInv(d)'
    BY <1>2, <1>T, <2>2, <2>4, <2>5, ContinueInv DEF SharedInv
  <2> QED BY <2>5, <2>6, <2>7 DEF Good
<1> QED BY <1>1, <1>2 DEF Begin

(* The CASes that advance the phase: next is the remembered route with a    *)
(* later state s, and l is where continueMove goes on.                      *)
LEMMA PhaseCasInv ==
    ASSUME IInv, TypeOK', NEW d \in Drivers, NEW next, NEW s, NEW l,
           <<s, l>> \in {<<"DRAINING", "seal">>, <<"COPYING", "casCommitting">>,
                         <<"COMMITTING", "commitOwner">>},
           exp[d].state \in MovingStates, Rank(s) = Rank(exp[d].state) + 1, bar[d] # 0,
           next.state = s, next.epoch = exp[d].epoch, next.active = exp[d].active,
           next.source = exp[d].source, next.target = exp[d].target,
           next.barrier = exp[d].barrier,
           s = "COPYING" /\ exp[d] = route =>
               /\ fence.epoch >= route.epoch + 1
               /\ HasEvents => events.epoch >= route.epoch + 1,
           Cas(d, next, s, l), UNCHANGED <<fence, events, rested, plan>>
    PROVE  Good(d)
<1>T. TypeOK /\ BarInv(d) /\ RouteInv /\ ExpInv(d)
  BY ReadInv
<1>z. exp[d] # ZeroRoute /\ s \in MovingStates /\ s # "QUIESCING"
  BY DEF ZeroRoute, MovingStates
<1>e. exp[d].epoch \in Nat /\ route.epoch \in Nat
  BY <1>T, ReadTypes
<1>1. CASE /\ ~Matches(route, exp[d]) /\ want' = [want EXCEPT ![d] = s]
           /\ Goto(d, "reget") /\ UNCHANGED <<route, exp, bar, tgt, depth, err, ret>>
  <2>1. UNCHANGED shared /\ UNCHANGED plan /\ UNCHANGED <<exp, bar, tgt>>
    BY <1>1 DEF shared
  <2> QED BY <1>1, <1>z, <2>1, ConflictInv
<1>2. CASE /\ Matches(route, exp[d]) /\ route' = next /\ exp' = [exp EXCEPT ![d] = next]
           /\ Goto(d, l) /\ UNCHANGED <<want, bar, tgt, depth, err, ret>>
  <2>1. exp[d] = route
    BY <1>2, <1>z, MatchIsRoute
  <2>2. route.epoch >= 1
    BY <1>T, <1>z, <2>1 DEF ExpInv
  <2>3. /\ route.source \in Cells /\ route.target \in Cells /\ route.source # route.target
        /\ route.barrier = route.epoch + 1
    BY <1>T, <2>1 DEF RouteInv
  <2>4. Rank(s) = 3 => s = "COPYING"
    BY DEF Rank
  <2>5. Progress /\ SharedInv'
    BY <1>2, <1>z, <2>1, <2>2, <2>3, <2>4, PhaseShared
  <2>6. /\ OthersSame(d) /\ exp'[d] = route' /\ bar'[d] = bar[d] /\ tgt'[d] = tgt[d]
        /\ pc'[d] = l
    BY <1>2, <1>T DEF Goto, TypeOK, LocalTypeOK, OthersSame, SameLocals
  <2>7. ExpInv(d)'
    BY <2>5, <2>6, FreshExp DEF SharedInv
  <2>8. BarInv(d)'
    BY <1>2, <1>T, <1>z, <2>1, <2>6 DEF BarInv, ZeroRoute, MovingStates
  <2>9. PcInv(d)'
    BY <1>2, <2>6 DEF PcInv, ForwardPcs
  <2> QED BY <2>5, <2>6, <2>7, <2>8, <2>9 DEF Good, DriverInv
<1>3. CASE Matches(route, exp[d]) /\ next.epoch < route.epoch
  BY <1>3, <1>e DEF Matches
<1> QED BY <1>1, <1>2, <1>3 DEF Cas

LEMMA CasDrainingInv ==
    ASSUME IInv, TypeOK', NEW d \in Drivers, CasDraining(d)
    PROVE  Good(d)
<1> DEFINE next == [exp[d] EXCEPT !.state = "DRAINING"]
<1>1. exp[d].state = "QUIESCING" /\ bar[d] # 0 /\ exp[d] \in Routes
  BY ReadInv, ReadTypes DEF PcInv, CasDraining
<1>2. /\ next.state = "DRAINING" /\ next.epoch = exp[d].epoch
      /\ next.active = exp[d].active /\ next.source = exp[d].source
      /\ next.target = exp[d].target /\ next.barrier = exp[d].barrier
  BY <1>1 DEF Routes
<1>3. Cas(d, next, "DRAINING", "seal") /\ UNCHANGED <<fence, events, rested, plan>>
  BY DEF CasDraining
<1>4. Rank("DRAINING") = Rank(exp[d].state) + 1 /\ exp[d].state \in MovingStates
  BY <1>1 DEF Rank, MovingStates
<1> HIDE DEF next
<1> QED BY <1>1, <1>2, <1>3, <1>4, PhaseCasInv

LEMMA CasCopyingInv ==
    ASSUME IInv, TypeOK', NEW d \in Drivers, CasCopying(d)
    PROVE  Good(d)
<1> DEFINE next == [exp[d] EXCEPT !.state = "COPYING", !.evPolicy = "PAUSE", !.evEpoch = bar[d]]
<1>1. /\ exp[d].state = "DRAINING" /\ bar[d] # 0 /\ exp[d] \in Routes
      /\ bar[d] = exp[d].epoch + 1 /\ fence.epoch >= bar[d]
      /\ HasEvents => events.epoch >= bar[d]
  BY ReadInv, ReadTypes DEF PcInv, CasCopying
<1>2. /\ next.state = "COPYING" /\ next.epoch = exp[d].epoch
      /\ next.active = exp[d].active /\ next.source = exp[d].source
      /\ next.target = exp[d].target /\ next.barrier = exp[d].barrier
  BY <1>1 DEF Routes
<1>3. Cas(d, next, "COPYING", "casCommitting") /\ UNCHANGED <<fence, events, rested, plan>>
  BY DEF CasCopying
<1>4. Rank("COPYING") = Rank(exp[d].state) + 1 /\ exp[d].state \in MovingStates
  BY <1>1 DEF Rank, MovingStates
<1> HIDE DEF next
<1> QED BY <1>1, <1>2, <1>3, <1>4, PhaseCasInv

LEMMA CasCommittingInv ==
    ASSUME IInv, TypeOK', NEW d \in Drivers, CasCommitting(d)
    PROVE  Good(d)
<1> DEFINE next == [exp[d] EXCEPT !.state = "COMMITTING"]
<1>1. exp[d].state = "COPYING" /\ bar[d] # 0 /\ exp[d] \in Routes
  BY ReadInv, ReadTypes DEF PcInv, CasCommitting
<1>2. /\ next.state = "COMMITTING" /\ next.epoch = exp[d].epoch
      /\ next.active = exp[d].active /\ next.source = exp[d].source
      /\ next.target = exp[d].target /\ next.barrier = exp[d].barrier
  BY <1>1 DEF Routes
<1>3. Cas(d, next, "COMMITTING", "commitOwner") /\ UNCHANGED <<fence, events, rested, plan>>
  BY DEF CasCommitting
<1>4. Rank("COMMITTING") = Rank(exp[d].state) + 1 /\ exp[d].state \in MovingStates
  BY <1>1 DEF Rank, MovingStates
<1> HIDE DEF next
<1> QED BY <1>1, <1>2, <1>3, <1>4, PhaseCasInv

LEMMA RegetInv ==
    ASSUME IInv, TypeOK', NEW d \in Drivers, Reget(d)
    PROVE  Good(d)
<1>T. TypeOK /\ PcInv(d) /\ RouteInv /\ ExpInv(d) /\ BarInv(d)
  BY ReadInv
<1>S. UNCHANGED shared /\ UNCHANGED plan /\ UNCHANGED route
  BY DEF Reget, shared
<1>P. Progress /\ SharedInv'
  BY <1>T, <1>S, SharedSame
<1>p. /\ pc[d] = "reget" /\ exp[d] # ZeroRoute
      /\ want[d] # "QUIESCING" => bar[d] # 0 /\ exp[d].state \in MovingStates
  BY <1>T DEF Reget, PcInv
<1>1. CASE Fail(d) \/ Return(d, "ok")
  BY <1>1, <1>T, <1>S, QuietFail
<1>2. CASE /\ StepLanded(d) /\ want[d] = "QUIESCING" /\ Continue(d, route)
           /\ want' = [want EXCEPT ![d] = "UNKNOWN"]
  <2>1. OthersSame(d)
    BY <1>2, <1>T, <1>S DEF Continue, Goto, TypeOK, LocalTypeOK, OthersSame, SameLocals
  <2>2. RouteInv' /\ route'.state \in MovingStates /\ Continue(d, route')
    BY <1>2, <1>P, <1>S DEF SharedInv, StepLanded, MovingStates
  <2>3. DriverInv(d)'
    BY <1>T, <2>2, ContinueInv
  <2> QED BY <1>P, <2>1, <2>3 DEF Good
<1>3. CASE /\ StepLanded(d) /\ want[d] \in {"DRAINING", "COPYING", "COMMITTING"}
           /\ Goto(d, PhaseOf(route.state)) /\ exp' = [exp EXCEPT ![d] = route]
           /\ want' = [want EXCEPT ![d] = "UNKNOWN"] /\ UNCHANGED <<bar, tgt, depth, err, ret>>
  <2>1. /\ OthersSame(d) /\ exp'[d] = route' /\ bar'[d] = bar[d] /\ tgt'[d] = tgt[d]
        /\ pc'[d] = PhaseOf(route.state)
    BY <1>3, <1>T, <1>S DEF Goto, TypeOK, LocalTypeOK, OthersSame, SameLocals
  <2>2. ExpInv(d)'
    BY <1>P, <2>1, FreshExp DEF SharedInv
  <2>3. /\ bar[d] # 0 /\ exp[d].state \in MovingStates
        /\ route.state \in {"DRAINING", "COPYING", "COMMITTING"}
    BY <1>3, <1>p DEF StepLanded
  <2>4. BarInv(d)'
    <3>1. exp[d].epoch \in Nat /\ route.epoch \in Nat /\ bar[d] \in Nat
      BY <1>T, ReadTypes
    <3>2. route' # ZeroRoute
      BY <1>S, <2>3 DEF ZeroRoute
    <3>3. bar[d] + 1 <= route.epoch \/ (bar[d] = route.epoch + 1 /\ tgt[d] = route.target)
      <4>1. bar[d] + 1 <= exp[d].epoch \/ (bar[d] = exp[d].epoch + 1 /\ tgt[d] = exp[d].target)
        BY <1>T, <2>3 DEF BarInv
      <4>2. \/ exp[d].epoch + 2 <= route.epoch
            \/ exp[d].epoch = route.epoch /\ exp[d].target = route.target
        BY <1>T, <1>p, <2>3 DEF ExpInv
      <4> QED BY <3>1, <4>1, <4>2
    <3>4. bar[d] >= 2 /\ tgt[d] \in Cells
      BY <1>T, <2>3 DEF BarInv
    <3>5. exp'[d] = route /\ route # ZeroRoute
      BY <1>S, <2>1, <3>2
    <3> QED BY <2>1, <3>3, <3>4, <3>5 DEF BarInv
  <2>5. PcInv(d)'
    <3>1. /\ route.state = "DRAINING" => pc'[d] = "seal"
          /\ route.state = "COPYING" => pc'[d] = "casCommitting"
          /\ route.state = "COMMITTING" => pc'[d] = "commitOwner"
      BY <2>1 DEF PhaseOf
    <3> QED BY <1>S, <2>1, <2>3, <3>1 DEF PcInv, ForwardPcs
  <2> QED BY <1>P, <2>1, <2>2, <2>4, <2>5 DEF Good, DriverInv
<1> QED BY <1>1, <1>2, <1>3 DEF Reget

LEMMA DrainInv ==
    ASSUME IInv, TypeOK', NEW d \in Drivers, Drain(d) \/ WaitDrained(d)
    PROVE  Good(d)
<1>T. TypeOK /\ PcInv(d)
  BY ReadInv
<1>S. UNCHANGED shared /\ UNCHANGED plan
  BY DEF Drain, WaitDrained
<1>P. Progress /\ SharedInv'
  BY <1>T, <1>S, SharedSame
<1>1. CASE Fail(d)
  BY <1>1, <1>T, <1>S, QuietFail
<1>2. CASE pc[d] = "drain" /\ Goto(d, "casDraining") /\ UNCHANGED <<local, ret>>
  <2>1. PcInv(d)'
    BY <1>2, <1>T, <1>S, GotoFacts DEF PcInv, ForwardPcs
  <2> QED BY <1>2, <1>P, <1>S, <1>T, <2>1, Advance
<1>3. CASE pc[d] = "waitDrained" /\ Goto(d, "casCopying") /\ UNCHANGED <<local, ret>>
  <2>1. PcInv(d)'
    BY <1>3, <1>T, <1>S, GotoFacts DEF PcInv, ForwardPcs, shared
  <2> QED BY <1>3, <1>P, <1>S, <1>T, <2>1, Advance
<1> QED BY <1>1, <1>2, <1>3 DEF Drain, WaitDrained

(* A Seal that is accepted belongs to the current move. *)
LEMMA SealInv ==
    ASSUME IInv, TypeOK', FencerKind = "mem", NEW d \in Drivers, Seal(d)
    PROVE  Good(d)
<1>T. TypeOK /\ PcInv(d) /\ RouteInv /\ ExpInv(d) /\ BarInv(d) /\ FenceInv /\ EventInv
  BY ReadInv
<1>N. /\ route.epoch \in Nat /\ exp[d].epoch \in Nat /\ bar[d] \in Nat /\ fence.epoch \in Nat
      /\ route.state \in States /\ Rank(route.state) \in Nat /\ fence \in Fences
      /\ events.epoch \in Nat
  BY <1>T, ReadTypes, RankFacts
<1>1. CASE Fail(d) /\ UNCHANGED fence
  BY <1>1, <1>T, QuietFail DEF Seal, shared
<1>2. CASE /\ SealAccepts(fence, bar[d]) /\ fence' = Sealed(fence, bar[d])
           /\ Goto(d, "pause") /\ UNCHANGED <<local, ret>>
  <2>1. bar[d] >= fence.epoch
    BY <1>2 DEF SealAccepts
  <2>2. fence'.epoch = bar[d] /\ fence'.row /\ fence'.sealed
    BY <1>2, <1>N DEF Sealed, Fences
  <2>3. exp[d].state = "DRAINING" /\ bar[d] # 0 /\ exp[d] # ZeroRoute
    BY <1>T DEF PcInv, Seal, ZeroRoute
  <2>4. bar[d] = exp[d].epoch + 1 /\ exp[d].epoch = route.epoch
    BY <1>N, <1>T, <2>1, <2>3 DEF BarInv, ExpInv, FenceInv
  <2>5. Rank(route.state) >= 2 /\ route.epoch >= 1
    BY <1>N, <1>T, <2>3, <2>4 DEF ExpInv, Rank
  <2>6. UNCHANGED <<route, events, rested>> /\ UNCHANGED <<plan, local, ret>>
    BY <1>2 DEF Seal
  <2>7. Progress
    BY <1>N, <2>1, <2>2, <2>6 DEF Progress
  <2>8. SharedInv'
    <3>1. RouteInv' /\ EventInv' /\ HistoryInv'
      BY <2>6 DEF IInv, SharedInv, RouteInv, EventInv, HistoryInv, EpochNamesOneOwner
    <3>2. route.state # "ACTIVE"
      BY <2>5 DEF Rank
    <3>3. FenceInv'
      BY <1>N, <2>2, <2>4, <2>5, <2>6, <3>2 DEF FenceInv
    <3> QED BY <3>1, <3>3 DEF SharedInv
  <2>9. PcInv(d)'
    BY <1>2, <1>T, <1>N, <2>2, <2>3, <2>4, <2>6, GotoFacts DEF PcInv, ForwardPcs
  <2> QED BY <1>2, <1>T, <2>6, <2>7, <2>8, <2>9, Advance
<1> QED BY <1>1, <1>2 DEF Seal

LEMMA PauseInv ==
    ASSUME IInv, TypeOK', NEW d \in Drivers, Pause(d)
    PROVE  Good(d)
<1>T. TypeOK /\ PcInv(d) /\ ExpInv(d)
  BY ReadInv
<1>N. route.epoch \in Nat /\ exp[d].epoch \in Nat /\ bar[d] \in Nat
  BY <1>T, ReadTypes
<1>1. CASE Fail(d) /\ UNCHANGED events
  BY <1>1, <1>T, QuietFail DEF Pause, shared
<1>2. CASE /\ SetPolicyAccepts(events, bar[d]) /\ events' = WithPolicy(events, "PAUSE", bar[d])
           /\ Goto(d, "waitDrained") /\ UNCHANGED <<local, ret>>
  <2>1. /\ exp[d].state = "DRAINING" /\ bar[d] # 0 /\ exp[d] # ZeroRoute
        /\ bar[d] = exp[d].epoch + 1 /\ fence.epoch >= bar[d]
    BY <1>T DEF PcInv, Pause, ZeroRoute
  <2>2. route.epoch >= 1 /\ (bar[d] = route.epoch + 1 \/ bar[d] <= route.epoch)
    BY <1>N, <1>T, <2>1 DEF ExpInv
  <2>3. UNCHANGED <<route, fence, rested>> /\ UNCHANGED <<plan, local, ret>>
    BY <1>2 DEF Pause
  <2>4. Progress /\ SharedInv' /\ (HasEvents => events'.epoch = bar[d])
    BY <1>2, <1>N, <2>2, <2>3, SetPolicyShared
  <2>5. PcInv(d)'
    BY <1>2, <1>T, <1>N, <2>1, <2>3, <2>4, GotoFacts DEF PcInv, ForwardPcs
  <2> QED BY <1>2, <1>T, <2>3, <2>4, <2>5, Advance
<1> QED BY <1>1, <1>2 DEF Pause

(* A commit's SetOwner that is accepted belongs to the remembered move. *)
LEMMA CommitOwnerInv ==
    ASSUME IInv, TypeOK', FencerKind = "mem", NEW d \in Drivers, CommitOwner(d)
    PROVE  Good(d)
<1>T. TypeOK /\ PcInv(d) /\ RouteInv /\ ExpInv(d) /\ BarInv(d) /\ FenceInv
  BY ReadInv
<1>N. /\ route.epoch \in Nat /\ exp[d].epoch \in Nat /\ bar[d] \in Nat /\ fence.epoch \in Nat
      /\ route.state \in States /\ Rank(route.state) \in Nat
  BY <1>T, ReadTypes, RankFacts
<1>1. CASE Fail(d) /\ UNCHANGED fence
  BY <1>1, <1>T, QuietFail DEF CommitOwner, shared
<1>2. CASE /\ SetOwnerAccepts(fence, bar[d] + 1) /\ fence' = OwnedBy(fence, tgt[d], bar[d] + 1)
           /\ Goto(d, "resumeEvents") /\ UNCHANGED <<local, ret>>
  <2>1. bar[d] + 1 >= fence.epoch
    BY <1>2 DEF SetOwnerAccepts
  <2>2. exp[d].state = "COMMITTING" /\ bar[d] # 0 /\ exp[d] # ZeroRoute
    BY <1>T DEF PcInv, CommitOwner, ZeroRoute
  <2>3. exp[d].epoch = route.epoch => Rank(route.state) >= 4
    BY <1>N, <1>T, <2>2 DEF ExpInv, Rank
  <2>4. bar[d] = exp[d].epoch + 1
    BY <1>N, <1>T, <2>1, <2>2, <2>3 DEF BarInv, ExpInv, FenceInv
  <2>5. \/ bar[d] + 1 = route.epoch + 2 /\ route.state \in MovingStates
        \/ bar[d] + 1 <= route.epoch
    BY <1>N, <1>T, <2>2, <2>3, <2>4, RankFacts DEF ExpInv
  <2>6. UNCHANGED <<route, events, rested>> /\ UNCHANGED <<plan, local, ret>>
    BY <1>2 DEF CommitOwner
  <2>7. bar[d] + 1 \in Nat
    BY <1>N
  <2>8. Progress /\ SharedInv' /\ fence'.epoch = bar[d] + 1
    BY <1>2, <2>1, <2>5, <2>6, <2>7, SetOwnerShared
  <2>9. PcInv(d)'
    BY <1>2, <1>T, <1>N, <2>2, <2>4, <2>6, <2>8, GotoFacts DEF PcInv, ForwardPcs
  <2> QED BY <1>2, <1>T, <2>6, <2>8, <2>9, Advance
<1> QED BY <1>1, <1>2 DEF CommitOwner

LEMMA ResumeEventsInv ==
    ASSUME IInv, TypeOK', NEW d \in Drivers, ResumeEvents(d)
    PROVE  Good(d)
<1>T. TypeOK /\ PcInv(d) /\ ExpInv(d)
  BY ReadInv
<1>N. route.epoch \in Nat /\ exp[d].epoch \in Nat /\ bar[d] \in Nat
  BY <1>T, ReadTypes
<1>1. CASE Fail(d) /\ UNCHANGED events
  BY <1>1, <1>T, QuietFail DEF ResumeEvents, shared
<1>2. CASE /\ SetPolicyAccepts(events, bar[d] + 1)
           /\ events' = WithPolicy(events, "NORMAL", bar[d] + 1)
           /\ Goto(d, "casActive") /\ UNCHANGED <<local, ret>>
  <2>1. /\ exp[d].state = "COMMITTING" /\ bar[d] # 0 /\ exp[d] # ZeroRoute
        /\ bar[d] = exp[d].epoch + 1 /\ fence.epoch >= bar[d] + 1
    BY <1>T DEF PcInv, ResumeEvents, ZeroRoute
  <2>2. /\ route.epoch >= 1 /\ bar[d] + 1 \in Nat
        /\ bar[d] + 1 = route.epoch + 2 \/ bar[d] + 1 <= route.epoch
    BY <1>N, <1>T, <2>1 DEF ExpInv
  <2>3. UNCHANGED <<route, fence, rested>> /\ UNCHANGED <<plan, local, ret>>
    BY <1>2 DEF ResumeEvents
  <2>4. Progress /\ SharedInv'
    BY <1>2, <2>2, <2>3, SetPolicyShared
  <2>5. PcInv(d)'
    BY <1>2, <1>T, <1>N, <2>1, <2>3, GotoFacts DEF PcInv, ForwardPcs
  <2> QED BY <1>2, <1>T, <2>3, <2>4, <2>5, Advance
<1> QED BY <1>1, <1>2 DEF ResumeEvents

(* A commit that flips the route flips it to its own move's target. *)
LEMMA CommitFacts ==
    ASSUME IInv, NEW d \in Drivers, pc[d] = "casActive", Matches(route, exp[d])
    PROVE  /\ exp[d] = route /\ route.state = "COMMITTING" /\ exp[d] # ZeroRoute
           /\ bar[d] = route.epoch + 1 /\ bar[d] + 1 = route.epoch + 2
           /\ tgt[d] = route.target /\ tgt[d] \in Cells
           /\ fence.epoch >= route.epoch + 2
<1>T. TypeOK /\ PcInv(d) /\ ExpInv(d) /\ BarInv(d)
  BY ReadInv
<1>N. route.epoch \in Nat /\ exp[d].epoch \in Nat /\ bar[d] \in Nat /\ fence.epoch \in Nat
  BY <1>T, ReadTypes
<1>1. /\ exp[d].state = "COMMITTING" /\ bar[d] # 0 /\ exp[d] # ZeroRoute
      /\ bar[d] = exp[d].epoch + 1 /\ fence.epoch >= bar[d] + 1
  BY <1>T DEF PcInv, ZeroRoute
<1>2. exp[d] = route
  BY <1>1, MatchIsRoute
<1> QED BY <1>N, <1>T, <1>1, <1>2 DEF BarInv

LEMMA CasActiveInv ==
    ASSUME IInv, TypeOK', NEW d \in Drivers, CasActive(d)
    PROVE  Good(d)
<1>T. TypeOK /\ PcInv(d)
  BY ReadInv
<1>N. route.epoch \in Nat
  BY <1>T, ReadTypes
<1>1. CASE Matches(route, exp[d])
  <2>1. /\ bar[d] + 1 = route.epoch + 2 /\ tgt[d] \in Cells /\ route.state \in MovingStates
        /\ fence.epoch >= route.epoch + 2
    BY <1>1, CommitFacts DEF CasActive, MovingStates
  <2>2. /\ route' = Resting(tgt[d], route.epoch + 2)
        /\ rested' = rested \cup {<<route.epoch + 2, tgt[d]>>}
        /\ Return(d, "ok") /\ UNCHANGED <<fence, events>> /\ UNCHANGED plan
    BY <1>1, <1>N, <2>1 DEF CasActive
  <2>3. Progress /\ SharedInv'
    BY <2>1, <2>2, SettleShared
  <2> QED BY <1>T, <2>2, <2>3, ReturnInv DEF Good
<1>2. CASE ~Matches(route, exp[d])
  <2>1. /\ want' = [want EXCEPT ![d] = "ACTIVE"] /\ Goto(d, "reget")
        /\ UNCHANGED <<exp, bar, tgt>> /\ UNCHANGED shared /\ UNCHANGED plan
    BY <1>2 DEF CasActive, shared
  <2>2. exp[d].state \in MovingStates /\ bar[d] # 0 /\ exp[d] # ZeroRoute
    BY <1>T DEF PcInv, CasActive, MovingStates, ZeroRoute
  <2> QED BY <2>1, <2>2, ConflictInv
<1> QED BY <1>1, <1>2

-----------------------------------------------------------------------------
(* Rollback. *)

(* Rolling back the move d remembers goes to its source, two epochs up. *)
LEMMA RollbackFacts ==
    ASSUME IInv, NEW d \in Drivers, exp[d].state \in MovingStates
    PROVE  /\ exp[d] # ZeroRoute /\ route.epoch >= 1
           /\ RollbackCell(exp[d]) = exp[d].source /\ exp[d].source \in Cells
           /\ RollbackEpoch(exp[d]) = exp[d].epoch + 2 /\ exp[d].epoch + 2 \in Nat
           /\ \/ exp[d].epoch + 2 = route.epoch + 2 /\ route.state \in MovingStates
              \/ exp[d].epoch + 2 <= route.epoch
<1>T. TypeOK /\ ExpInv(d)
  BY ReadInv
<1>N. route.epoch \in Nat /\ exp[d].epoch \in Nat /\ exp[d].state \in States /\ route.state \in States
  BY <1>T, ReadTypes
<1>1. exp[d] # ZeroRoute
  BY DEF ZeroRoute, MovingStates
<1>2. /\ exp[d].source \in Cells /\ exp[d].barrier = exp[d].epoch + 1
  BY <1>1, <1>T DEF ExpInv
<1>3. RollbackCell(exp[d]) = exp[d].source
  BY <1>2, ConstantsAssumption DEF RollbackCell
<1>4. RollbackEpoch(exp[d]) = exp[d].epoch + 2
  BY <1>N, <1>2 DEF RollbackEpoch
<1>5. route.epoch >= 1 /\ exp[d].epoch + 2 \in Nat
  BY <1>1, <1>N, <1>T DEF ExpInv
<1>6. \/ exp[d].epoch + 2 = route.epoch + 2 /\ route.state \in MovingStates
      \/ exp[d].epoch + 2 <= route.epoch
  BY <1>1, <1>N, <1>T, RankFacts DEF ExpInv
<1> QED BY <1>1, <1>2, <1>3, <1>4, <1>5, <1>6

LEMMA RbGetInv ==
    ASSUME IInv, TypeOK', NEW d \in Drivers, RbGet(d)
    PROVE  Good(d)
<1>T. TypeOK /\ PcInv(d)
  BY ReadInv
<1>S. UNCHANGED shared /\ UNCHANGED plan /\ UNCHANGED route
  BY DEF RbGet, shared
<1>1. CASE RollbackDone(d)
  BY <1>1, <1>T, <1>S, QuietFail
<1>2. CASE /\ ~AdmitsNew(route.state) /\ exp' = [exp EXCEPT ![d] = route]
           /\ Goto(d, "rbOwner") /\ UNCHANGED <<want, bar, tgt, depth, err, ret>>
  <2>1. Progress /\ SharedInv'
    BY <1>T, <1>S, SharedSame
  <2>2. OthersSame(d) /\ exp'[d] = route' /\ bar'[d] = 0 /\ pc'[d] = "rbOwner"
    BY <1>2, <1>T, <1>S
       DEF RbGet, Goto, TypeOK, LocalTypeOK, OthersSame, SameLocals, PcInv, ForwardPcs
  <2>3. ExpInv(d)'
    BY <2>1, <2>2, FreshExp DEF SharedInv
  <2>4. route.state \in MovingStates
    BY <1>2, <1>T, ReadTypes DEF AdmitsNew, States
  <2>5. BarInv(d)' /\ PcInv(d)'
    BY <1>S, <2>2, <2>4 DEF BarInv, PcInv, ForwardPcs
  <2> QED BY <2>1, <2>2, <2>3, <2>5 DEF Good, DriverInv
<1> QED BY <1>1, <1>2 DEF RbGet

LEMMA RbOwnerInv ==
    ASSUME IInv, TypeOK', FencerKind = "mem", NEW d \in Drivers, RbOwner(d)
    PROVE  Good(d)
<1>T. TypeOK /\ PcInv(d)
  BY ReadInv
<1>1. CASE Fail(d) /\ UNCHANGED fence
  BY <1>1, <1>T, QuietFail DEF RbOwner, shared
<1>2. CASE /\ SetOwnerAccepts(fence, RollbackEpoch(exp[d]))
           /\ fence' = OwnedBy(fence, RollbackCell(exp[d]), RollbackEpoch(exp[d]))
           /\ Goto(d, "rbEvents") /\ UNCHANGED <<local, ret>>
  <2>1. exp[d].state \in MovingStates /\ bar[d] = 0
    BY <1>T DEF PcInv, RbOwner, ForwardPcs
  <2>2. UNCHANGED <<route, events, rested>> /\ UNCHANGED <<plan, local, ret>>
    BY <1>2 DEF RbOwner
  <2>3. exp[d].epoch + 2 >= fence.epoch
    BY <1>2, <2>1, RollbackFacts DEF SetOwnerAccepts
  <2>4. Progress /\ SharedInv' /\ fence'.epoch = exp[d].epoch + 2
    BY <1>2, <2>1, <2>2, <2>3, RollbackFacts, SetOwnerShared
  <2>5. exp[d].epoch \in Nat
    BY <1>T, ReadTypes
  <2>6. PcInv(d)'
    BY <1>2, <1>T, <2>1, <2>2, <2>4, <2>5, GotoFacts DEF PcInv, ForwardPcs
  <2> QED BY <1>2, <1>T, <2>2, <2>4, <2>6, Advance
<1> QED BY <1>1, <1>2 DEF RbOwner

LEMMA RbEventsInv ==
    ASSUME IInv, TypeOK', NEW d \in Drivers, RbEvents(d)
    PROVE  Good(d)
<1>T. TypeOK /\ PcInv(d)
  BY ReadInv
<1>1. CASE Fail(d) /\ UNCHANGED events
  BY <1>1, <1>T, QuietFail DEF RbEvents, shared
<1>2. CASE /\ SetPolicyAccepts(events, RollbackEpoch(exp[d]))
           /\ events' = WithPolicy(events, "NORMAL", RollbackEpoch(exp[d]))
           /\ Goto(d, "rbCas") /\ UNCHANGED <<local, ret>>
  <2>1. exp[d].state \in MovingStates /\ bar[d] = 0 /\ fence.epoch >= exp[d].epoch + 2
    BY <1>T DEF PcInv, RbEvents, ForwardPcs
  <2>2. UNCHANGED <<route, fence, rested>> /\ UNCHANGED <<plan, local, ret>>
    BY <1>2 DEF RbEvents
  <2>3. Progress /\ SharedInv'
    BY <1>2, <2>1, <2>2, RollbackFacts, SetPolicyShared
  <2>4. PcInv(d)'
    BY <1>2, <1>T, <2>1, <2>2, GotoFacts DEF PcInv, ForwardPcs
  <2> QED BY <1>2, <1>T, <2>2, <2>3, <2>4, Advance
<1> QED BY <1>1, <1>2 DEF RbEvents

(* A rollback that flips the route flips it to its own move's source. *)
LEMMA RbCasFacts ==
    ASSUME IInv, NEW d \in Drivers, pc[d] = "rbCas", Matches(route, exp[d])
    PROVE  /\ route.state \in MovingStates /\ fence.epoch >= route.epoch + 2
           /\ RollbackCell(exp[d]) = route.source /\ route.source \in Cells
           /\ RollbackEpoch(exp[d]) = route.epoch + 2
<1>1. exp[d].state \in MovingStates /\ fence.epoch >= exp[d].epoch + 2
  BY ReadInv DEF PcInv
<1>2. exp[d] = route
  BY <1>1, RollbackFacts, MatchIsRoute
<1> QED BY <1>1, <1>2, RollbackFacts

LEMMA RbCasInv ==
    ASSUME IInv, TypeOK', NEW d \in Drivers, RbCas(d)
    PROVE  Good(d)
<1>T. TypeOK /\ PcInv(d)
  BY ReadInv
<1>1. CASE Matches(route, exp[d])
  <2>1. /\ route.state \in MovingStates /\ fence.epoch >= route.epoch + 2
        /\ RollbackCell(exp[d]) = route.source /\ route.source \in Cells
        /\ RollbackEpoch(exp[d]) = route.epoch + 2
    BY <1>1, RbCasFacts DEF RbCas
  <2>2. /\ route' = Resting(route.source, route.epoch + 2)
        /\ rested' = rested \cup {<<route.epoch + 2, route.source>>}
        /\ RollbackDone(d) /\ UNCHANGED <<fence, events>> /\ UNCHANGED plan
    BY <1>1, <2>1 DEF RbCas
  <2>3. Progress /\ SharedInv'
    BY <2>1, <2>2, SettleShared
  <2> QED BY <1>T, <2>2, <2>3, RollbackDoneInv DEF Good
<1>2. CASE ~Matches(route, exp[d])
  <2>1. /\ Goto(d, "rbGet") /\ UNCHANGED shared /\ UNCHANGED <<plan, local, ret>>
    BY <1>2 DEF RbCas, shared
  <2>2. Progress /\ SharedInv'
    BY <1>T, <2>1, SharedSame
  <2>3. PcInv(d)'
    BY <1>T, <2>1, GotoFacts DEF PcInv, RbCas, ForwardPcs
  <2> QED BY <1>T, <2>1, <2>2, <2>3, Advance
<1> QED BY <1>1, <1>2

-----------------------------------------------------------------------------
(* IInv is inductive. *)
LEMMA IInvStep ==
    ASSUME IInv, [Next]_vars, FencerKind = "mem", MaxDeletes = 0
    PROVE  IInv'
<1>T. TypeOK /\ TypeOK'
  BY TypeStep DEF IInv
<1>0. CASE UNCHANGED vars
  <2>1. UNCHANGED shared /\ deletes' = 0 /\ \A x \in Drivers : SameLocals(x)
    BY <1>0 DEF vars, shared, SameLocals, IInv
  <2>2. Progress /\ SharedInv'
    BY <1>T, <2>1, SharedSame
  <2>3. \A x \in Drivers : DriverInv(x)'
    BY <1>T, <2>1, <2>2, OthersKeep
  <2> QED BY <1>T, <2>1, <2>2, <2>3 DEF IInv
<1>d. CASE Delete
  BY <1>d DEF Delete, IInv
<1> SUFFICES ASSUME NEW d \in Drivers, Call(d) \/ Step(d) \/ Fault(d) \/ Crash(d)
             PROVE  IInv'
  BY <1>0, <1>d DEF Next
<1>D. deletes' = 0
  BY DEF IInv, Call, CallMove, CallResume, CallRollback, CallAssign, StartCall, Fault, Crash,
     Step, MoveGet, ResumeGet, AssignGet, AssignOwner, AssignCas, Begin, Reget, Drain,
     CasDraining, Seal, Pause, WaitDrained, CasCopying, CasCommitting, CommitOwner,
     ResumeEvents, CasActive, RbGet, RbOwner, RbEvents, RbCas, counts
<1> SUFFICES Good(d)
  BY <1>T, <1>D, StepKeepsIInv DEF Good
<1>1. CASE Call(d) \/ Fault(d) \/ Crash(d)
  BY <1>1, <1>T, CallInv, FaultInv
<1>2. CASE MoveGet(d) \/ ResumeGet(d) \/ AssignGet(d) \/ AssignOwner(d) \/ AssignCas(d)
  BY <1>2, <1>T, MoveGetInv, ResumeGetInv, AssignGetInv, AssignOwnerInv, AssignCasInv
<1>3. CASE Begin(d) \/ Reget(d) \/ Drain(d) \/ CasDraining(d) \/ Seal(d) \/ Pause(d)
  BY <1>3, <1>T, BeginInv, RegetInv, DrainInv, CasDrainingInv, SealInv, PauseInv
<1>4. CASE WaitDrained(d) \/ CasCopying(d) \/ CasCommitting(d) \/ CommitOwner(d)
           \/ ResumeEvents(d) \/ CasActive(d)
  BY <1>4, <1>T, DrainInv, CasCopyingInv, CasCommittingInv, CommitOwnerInv,
     ResumeEventsInv, CasActiveInv
<1>5. CASE RbGet(d) \/ RbOwner(d) \/ RbEvents(d) \/ RbCas(d)
  BY <1>5, <1>T, RbGetInv, RbOwnerInv, RbEventsInv, RbCasInv
<1> QED BY <1>1, <1>2, <1>3, <1>4, <1>5 DEF Step

LEMMA IInvInit == Init => IInv
<1> SUFFICES ASSUME Init PROVE IInv
  OBVIOUS
<1>1. TypeOK
  BY TypeInit
<1>2. RouteInv
  BY DEF Init, RouteInv, ZeroRoute, MovingStates
<1>3. FenceInv
  BY DEF Init, FenceInv, ZeroRoute, NoFence, Rank
<1>4. EventInv
  BY DEF Init, EventInv, ZeroRoute, Rank
<1>5. HistoryInv
  BY DEF Init, HistoryInv, EpochNamesOneOwner
<1>6. \A d \in Drivers : DriverInv(d)
  BY DEF Init, DriverInv, ExpInv, BarInv, PcInv, ForwardPcs
<1> QED BY <1>1, <1>2, <1>3, <1>4, <1>5, <1>6 DEF IInv, SharedInv, Init

(* IInv holds of every controller over a MemFencer whose routes are not     *)
(* deleted; the theorems below are its consequences.                        *)
THEOREM IInvHolds ==
    ASSUME FencerKind = "mem", MaxDeletes = 0
    PROVE  Spec => []IInv
<1>1. IInv /\ [Next]_vars => IInv'
  BY IInvStep
<1> QED BY <1>1, IInvInit, PTL DEF Spec

(* No writer at an epoch below the route's passes the write-guard, however  *)
(* many drivers race, stall, fail or crash.                                 *)
THEOREM StaleWritersAreFenced ==
    ASSUME FencerKind = "mem", MaxDeletes = 0
    PROVE  Spec => []StaleWritersFenced
<1>1. IInv => StaleWritersFenced
  <2> SUFFICES ASSUME IInv, NEW c \in Cells, NEW e \in 0 .. route.epoch, e < route.epoch
               PROVE  ~Allow(fence, c, e)
    BY DEF StaleWritersFenced
  <2>1. TypeOK /\ FenceInv
    BY DEF IInv, SharedInv
  <2>2. route.epoch \in Nat /\ fence.epoch \in Nat
    BY <2>1 DEF TypeOK, SharedTypeOK, Routes, Fences
  <2>3. fence.row /\ fence.epoch # e
    BY <2>1, <2>2 DEF FenceInv
  <2> QED BY <2>3 DEF Allow
<1> QED BY <1>1, IInvHolds, PTL

(* From COPYING until the route flips, no cell can write at the pre-move    *)
(* epoch.                                                                   *)
THEOREM CutStaysSealed ==
    ASSUME FencerKind = "mem", MaxDeletes = 0
    PROVE  Spec => []CutIsSealed
<1>1. IInv => CutIsSealed
  <2> SUFFICES ASSUME IInv, route.state \in {"COPYING", "COMMITTING"}, NEW c \in Cells
               PROVE  ~Allow(fence, c, route.epoch)
    BY DEF CutIsSealed
  <2>1. TypeOK /\ FenceInv /\ Rank(route.state) >= 3
    BY DEF IInv, SharedInv, Rank
  <2>2. route.epoch \in Nat /\ fence.epoch \in Nat
    BY <2>1 DEF TypeOK, SharedTypeOK, Routes, Fences
  <2>3. fence.row /\ fence.epoch # route.epoch
    BY <2>1, <2>2 DEF FenceInv
  <2> QED BY <2>3 DEF Allow
<1> QED BY <1>1, IInvHolds, PTL

(* From COPYING until the route flips, the publisher is paused or already   *)
(* resumed for the epoch after the move.                                    *)
THEOREM EventsStayPaused ==
    ASSUME FencerKind = "mem", MaxDeletes = 0
    PROVE  Spec => []EventsPausedInCut
<1>1. IInv => EventsPausedInCut
  <2> SUFFICES ASSUME IInv, HasEvents, route.state \in {"COPYING", "COMMITTING"}
               PROVE  \/ events.policy = "PAUSE" /\ events.epoch = route.epoch + 1
                      \/ events.epoch = route.epoch + 2
    BY DEF EventsPausedInCut
  <2>1. TypeOK /\ EventInv /\ Rank(route.state) >= 3
    BY DEF IInv, SharedInv, Rank
  <2>2. route.epoch \in Nat /\ events.epoch \in Nat
    BY <2>1 DEF TypeOK, SharedTypeOK, Routes
  <2> QED BY <2>1, <2>2 DEF EventInv
<1> QED BY <1>1, IInvHolds, PTL

(* An epoch at which the tenant has rested names one cell for ever. *)
THEOREM EpochsNameOneOwner ==
    ASSUME FencerKind = "mem", MaxDeletes = 0
    PROVE  Spec => []EpochNamesOneOwner
<1>1. IInv => EpochNamesOneOwner
  BY DEF IInv, SharedInv, HistoryInv
<1> QED BY <1>1, IInvHolds, PTL

(* Comparing epoch and state is enough: a driver whose CompareAndSet would  *)
(* succeed expects exactly the stored route.                                *)
THEOREM NoABA ==
    ASSUME FencerKind = "mem", MaxDeletes = 0
    PROVE  Spec => []ExpectIsCurrent
<1>1. IInv => ExpectIsCurrent
  <2> SUFFICES ASSUME IInv, NEW d \in Drivers, pc[d] \in CasPcs,
                      exp[d].epoch = route.epoch, exp[d].state = route.state
               PROVE  exp[d] = route
    BY DEF ExpectIsCurrent
  <2>1. PcInv(d)
    BY ReadInv
  <2>2. exp[d].state \in MovingStates \cup {"ACTIVE"}
    BY <2>1 DEF PcInv, CasPcs, MovingStates
  <2>3. exp[d] # ZeroRoute
    BY <2>2 DEF ZeroRoute, MovingStates
  <2> QED BY <2>3, MatchIsRoute DEF Matches
<1> QED BY <1>1, IInvHolds, PTL

(* A resting tenant is never left sealed by a late Seal. *)
THEOREM RestingIsUnsealed ==
    ASSUME FencerKind = "mem", MaxDeletes = 0
    PROVE  Spec => []NotSealedAtRest
<1>1. IInv => NotSealedAtRest
  <2> SUFFICES ASSUME IInv, route.state \in RestingStates, fence.sealed
               PROVE  FALSE
    BY DEF NotSealedAtRest, AdmitsNew
  <2>1. FenceInv /\ Rank(route.state) = 0
    BY DEF IInv, SharedInv, Rank, RestingStates
  <2> QED BY <2>1 DEF FenceInv
<1> QED BY <1>1, IInvHolds, PTL

-----------------------------------------------------------------------------
(* Refinement. *)

(* What a step does to the route, in the terms of TenantMove. *)
RouteStep ==
    \/ /\ route'.active = route.active /\ route'.epoch = route.epoch
       /\ route'.source = route.source /\ route'.target = route.target
       /\ route' # route => route'.state \in MovingStates
    \/ \E c \in Cells : route = ZeroRoute /\ route' = Resting(c, 1)
    \/ \E from, to \in Cells :
          /\ from # to /\ route.state = "ACTIVE" /\ route.epoch >= 1
          /\ route' = Quiescing(route, from, to)
    \/ \E c \in {route.source, route.target} :
          /\ route.state \in MovingStates /\ c \in Cells
          /\ route' = Resting(c, route.epoch + 2)

LEMMA RouteSteps ==
    ASSUME IInv, [Next]_vars, MaxDeletes = 0
    PROVE  RouteStep
<1>T. TypeOK
  BY DEF IInv
<1>0. CASE route' = route
  BY <1>0 DEF RouteStep
<1>d. CASE Delete
  BY <1>d DEF Delete, IInv
<1> SUFFICES ASSUME NEW d \in Drivers,
                    \/ AssignCas(d) \/ Begin(d) \/ CasDraining(d) \/ CasCopying(d)
                    \/ CasCommitting(d) \/ CasActive(d) \/ RbCas(d)
             PROVE  RouteStep
  BY <1>0, <1>d DEF Next, Call, CallMove, CallResume, CallRollback, CallAssign, StartCall,
     Fault, Crash, Step, MoveGet, ResumeGet, AssignGet, AssignOwner, Reget, Drain, Seal,
     Pause, WaitDrained, CommitOwner, ResumeEvents, RbGet, RbOwner, RbEvents, shared, vars
<1>1. CASE AssignCas(d)
  <2>1. PcInv(d) /\ RouteInv
    BY ReadInv
  <2>2. CASE Matches(route, ZeroRoute)
    <3>1. route = ZeroRoute /\ plan[d].to \in Cells
      BY <1>1, <2>1, <2>2 DEF Matches, RouteInv, ZeroRoute, PcInv, AssignCas
    <3> QED BY <1>1, <2>2, <3>1 DEF AssignCas, RouteStep
  <2> QED BY <1>0, <1>1, <2>2 DEF AssignCas
<1>2. CASE Begin(d)
  <2>1. PcInv(d) /\ ExpInv(d)
    BY ReadInv
  <2>2. /\ exp[d].state = "ACTIVE"
        /\ plan[d].from \in Cells /\ plan[d].to \in Cells /\ plan[d].from # plan[d].to
    BY <1>2, <2>1 DEF Begin, PcInv
  <2>3. CASE Matches(route, exp[d])
    <3>1. exp[d] # ZeroRoute
      BY <2>2 DEF ZeroRoute
    <3>2. exp[d] = route /\ route.epoch >= 1
      BY <2>1, <2>3, <3>1, MatchIsRoute DEF ExpInv
    <3>3. route' = Quiescing(route, plan[d].from, plan[d].to)
      BY <1>2, <2>3, <3>2 DEF Begin
    <3> QED BY <2>2, <3>2, <3>3 DEF RouteStep
  <2> QED BY <1>0, <1>2, <2>3 DEF Begin
<1>3. CASE CasDraining(d) \/ CasCopying(d) \/ CasCommitting(d)
  <2>1. exp[d].state \in MovingStates
    BY <1>3, ReadInv DEF PcInv, CasDraining, CasCopying, CasCommitting, MovingStates
  <2>2. exp[d] # ZeroRoute
    BY <2>1 DEF ZeroRoute, MovingStates
  <2>3. CASE Matches(route, exp[d]) /\ route' # route
    <3>1. exp[d] = route /\ route \in Routes
      BY <1>T, <2>2, <2>3, MatchIsRoute, ReadTypes
    <3>2. \/ route' = [route EXCEPT !.state = "DRAINING"]
          \/ route' = [route EXCEPT !.state = "COPYING", !.evPolicy = "PAUSE",
                                    !.evEpoch = bar[d]]
          \/ route' = [route EXCEPT !.state = "COMMITTING"]
      BY <1>3, <2>3, <3>1 DEF Cas, CasDraining, CasCopying, CasCommitting
    <3>3. /\ route'.active = route.active /\ route'.epoch = route.epoch
          /\ route'.source = route.source /\ route'.target = route.target
          /\ route'.state \in {"DRAINING", "COPYING", "COMMITTING"}
      BY <3>1, <3>2 DEF Routes
    <3> QED BY <3>3 DEF RouteStep, MovingStates
  <2> QED BY <1>0, <1>3, <2>3 DEF Cas, CasDraining, CasCopying, CasCommitting
<1>4. CASE CasActive(d)
  <2>1. CASE Matches(route, exp[d])
    <3>1. /\ bar[d] + 1 = route.epoch + 2 /\ tgt[d] = route.target /\ tgt[d] \in Cells
          /\ route.state \in MovingStates
      BY <1>4, <2>1, CommitFacts DEF CasActive, MovingStates
    <3>2. route.epoch \in Nat
      BY <1>T, ReadTypes
    <3>3. route' = Resting(tgt[d], route.epoch + 2)
      BY <1>4, <2>1, <3>1, <3>2 DEF CasActive
    <3> QED BY <3>1, <3>3 DEF RouteStep
  <2> QED BY <1>0, <1>4, <2>1 DEF CasActive
<1>5. CASE RbCas(d)
  <2>1. CASE Matches(route, exp[d])
    <3>1. /\ RollbackEpoch(exp[d]) = route.epoch + 2 /\ route.state \in MovingStates
          /\ RollbackCell(exp[d]) = route.source /\ route.source \in Cells
      BY <1>5, <2>1, RbCasFacts DEF RbCas
    <3>2. route' = Resting(route.source, route.epoch + 2)
      BY <1>5, <2>1, <3>1 DEF RbCas
    <3> QED BY <3>1, <3>2 DEF RouteStep
  <2> QED BY <1>0, <1>5, <2>1 DEF RbCas
<1> QED BY <1>1, <1>2, <1>3, <1>4, <1>5

(* Whoever ends a move advances the epoch by exactly two. *)
THEOREM EpochAdvancesByTwo ==
    ASSUME FencerKind = "mem", MaxDeletes = 0
    PROVE  Spec => EpochAdvances
<1>1. IInv /\ [Next]_vars =>
        [route # ZeroRoute /\ route' # route /\ AdmitsNew(route'.state)
           => route'.epoch = route.epoch + 2]_vars
  <2> SUFFICES ASSUME IInv, [Next]_vars, route # ZeroRoute, route' # route,
                      AdmitsNew(route'.state)
               PROVE  route'.epoch = route.epoch + 2
    OBVIOUS
  <2>1. RouteStep
    BY RouteSteps
  <2>2. route'.state \notin MovingStates
    BY DEF AdmitsNew, RestingStates, MovingStates
  <2>3. ASSUME NEW from \in Cells, NEW to \in Cells, route' = Quiescing(route, from, to)
        PROVE  FALSE
    <3>1. route \in Routes
      BY DEF IInv, TypeOK, SharedTypeOK
    <3>2. route'.state = "QUIESCING"
      BY <2>3, <3>1 DEF Quiescing, Routes
    <3> QED BY <2>2, <3>2 DEF MovingStates
  <2> QED BY <2>1, <2>2, <2>3 DEF RouteStep, Resting
<1> QED BY <1>1, IInvHolds, PTL DEF Spec, EpochAdvances

(* The controller implements TenantMove: racing, retrying and crashing      *)
(* drivers together perform one sequence of moves, each decided once, on    *)
(* its source or its target.                                                *)
THEOREM ImplementsTenantMove ==
    ASSUME FencerKind = "mem", MaxDeletes = 0
    PROVE  Spec => Implements
<1>1. Init => Abstract!Init
  BY DEF Init, Abstract!Init, ZeroRoute
<1>2. IInv /\ [Next]_vars => [Abstract!Next]_(Abstract!tenant)
  <2> SUFFICES ASSUME IInv, [Next]_vars
               PROVE  [Abstract!Next]_(Abstract!tenant)
    OBVIOUS
  <2>t. route \in Routes /\ route.epoch \in Nat /\ RouteInv
    BY DEF IInv, SharedInv, TypeOK, SharedTypeOK, Routes
  <2>0. CASE /\ route'.active = route.active /\ route'.epoch = route.epoch
             /\ route'.source = route.source /\ route'.target = route.target
    BY <2>0 DEF Abstract!tenant
  <2>1. ASSUME NEW c \in Cells, route = ZeroRoute, route' = Resting(c, 1)
        PROVE  Abstract!Next
    <3>1. Abstract!Place(c)
      BY <2>1 DEF Abstract!Place, ZeroRoute, Resting
    <3> QED BY <3>1 DEF Abstract!Next
  <2>2. ASSUME NEW from \in Cells, NEW to \in Cells, from # to, route.state = "ACTIVE",
               route.epoch >= 1, route' = Quiescing(route, from, to)
        PROVE  Abstract!Next
    <3>1. /\ route'.active = route.active /\ route'.epoch = route.epoch
          /\ route'.source = from /\ route'.target = to
      BY <2>2, <2>t DEF Quiescing, Routes
    <3>2. route.source = NoCell /\ route.target = NoCell /\ route.epoch > 0
      BY <2>2, <2>t DEF RouteInv
    <3>3. Abstract!Begin(from, to)
      BY <2>2, <3>1, <3>2 DEF Abstract!Begin, Abstract!Idle
    <3> QED BY <3>3 DEF Abstract!Next
  <2>3. ASSUME NEW c \in {route.source, route.target}, route.state \in MovingStates,
               c \in Cells, route' = Resting(c, route.epoch + 2)
        PROVE  Abstract!Next
    <3>1. route.source # NoCell
      BY <2>3, <2>t, ConstantsAssumption DEF RouteInv
    <3>2. Abstract!Settle(c)
      BY <2>3, <3>1 DEF Abstract!Settle, Abstract!Idle, Resting
    <3> QED BY <2>3, <3>2 DEF Abstract!Next
  <2> QED BY <2>0, <2>1, <2>2, <2>3, RouteSteps DEF RouteStep
<1> QED BY <1>1, <1>2, IInvHolds, PTL DEF Spec, Implements, Abstract!Spec

-----------------------------------------------------------------------------
(* No move is abandoned. *)

(* Driver d will not return before the move that the route is in has ended: *)
(* it is about to read the route for a Rollback, or drives that very move.  *)
Engaged(d) ==
    \/ pc[d] = "rbGet"
    \/ pc[d] \in ForwardPcs \cup {"rbOwner", "rbEvents", "rbCas"} /\ exp[d].epoch = route.epoch

(* Every frame of continueMove lies inside one that answers an error with a *)
(* Rollback.                                                                *)
Backed(d) == pc[d] \in ForwardPcs => depth[d] >= 1

Guarded ==
    /\ \A d \in Drivers : Backed(d)
    /\ faults = 0 /\ crashes = 0 /\ route.state \in MovingStates =>
          \E d \in Drivers : Engaged(d)

GuardInv == IInv /\ Guarded

(* A step of d: the control point and the memory of the others stay. *)
Only(d) ==
    \A x \in Drivers \ {d} : pc'[x] = pc[x] /\ exp'[x] = exp[x] /\ depth'[x] = depth[x]

(* How a step of d leaves d backed and, where it was, engaged. *)
Stays(d) ==
    /\ Only(d) /\ Backed(d)'
    /\ /\ Engaged(d)
       /\ route.state \in MovingStates
       /\ route'.state \in MovingStates /\ route'.epoch = route.epoch
       => Engaged(d)'

LEMMA ReturnOnly ==
    ASSUME TypeOK, NEW d \in Drivers, NEW o, Return(d, o)
    PROVE  Only(d) /\ pc'[d] = "idle" /\ Backed(d)'
BY DEF TypeOK, LocalTypeOK, Return, Goto, DropPhase, Only, Backed, ForwardPcs

LEMMA FailOnly ==
    ASSUME TypeOK, NEW d \in Drivers, Fail(d)
    PROVE  Only(d) /\ Backed(d)' /\ (depth[d] >= 1 => pc'[d] = "rbGet")
<1>0. depth[d] \in 0..2
  BY DEF TypeOK, LocalTypeOK
<1>1. CASE depth[d] > 0
  BY <1>1 DEF TypeOK, LocalTypeOK, Fail, Goto, DropPhase, Only, Backed, ForwardPcs
<1>2. CASE ~(depth[d] > 0)
  BY <1>0, <1>2, ReturnOnly DEF Fail
<1> QED BY <1>1, <1>2

LEMMA GotoOnly ==
    ASSUME TypeOK, NEW d \in Drivers, NEW l, Goto(d, l), UNCHANGED <<exp, depth>>
    PROVE  Only(d) /\ pc'[d] = l /\ exp'[d] = exp[d] /\ depth'[d] = depth[d]
BY DEF TypeOK, LocalTypeOK, Goto, Only

LEMMA ContinueOnly ==
    ASSUME TypeOK, NEW d \in Drivers, NEW r, r.state \in MovingStates, Continue(d, r),
           \A x \in Drivers \ {d} : depth'[x] = depth[x]
    PROVE  Only(d) /\ pc'[d] \in ForwardPcs /\ exp'[d] = r
<1>1. PhaseOf(r.state) \in ForwardPcs
  BY DEF PhaseOf, MovingStates, ForwardPcs
<1> QED BY <1>1 DEF TypeOK, LocalTypeOK, Continue, Goto, Only

LEMMA ForwardIsNot == "rbGet" \notin ForwardPcs /\ "idle" \notin ForwardPcs
BY DEF ForwardPcs

(* A forward step that ends where it should, or fails. *)
LEMMA ForwardStays ==
    ASSUME TypeOK, NEW d \in Drivers, Backed(d), pc[d] \in ForwardPcs,
           \/ Fail(d)
           \/ \E l \in ForwardPcs : Goto(d, l) /\ UNCHANGED <<exp, depth>>
    PROVE  Stays(d)
<1>1. CASE Fail(d)
  BY <1>1, FailOnly DEF Stays, Backed, Engaged
<1>2. ASSUME NEW l \in ForwardPcs, Goto(d, l), UNCHANGED <<exp, depth>> PROVE Stays(d)
  BY <1>2, GotoOnly, ForwardIsNot DEF Stays, Backed, Engaged
<1> QED BY <1>1, <1>2

(* The calls of the controller that only begin one. *)
LEMMA StaysOut ==
    ASSUME TypeOK, NEW d \in Drivers, pc[d] \notin ForwardPcs \cup RollbackPcs,
           Only(d), Backed(d)'
    PROVE  Stays(d)
BY DEF Stays, Engaged, ForwardPcs, RollbackPcs

LEMMA ResumeFromStays ==
    ASSUME TypeOK, NEW d \in Drivers, NEW k \in 0..1, ResumeFrom(d, route, k)
    PROVE  Only(d) /\ Backed(d)'
<1>1. CASE Return(d, "ok")
  BY <1>1, ReturnOnly
<1>2. CASE /\ Goto(d, "rbGet") /\ depth' = [depth EXCEPT ![d] = k]
           /\ UNCHANGED <<exp, want, bar, tgt, err, ret>>
  BY <1>2 DEF TypeOK, LocalTypeOK, Goto, Only, Backed, ForwardPcs
<1>3. CASE /\ route.state \in MovingStates /\ Continue(d, route)
           /\ depth' = [depth EXCEPT ![d] = k + 1]
  <2>1. depth'[d] = k + 1 /\ \A x \in Drivers \ {d} : depth'[x] = depth[x]
    BY <1>3 DEF TypeOK, LocalTypeOK
  <2> QED BY <1>3, <2>1, ContinueOnly DEF Backed
<1> QED BY <1>1, <1>2, <1>3 DEF ResumeFrom

LEMMA EntryStays ==
    ASSUME TypeOK, NEW d \in Drivers,
           MoveGet(d) \/ ResumeGet(d) \/ AssignGet(d) \/ AssignOwner(d) \/ AssignCas(d)
    PROVE  Stays(d)
<1>0. pc[d] \notin ForwardPcs \cup RollbackPcs
  BY DEF MoveGet, ResumeGet, AssignGet, AssignOwner, AssignCas, ForwardPcs, RollbackPcs
<1> SUFFICES Only(d) /\ Backed(d)'
  BY <1>0, StaysOut
<1>1. CASE MoveGet(d)
  <2>1. CASE Goto(d, "begin") /\ exp' = [exp EXCEPT ![d] = route]
             /\ depth' = [depth EXCEPT ![d] = 1]
    BY <2>1 DEF TypeOK, LocalTypeOK, Goto, Only, Backed
  <2>2. CASE ResumeFrom(d, route, 1)
    BY <2>2, ResumeFromStays
  <2>3. CASE \E o \in {"ok", "err"} : Return(d, o)
    BY <2>3, ReturnOnly
  <2> QED BY <1>1, <2>1, <2>2, <2>3 DEF MoveGet
<1>2. CASE ResumeGet(d)
  BY <1>2, ResumeFromStays DEF ResumeGet
<1>3. CASE AssignGet(d)
  <2>1. CASE \E l \in {"assignOwner", "moveGet"} : Goto(d, l) /\ UNCHANGED local
    BY <2>1, GotoOnly DEF local, Backed, ForwardPcs
  <2>2. CASE \E o \in {"ok", "err"} : Return(d, o)
    BY <2>2, ReturnOnly
  <2> QED BY <1>3, <2>1, <2>2 DEF AssignGet
<1>4. CASE AssignOwner(d)
  <2>1. CASE Goto(d, "assignCas") /\ UNCHANGED local
    BY <2>1, GotoOnly DEF local, Backed, ForwardPcs
  <2> QED BY <1>4, <2>1, FailOnly DEF AssignOwner
<1>5. CASE AssignCas(d)
  <2>1. CASE Goto(d, "assignGet") /\ UNCHANGED local
    BY <2>1, GotoOnly DEF local, Backed, ForwardPcs
  <2> QED BY <1>5, <2>1, ReturnOnly DEF AssignCas
<1> QED BY <1>1, <1>2, <1>3, <1>4, <1>5

(* A compare-and-set inside continueMove: on success d remembers what it    *)
(* stored, at the epoch it remembered; on a conflict it goes on to re-read. *)
LEMMA CasStays ==
    ASSUME TypeOK, NEW d \in Drivers, Backed(d), pc[d] \in ForwardPcs,
           NEW next, next.epoch = exp[d].epoch, NEW w, NEW l \in ForwardPcs,
           Cas(d, next, w, l)
    PROVE  Stays(d)
<1>1. CASE Fail(d)
  BY <1>1, ForwardStays
<1>2. CASE /\ exp' = [exp EXCEPT ![d] = next] /\ Goto(d, l) /\ UNCHANGED depth
  <2>1. Only(d) /\ pc'[d] = l /\ exp'[d] = next /\ depth'[d] = depth[d]
    BY <1>2 DEF TypeOK, LocalTypeOK, Goto, Only
  <2> QED BY <2>1, ForwardIsNot DEF Stays, Backed, Engaged
<1>3. CASE Goto(d, "reget") /\ UNCHANGED <<exp, depth>>
  BY <1>3, ForwardStays DEF ForwardPcs
<1> QED BY <1>1, <1>2, <1>3 DEF Cas

LEMMA PhaseStays ==
    ASSUME TypeOK, NEW d \in Drivers, Backed(d),
           \/ Drain(d) \/ CasDraining(d) \/ Seal(d) \/ Pause(d) \/ WaitDrained(d)
           \/ CasCopying(d) \/ CasCommitting(d) \/ CommitOwner(d) \/ ResumeEvents(d)
    PROVE  Stays(d)
<1>0. pc[d] \in ForwardPcs
  BY DEF Drain, CasDraining, Seal, Pause, WaitDrained, CasCopying, CasCommitting, CommitOwner,
         ResumeEvents, ForwardPcs
<1>1. CASE Drain(d) \/ Seal(d) \/ Pause(d) \/ WaitDrained(d) \/ CommitOwner(d) \/ ResumeEvents(d)
  <2>1. \/ Fail(d)
        \/ \E l \in {"casDraining", "pause", "waitDrained", "casCopying", "resumeEvents",
                     "casActive"} : Goto(d, l) /\ UNCHANGED local
    BY <1>1 DEF Drain, Seal, Pause, WaitDrained, CommitOwner, ResumeEvents
  <2>2. \/ Fail(d)
        \/ \E l \in ForwardPcs : Goto(d, l) /\ UNCHANGED <<exp, depth>>
    BY <2>1 DEF local, ForwardPcs
  <2> QED BY <1>0, <2>2, ForwardStays
<1>2. CASE CasDraining(d) \/ CasCopying(d) \/ CasCommitting(d)
  <2>1. exp[d] \in Routes
    BY ReadTypes
  <2>2. CASE CasDraining(d)
    <3> DEFINE next == [exp[d] EXCEPT !.state = "DRAINING"]
    <3>1. next.epoch = exp[d].epoch /\ "seal" \in ForwardPcs
      BY <2>1 DEF Routes, ForwardPcs
    <3>2. Cas(d, next, "DRAINING", "seal")
      BY <2>2 DEF CasDraining
    <3> QED BY <1>0, <3>1, <3>2, CasStays
  <2>3. CASE CasCopying(d)
    <3> DEFINE next == [exp[d] EXCEPT !.state = "COPYING", !.evPolicy = "PAUSE",
                                      !.evEpoch = bar[d]]
    <3>1. next.epoch = exp[d].epoch /\ "casCommitting" \in ForwardPcs
      BY <2>1 DEF Routes, ForwardPcs
    <3>2. Cas(d, next, "COPYING", "casCommitting")
      BY <2>3 DEF CasCopying
    <3> QED BY <1>0, <3>1, <3>2, CasStays
  <2>4. CASE CasCommitting(d)
    <3> DEFINE next == [exp[d] EXCEPT !.state = "COMMITTING"]
    <3>1. next.epoch = exp[d].epoch /\ "commitOwner" \in ForwardPcs
      BY <2>1 DEF Routes, ForwardPcs
    <3>2. Cas(d, next, "COMMITTING", "commitOwner")
      BY <2>4 DEF CasCommitting
    <3> QED BY <1>0, <3>1, <3>2, CasStays
  <2> QED BY <1>2, <2>2, <2>3, <2>4
<1> QED BY <1>1, <1>2

(* The first and the last compare-and-set, and the re-read. *)
LEMMA EndsStay ==
    ASSUME TypeOK, NEW d \in Drivers, Backed(d), Begin(d) \/ CasActive(d) \/ Reget(d)
    PROVE  Stays(d)
<1>0. pc[d] \in ForwardPcs
  BY DEF Begin, CasActive, Reget, ForwardPcs
<1>1. CASE Goto(d, "reget") /\ UNCHANGED <<exp, depth>>
  BY <1>0, <1>1, ForwardStays DEF ForwardPcs
<1>2. CASE Fail(d)
  BY <1>0, <1>2, ForwardStays
<1>3. CASE Begin(d)
  <2> DEFINE next == Quiescing(exp[d], plan[d].from, plan[d].to)
  <2>1. CASE Continue(d, next) /\ UNCHANGED depth
    <3>1. exp[d] \in Routes
      BY ReadTypes
    <3>2. next.epoch = exp[d].epoch /\ next.state \in MovingStates
      BY <3>1 DEF Quiescing, Routes, MovingStates
    <3>3. Only(d) /\ pc'[d] \in ForwardPcs /\ exp'[d] = next /\ depth'[d] = depth[d]
      BY <2>1, <3>2, ContinueOnly
    <3> QED BY <1>0, <3>2, <3>3, ForwardIsNot DEF Stays, Backed, Engaged
  <2> QED BY <1>1, <1>3, <2>1 DEF Begin
<1>4. CASE CasActive(d)
  <2>1. CASE route' = Resting(tgt[d], bar[d] + 1) /\ Return(d, "ok")
    <3>1. route'.state \notin MovingStates
      BY <2>1 DEF Resting, MovingStates
    <3> QED BY <2>1, <3>1, ReturnOnly DEF Stays
  <2> QED BY <1>1, <1>2, <1>4, <2>1 DEF CasActive
<1>5. CASE Reget(d)
  <2>0. route' = route
    BY <1>5 DEF Reget, shared
  <2>1. CASE route.state \in MovingStates /\ Continue(d, route) /\ UNCHANGED depth
    <3>1. Only(d) /\ pc'[d] \in ForwardPcs /\ exp'[d] = route /\ depth'[d] = depth[d]
      BY <2>1, ContinueOnly
    <3> QED BY <1>0, <2>0, <3>1 DEF Stays, Backed, Engaged
  <2>2. CASE /\ route.state \in MovingStates /\ Goto(d, PhaseOf(route.state))
             /\ exp' = [exp EXCEPT ![d] = route] /\ UNCHANGED depth
    <3>1. PhaseOf(route.state) \in ForwardPcs
      BY <2>2 DEF PhaseOf, MovingStates, ForwardPcs
    <3>2. /\ Only(d) /\ pc'[d] \in ForwardPcs /\ exp'[d] = route /\ depth'[d] = depth[d]
      BY <2>2, <3>1 DEF TypeOK, LocalTypeOK, Goto, Only
    <3> QED BY <1>0, <2>0, <3>2 DEF Stays, Backed, Engaged
  <2>3. CASE route.state = "ACTIVE" /\ Return(d, "ok")
    BY <2>3, ReturnOnly DEF Stays, MovingStates
  <2> QED BY <1>2, <1>5, <2>1, <2>2, <2>3 DEF Reget, StepLanded, MovingStates
<1> QED BY <1>3, <1>4, <1>5

(* A Rollback of the current move is refused by neither the fence nor the   *)
(* event barrier: it ends the move or reads the route again.                *)
LEMMA RollbackStays ==
    ASSUME IInv, FencerKind = "mem", NEW d \in Drivers,
           RbGet(d) \/ RbOwner(d) \/ RbEvents(d) \/ RbCas(d)
    PROVE  Stays(d)
<1>T. TypeOK /\ FenceInv /\ EventInv /\ PcInv(d)
  BY ReadInv
<1>N. /\ route.epoch \in Nat /\ fence.epoch \in Nat /\ events.epoch \in Nat
      /\ exp[d].epoch \in Nat
  BY <1>T, ReadTypes
<1>1. CASE RbGet(d)
  <2>1. CASE AdmitsNew(route.state) /\ RollbackDone(d)
    <3>1. Only(d) /\ Backed(d)'
      BY <1>T, <2>1, FailOnly, ReturnOnly DEF RollbackDone
    <3> QED BY <2>1, <3>1 DEF Stays, AdmitsNew, RestingStates, MovingStates
  <2>2. CASE ~AdmitsNew(route.state)
    <3>1. /\ Only(d) /\ pc'[d] = "rbOwner" /\ exp'[d] = route /\ route' = route
      BY <1>T, <1>1, <2>2 DEF RbGet, TypeOK, LocalTypeOK, Goto, Only, shared
    <3> QED BY <3>1 DEF Stays, Backed, Engaged, ForwardPcs
  <2> QED BY <1>1, <2>1, <2>2 DEF RbGet
<1>2. ASSUME exp[d].epoch = route.epoch, exp[d].state \in MovingStates
      PROVE  SetOwnerAccepts(fence, RollbackEpoch(exp[d]))
             /\ SetPolicyAccepts(events, RollbackEpoch(exp[d]))
  <2>1. RollbackEpoch(exp[d]) = route.epoch + 2
    BY <1>2, RollbackFacts
  <2> QED BY <1>T, <1>N, <2>1 DEF FenceInv, EventInv, SetOwnerAccepts, SetPolicyAccepts
<1>3. CASE RbOwner(d)
  <2>1. CASE Goto(d, "rbEvents") /\ UNCHANGED local
    BY <1>3, <1>T, <2>1, GotoOnly DEF RbOwner, Stays, Backed, Engaged, local, ForwardPcs
  <2>2. CASE Fail(d) /\ ~SetOwnerAccepts(fence, RollbackEpoch(exp[d]))
    <3>1. exp[d].epoch # route.epoch
      BY <1>2, <1>3, <1>T, <2>2 DEF RbOwner, PcInv
    <3> QED BY <1>3, <1>T, <2>2, <3>1, FailOnly DEF RbOwner, Stays, Engaged
  <2> QED BY <1>3, <2>1, <2>2 DEF RbOwner
<1>4. CASE RbEvents(d)
  <2>1. CASE Goto(d, "rbCas") /\ UNCHANGED local
    BY <1>4, <1>T, <2>1, GotoOnly DEF RbEvents, Stays, Backed, Engaged, local, ForwardPcs
  <2>2. CASE Fail(d) /\ ~SetPolicyAccepts(events, RollbackEpoch(exp[d]))
    <3>1. exp[d].epoch # route.epoch
      BY <1>2, <1>4, <1>T, <2>2 DEF RbEvents, PcInv
    <3> QED BY <1>4, <1>T, <2>2, <3>1, FailOnly DEF RbEvents, Stays, Engaged
  <2> QED BY <1>4, <2>1, <2>2 DEF RbEvents
<1>5. CASE RbCas(d)
  <2>1. CASE /\ route' = Resting(RollbackCell(exp[d]), RollbackEpoch(exp[d]))
             /\ RollbackDone(d)
    <3>1. Only(d) /\ Backed(d)'
      BY <1>T, <2>1, FailOnly, ReturnOnly DEF RollbackDone
    <3>2. route'.state \notin MovingStates
      BY <2>1 DEF Resting, MovingStates
    <3> QED BY <3>1, <3>2 DEF Stays
  <2>2. CASE Goto(d, "rbGet") /\ UNCHANGED local
    BY <1>T, <2>2, GotoOnly DEF Stays, Backed, Engaged, local, ForwardPcs
  <2> QED BY <1>5, <2>1, <2>2 DEF RbCas
<1> QED BY <1>1, <1>3, <1>4, <1>5

(* Guarded is inductive: the driver that begins a move is engaged in it. *)
LEMMA GuardedStep ==
    ASSUME GuardInv, [Next]_vars, FencerKind = "mem", MaxDeletes = 0
    PROVE  Guarded'
<1> USE DEF GuardInv
<1>T. TypeOK
  BY DEF IInv
<1>0. CASE UNCHANGED vars
  BY <1>0 DEF vars, Guarded, Backed, Engaged
<1>d. CASE Delete
  BY <1>d DEF Delete, IInv
<1>1. ASSUME NEW d \in Drivers, Call(d) PROVE Guarded'
  <2>1. PICK l \in CallPcs \cup {"rbGet"} : Goto(d, l)
    BY <1>1 DEF Call, CallMove, CallResume, CallRollback, CallAssign, StartCall, CallPcs
  <2>2. /\ UNCHANGED <<route, exp, depth, faults, crashes>> /\ pc[d] = "idle"
    BY <1>1 DEF Call, CallMove, CallResume, CallRollback, CallAssign, StartCall, local, shared
  <2>3. Only(d) /\ pc'[d] = l
    BY <1>T, <2>1, <2>2, GotoOnly
  <2>4. Backed(d)'
    BY <2>3 DEF Backed, CallPcs, ForwardPcs
  <2>5. ~Engaged(d)
    BY <2>2 DEF Engaged, ForwardPcs
  <2> QED BY <2>2, <2>3, <2>4, <2>5 DEF Guarded, Backed, Engaged, Only
<1>2. ASSUME NEW d \in Drivers, Fault(d) \/ Crash(d) PROVE Guarded'
  <2>1. Only(d) /\ Backed(d)'
    BY <1>2, <1>T, FailOnly, ReturnOnly DEF Fault, Crash
  <2>2. faults \in Nat /\ crashes \in Nat
    BY <1>T DEF TypeOK, CallTypeOK
  <2>3. ~(faults' = 0 /\ crashes' = 0)
    BY <1>2, <2>2 DEF Fault, Crash
  <2> QED BY <2>1, <2>3 DEF Guarded, Backed, Only
<1>3. ASSUME NEW d \in Drivers, Step(d) PROVE Guarded'
  <2>0. Backed(d)
    BY DEF Guarded
  <2>1. Stays(d)
    BY <1>3, <1>T, <2>0, EntryStays, PhaseStays, EndsStay, RollbackStays DEF Step
  <2>2. \A x \in Drivers : Backed(x)'
    BY <2>1 DEF Stays, Only, Guarded, Backed
  <2>3. faults' = faults /\ crashes' = crashes
    BY <1>3 DEF Step, MoveGet, ResumeGet, AssignGet, AssignOwner, AssignCas, Begin, Reget,
       Drain, CasDraining, Seal, Pause, WaitDrained, CasCopying, CasCommitting, CommitOwner,
       ResumeEvents, CasActive, RbGet, RbOwner, RbEvents, RbCas, counts
  <2>4. ASSUME faults' = 0, crashes' = 0, route'.state \in MovingStates
        PROVE  \E x \in Drivers : Engaged(x)'
    <3>1. CASE route.state \in MovingStates
      <4>1. route'.epoch = route.epoch
        BY <2>4, <3>1, RouteSteps DEF RouteStep, Resting, ZeroRoute, MovingStates
      <4>2. PICK g \in Drivers : Engaged(g)
        BY <2>3, <2>4, <3>1 DEF Guarded
      <4>3. Engaged(g)'
        BY <2>1, <2>4, <3>1, <4>1, <4>2 DEF Stays, Only, Engaged
      <4> QED BY <4>3
    <3>2. CASE route.state \notin MovingStates
      <4>0. route' # route
        BY <2>4, <3>2
      <4>1. CASE Begin(d)
        <5>1. Matches(route, exp[d]) /\ route' = Quiescing(exp[d], plan[d].from, plan[d].to)
          BY <4>0, <4>1 DEF Begin
        <5>2. Continue(d, route') /\ UNCHANGED depth
          BY <4>0, <4>1 DEF Begin
        <5>3. pc'[d] \in ForwardPcs /\ exp'[d] = route'
          BY <1>T, <2>4, <5>2, ContinueOnly
        <5> QED BY <5>3 DEF Engaged
      <4>2. CASE CasDraining(d) \/ CasCopying(d) \/ CasCommitting(d)
        <5>1. Matches(route, exp[d])
          BY <4>0, <4>2 DEF CasDraining, CasCopying, CasCommitting, Cas
        <5>2. exp[d].state \in MovingStates
          BY <4>2, ReadInv DEF PcInv, CasDraining, CasCopying, CasCommitting, MovingStates
        <5> QED BY <3>2, <5>1, <5>2 DEF Matches
      <4>3. CASE AssignCas(d) \/ CasActive(d) \/ RbCas(d)
        <5>1. route'.state = "ACTIVE"
          BY <4>0, <4>3 DEF AssignCas, CasActive, RbCas, Resting
        <5> QED BY <2>4, <5>1 DEF MovingStates
      <4> QED BY <1>3, <4>0, <4>1, <4>2, <4>3 DEF Step, MoveGet, ResumeGet, AssignGet,
             AssignOwner, Reget, Drain, Seal, Pause, WaitDrained, CommitOwner, ResumeEvents,
             RbGet, RbOwner, RbEvents, shared
    <3> QED BY <3>1, <3>2
  <2> QED BY <2>2, <2>4 DEF Guarded
<1> QED BY <1>0, <1>d, <1>1, <1>2, <1>3 DEF Next

(* A move that no fault and no crash has interrupted is not abandoned: when *)
(* the last driver returns, the route rests.  Each Rollback frame runs, and *)
(* neither fence nor event barrier refuses the one of the current move      *)
(* (Move, resumeFrom, Rollback).                                            *)
THEOREM NothingAbandoned ==
    ASSUME FencerKind = "mem", MaxDeletes = 0
    PROVE  Spec => []NoAbandonedMove
<1>1. Init => GuardInv
  <2>1. Init => Guarded
    BY DEF Init, Guarded, Backed, ForwardPcs, ZeroRoute, MovingStates
  <2> QED BY <2>1, IInvInit DEF GuardInv
<1>2. GuardInv /\ [Next]_vars => GuardInv'
  BY IInvStep, GuardedStep DEF GuardInv
<1>3. GuardInv => NoAbandonedMove
  <2> SUFFICES ASSUME GuardInv, AllIdle, faults = 0, crashes = 0
               PROVE  AdmitsNew(route.state)
    BY DEF NoAbandonedMove
  <2>1. \A d \in Drivers : ~Engaged(d)
    BY DEF AllIdle, Engaged, ForwardPcs
  <2>2. route.state \notin MovingStates /\ route.state \in States
    BY <2>1 DEF GuardInv, Guarded, IInv, TypeOK, SharedTypeOK, Routes
  <2> QED BY <2>2 DEF AdmitsNew, States
<1> QED BY <1>1, <1>2, <1>3, PTL DEF Spec
=============================================================================
