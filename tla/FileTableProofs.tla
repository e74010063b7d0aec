-------------------------- MODULE FileTableProofs ---------------------------
(***************************************************************************)
(* Proofs about FileTable, for every set of processes and tenants and      *)
(* every number of calls and deaths: the file is the atomic table that     *)
(* RoutingTable promises.                                                  *)
(***************************************************************************)
EXTENDS FileTable, TLAPS

-----------------------------------------------------------------------------
(* Types. *)

LEMMA ConstantTypes ==
    /\ Absent \in Routes /\ Empty \in Docs /\ Idle \in Call
    /\ Empty.routes \in [Tenants -> Routes]
BY DEF Absent, Empty, Idle, Routes, Docs, Call, Pcs, Ops, States

LEMMA TypeInit == Init => TypeOK
<1> SUFFICES ASSUME Init PROVE TypeOK
  OBVIOUS
<1>1. calls \in 0 .. MaxCalls /\ deaths \in 0 .. MaxDeaths
  BY FileAssumption DEF Init
<1>2. watch \in [pc : {"off", "tick", "emit"}, prev : Docs, doc : Docs]
  BY ConstantTypes DEF Init
<1>3. proc \in [Procs -> Call] /\ seen \in [Procs -> [Tenants -> Routes]]
  BY ConstantTypes DEF Init
<1> QED BY ConstantTypes, <1>1, <1>2, <1>3 DEF Init, TypeOK

(* A call that starts is well-typed. *)
LEMMA CallsType ==
    ASSUME TypeOK, NEW p \in Procs, NEW call \in Call, Calls(p, call)
    PROVE  TypeOK'
<1>1. [call EXCEPT !.pc = "lock"] \in Call
  BY DEF Call, Pcs
<1>2. proc' \in [Procs -> Call]
  BY <1>1 DEF Calls, TypeOK
<1>3. calls' \in 0 .. MaxCalls
  BY FileAssumption DEF Calls, TypeOK
<1> QED BY <1>2, <1>3 DEF Calls, TypeOK, fs

LEMMA GetType ==
    ASSUME TypeOK, NEW p \in Procs, Get(p)
    PROVE  TypeOK'
<1>1. [Idle EXCEPT !.op = "get"] \in Call
  BY ConstantTypes DEF Call, Ops
<1> QED BY <1>1, CallsType DEF Get

LEMMA DeleteType ==
    ASSUME TypeOK, NEW p \in Procs, NEW t \in Tenants, Delete(p, t)
    PROVE  TypeOK'
<1>1. [Idle EXCEPT !.op = "delete", !.tenant = t] \in Call
  BY ConstantTypes DEF Call, Ops
<1> QED BY <1>1, CallsType DEF Delete

(* The two routes a writer may ask for. *)
NextOf(r) == {[epoch |-> r.epoch + 1, state |-> "ACTIVE"],
              [epoch |-> r.epoch, state |-> "QUIESCING"]}

LEMMA NextType ==
    ASSUME NEW r \in Routes, NEW next \in NextOf(r)
    PROVE  /\ next \in Routes /\ next.state \in States
           /\ next.epoch \in {r.epoch, r.epoch + 1}
           /\ next = [epoch |-> next.epoch, state |-> next.state]
BY DEF NextOf, Routes, States

LEMMA CompareAndSetType ==
    ASSUME TypeOK, NEW p \in Procs, NEW t \in Tenants, CompareAndSet(p, t)
    PROVE  TypeOK'
<1>1. seen[p][t] \in Routes
  BY DEF TypeOK
<1>2. PICK next \in NextOf(seen[p][t]) :
          Calls(p, [Idle EXCEPT !.op = "set", !.tenant = t, !.expect = seen[p][t], !.next = next])
  BY DEF CompareAndSet, NextOf
<1>3. [Idle EXCEPT !.op = "set", !.tenant = t, !.expect = seen[p][t], !.next = next] \in Call
  BY <1>1, NextType, ConstantTypes DEF Call, Ops
<1> QED BY <1>2, <1>3, CallsType

LEMMA ChangedType ==
    ASSUME TypeOK, NEW p \in Procs
    PROVE  Changed(p) \in Docs
<1> DEFINE c == proc[p]
<1>1. c \in Call
  BY DEF TypeOK
<1>2. c.doc.rev + 1 \in Nat /\ c.doc.routes \in [Tenants -> Routes] /\ c.next \in Routes
  BY <1>1 DEF Call, Docs
<1>3. [c.doc.routes EXCEPT ![c.tenant] = c.next] \in [Tenants -> Routes]
  BY <1>2
<1>4. [rev |-> c.doc.rev + 1, routes |-> [c.doc.routes EXCEPT ![c.tenant] = c.next]] \in Docs
  BY <1>2, <1>3 DEF Docs
<1> QED BY <1>4 DEF Changed

LEMMA WorksType ==
    ASSUME TypeOK, NEW p \in Procs, Works(p) \/ Dies(p)
    PROVE  TypeOK'
<1> USE ConstantTypes DEF TypeOK, fs, At, Goto
<1>0. proc[p] \in Call
  OBVIOUS
<1>1. ASSUME NEW pc \in Pcs PROVE [proc EXCEPT ![p].pc = pc] \in [Procs -> Call]
  BY <1>0 DEF Call
<1>2. ASSUME Acquire(p) PROVE TypeOK'
  BY <1>1, <1>2 DEF Acquire, Pcs
<1>3. ASSUME TimeOut(p) \/ Unlock(p) PROVE TypeOK'
  BY <1>3 DEF TimeOut, Unlock
<1>4. ASSUME Load(p) PROVE TypeOK'
  <2>1. proc' \in [Procs -> Call]
    BY <1>0, <1>4 DEF Load, Call, Pcs
  <2>2. file.routes \in [Tenants -> Routes]
    BY DEF Docs
  <2> QED BY <1>4, <2>1, <2>2 DEF Load
<1>5. ASSUME Refuse(p) \/ WriteFails(p) PROVE TypeOK'
  BY <1>1, <1>5 DEF Refuse, WriteFails, Pcs
<1>6. ASSUME Truncate(p) PROVE TypeOK'
  BY <1>1, <1>6 DEF Truncate, Pcs
<1>7. ASSUME WriteFile(p) PROVE TypeOK'
  BY <1>1, <1>7, ChangedType DEF WriteFile, Pcs
<1>8. ASSUME Rename(p) PROVE TypeOK'
  BY <1>1, <1>8 DEF Rename, Pcs
<1>9. ASSUME Dies(p) PROVE TypeOK'
  BY <1>9, FileAssumption DEF Dies
<1> QED BY <1>2, <1>3, <1>4, <1>5, <1>6, <1>7, <1>8, <1>9 DEF Works

LEMMA WatchType ==
    ASSUME TypeOK, StartWatch \/ Watches
    PROVE  TypeOK'
<1> USE ConstantTypes DEF TypeOK, fs
<1>0. file.routes \in [Tenants -> Routes] /\ watch.doc.routes \in [Tenants -> Routes]
  BY DEF Docs
<1>1. ASSUME StartWatch PROVE TypeOK'
  BY <1>0, <1>1 DEF StartWatch
<1>2. ASSUME Poll PROVE TypeOK'
  BY <1>2 DEF Poll
<1>3. ASSUME Advance PROVE TypeOK'
  BY <1>3 DEF Advance
<1>4. ASSUME NEW t \in Tenants, Emit(t) PROVE TypeOK'
  <2>1. [watch.prev EXCEPT !.routes[t] = watch.doc.routes[t]] \in Docs
    BY <1>0 DEF Docs
  <2>2. watch' = [watch EXCEPT !.prev = [watch.prev EXCEPT !.routes[t] = watch.doc.routes[t]]]
    BY <1>4 DEF Emit
  <2>3. watch' \in [pc : {"off", "tick", "emit"}, prev : Docs, doc : Docs]
    BY <2>1, <2>2
  <2> QED BY <1>0, <1>4, <2>3 DEF Emit
<1> QED BY <1>1, <1>2, <1>3, <1>4 DEF Watches

LEMMA TypeStep == TypeOK /\ [Next]_vars => TypeOK'
<1> SUFFICES ASSUME TypeOK, [Next]_vars PROVE TypeOK'
  OBVIOUS
<1>1. CASE UNCHANGED vars
  BY <1>1 DEF vars, fs, TypeOK
<1>2. CASE Next
  BY <1>2, GetType, DeleteType, CompareAndSetType, WorksType, WatchType DEF Next
<1> QED BY <1>1, <1>2

(* The file, the temporary file, the calls and the watch stay well-typed:   *)
(* an empty temporary file is an empty table, never an unreadable one.      *)
THEOREM TypeCorrect == Spec => []TypeOK
BY TypeInit, TypeStep, PTL DEF Spec

-----------------------------------------------------------------------------
(* The inductive invariant of the refinement. *)

Inside(p) == proc[p].pc \notin {"idle", "lock"}

(* The lock file excludes: whoever is past O_EXCL is alone.  It may also be *)
(* there with nobody inside, once its owner has died.                       *)
OneInside ==
    \A p \in Procs : Inside(p) => lock /\ \A q \in Procs : Inside(q) => q = p

(* What a call asks for: a CompareAndSet moves on from the route its caller *)
(* expects.                                                                 *)
CallOK(c) ==
    /\ c.pc \notin {"idle", "unlock"} => c.op # "none"
    /\ c.pc \in {"apply", "write", "rename"} => c.op # "get"
    /\ c.op \in {"set", "delete"} => c.tenant \in Tenants
    /\ c.op = "set" => c.next \in NextOf(c.expect)
    /\ c.op = "delete" => c.next = Absent

CallsOK == \A p \in Procs : CallOK(proc[p])

(* What the process inside holds is still what is in the file, and what it  *)
(* is about to rename is the change it was asked for.                       *)
FreshOf(p) ==
    /\ proc[p].pc \in {"apply", "write", "rename"} => proc[p].doc = file
    /\ proc[p].pc \in {"write", "rename"} => Accepts(p)
    /\ proc[p].pc = "rename" => tmp = Changed(p)

Fresh == \A p \in Procs : FreshOf(p)

FileInv == TypeOK /\ OneInside /\ CallsOK /\ Fresh

LEMMA FileInvInit == Init => FileInv
<1> SUFFICES ASSUME Init PROVE FileInv
  OBVIOUS
<1>1. \A p \in Procs : proc[p].pc = "idle" /\ proc[p].op = "none"
  BY DEF Init, Idle
<1> QED BY <1>1, TypeInit DEF FileInv, OneInside, Inside, CallsOK, CallOK, Fresh, FreshOf

(* A step of one process leaves the calls of the others as they were. *)
Others(p) == \A q \in Procs \ {p} : proc'[q] = proc[q]

(* One process takes a step that leaves the file and the temporary file    *)
(* alone: the invariant carries over when it carries over for that process. *)
LEMMA LocalStep ==
    ASSUME FileInv, TypeOK', NEW p \in Procs, Others(p), UNCHANGED <<file, tmp>>,
           CallOK(proc'[p]), FreshOf(p)',
           Inside(p)' => lock' /\ \A q \in Procs : Inside(q) => q = p,
           \A q \in Procs \ {p} : Inside(q) => lock'
    PROVE  FileInv'
<1>1. OneInside'
  BY DEF FileInv, OneInside, Inside, Others
<1>2. CallsOK'
  BY DEF FileInv, CallsOK, Others
<1>3. ASSUME NEW q \in Procs \ {p} PROVE FreshOf(q)'
  BY DEF FileInv, Fresh, FreshOf, Others, Accepts, Changed
<1>4. Fresh'
  BY <1>3 DEF Fresh
<1> QED BY <1>1, <1>2, <1>4 DEF FileInv

(* The process that is inside may write: nobody else holds a document.      *)
LEMMA InsideStep ==
    ASSUME FileInv, TypeOK', NEW p \in Procs, Others(p), Inside(p), UNCHANGED lock,
           CallOK(proc'[p]), FreshOf(p)'
    PROVE  FileInv'
<1>1. \A q \in Procs \ {p} : proc'[q].pc \in {"idle", "lock"}
  BY DEF FileInv, OneInside, Inside, Others
<1>2. OneInside'
  BY <1>1 DEF FileInv, OneInside, Inside
<1>3. CallsOK'
  BY DEF FileInv, CallsOK, Others
<1>4. Fresh'
  BY <1>1 DEF Fresh, FreshOf
<1> QED BY <1>2, <1>3, <1>4 DEF FileInv

LEMMA CallsInv ==
    ASSUME FileInv, TypeOK', NEW p \in Procs, NEW call \in Call, Calls(p, call),
           CallOK([call EXCEPT !.pc = "lock"])
    PROVE  FileInv'
<1>1. proc'[p] = [call EXCEPT !.pc = "lock"] /\ Others(p)
  BY DEF Calls, Others, FileInv, TypeOK
<1>2. proc'[p].pc = "lock"
  BY <1>1 DEF Call
<1>3. FreshOf(p)' /\ ~Inside(p)'
  BY <1>2 DEF FreshOf, Inside
<1>4. UNCHANGED <<file, tmp, lock>>
  BY DEF Calls, fs
<1>5. \A q \in Procs \ {p} : Inside(q) => lock'
  BY <1>4 DEF FileInv, OneInside
<1> QED BY <1>1, <1>3, <1>4, <1>5, LocalStep

LEMMA StartInv ==
    ASSUME FileInv, TypeOK', NEW p \in Procs,
           Get(p) \/ \E t \in Tenants : CompareAndSet(p, t) \/ Delete(p, t)
    PROVE  FileInv'
<1>0. TypeOK
  BY DEF FileInv
<1>1. CASE Get(p)
  <2>1. [Idle EXCEPT !.op = "get"] \in Call
    BY ConstantTypes DEF Call, Ops
  <2>2. CallOK([[Idle EXCEPT !.op = "get"] EXCEPT !.pc = "lock"])
    BY DEF CallOK, Idle
  <2> QED BY <1>1, <2>1, <2>2, CallsInv DEF Get
<1>2. ASSUME NEW t \in Tenants, CompareAndSet(p, t) PROVE FileInv'
  <2>1. seen[p][t] \in Routes
    BY <1>0 DEF TypeOK
  <2>2. PICK next \in NextOf(seen[p][t]) :
            Calls(p, [Idle EXCEPT !.op = "set", !.tenant = t, !.expect = seen[p][t], !.next = next])
    BY <1>2 DEF CompareAndSet, NextOf
  <2> DEFINE call == [Idle EXCEPT !.op = "set", !.tenant = t, !.expect = seen[p][t], !.next = next]
  <2>3. call \in Call
    BY <2>1, NextType, ConstantTypes DEF Call, Ops
  <2>4. CallOK([call EXCEPT !.pc = "lock"])
    BY DEF CallOK, Idle
  <2> QED BY <2>2, <2>3, <2>4, CallsInv
<1>3. ASSUME NEW t \in Tenants, Delete(p, t) PROVE FileInv'
  <2> DEFINE call == [Idle EXCEPT !.op = "delete", !.tenant = t]
  <2>1. call \in Call
    BY ConstantTypes DEF Call, Ops
  <2>2. CallOK([call EXCEPT !.pc = "lock"])
    BY DEF CallOK, Idle
  <2> QED BY <1>3, <2>1, <2>2, CallsInv DEF Delete
<1> QED BY <1>1, <1>2, <1>3

(* The steps of a call. *)
LEMMA WorksInv ==
    ASSUME FileInv, TypeOK', NEW p \in Procs, Works(p) \/ Dies(p)
    PROVE  FileInv'
<1>0. proc \in [Procs -> Call] /\ proc[p] \in Call /\ CallOK(proc[p]) /\ FreshOf(p)
  BY DEF FileInv, TypeOK, CallsOK, Fresh
<1>1. ASSUME NEW pc, Goto(p, pc)
      PROVE  /\ Others(p)
             /\ proc'[p] = [proc[p] EXCEPT !.pc = pc]
             /\ proc'[p].pc = pc /\ proc'[p].op = proc[p].op
             /\ proc'[p].tenant = proc[p].tenant /\ proc'[p].expect = proc[p].expect
             /\ proc'[p].next = proc[p].next /\ proc'[p].doc = proc[p].doc
             /\ (Accepts(p) => Accepts(p)') /\ Changed(p)' = Changed(p)
  <2>1. Others(p) /\ proc'[p] = [proc[p] EXCEPT !.pc = pc]
    BY <1>0, <1>1 DEF Goto, Others
  <2>2. /\ proc'[p].pc = pc /\ proc'[p].op = proc[p].op
        /\ proc'[p].tenant = proc[p].tenant /\ proc'[p].expect = proc[p].expect
        /\ proc'[p].next = proc[p].next /\ proc'[p].doc = proc[p].doc
    BY <1>0, <2>1 DEF Call
  <2> QED BY <2>1, <2>2 DEF Accepts, Matches, Changed
<1>2. ASSUME Acquire(p) PROVE FileInv'
  <2>1. \A q \in Procs : ~Inside(q)
    BY <1>2 DEF Acquire, LockFree, FileInv, OneInside
  <2>2. CallOK(proc'[p]) /\ FreshOf(p)'
    BY <1>0, <1>1, <1>2 DEF Acquire, At, CallOK, FreshOf
  <2> QED BY <1>1, <1>2, <2>1, <2>2, LocalStep DEF Acquire
<1>3. ASSUME TimeOut(p) \/ Dies(p) PROVE FileInv'
  <2>1. Others(p) /\ proc'[p] = Idle /\ UNCHANGED <<file, tmp, lock>>
    BY <1>0, <1>3 DEF TimeOut, Dies, Others, fs
  <2>2. CallOK(proc'[p]) /\ FreshOf(p)' /\ ~Inside(p)'
    BY <2>1 DEF CallOK, FreshOf, Inside, Idle
  <2>3. \A q \in Procs \ {p} : Inside(q) => lock'
    BY <2>1 DEF FileInv, OneInside
  <2> QED BY <2>1, <2>2, <2>3, LocalStep
<1>4. ASSUME Unlock(p) PROVE FileInv'
  <2>1. Others(p) /\ proc'[p] = Idle /\ UNCHANGED <<file, tmp>>
    BY <1>0, <1>4 DEF Unlock, Others
  <2>2. CallOK(proc'[p]) /\ FreshOf(p)' /\ ~Inside(p)'
    BY <2>1 DEF CallOK, FreshOf, Inside, Idle
  <2>3. \A q \in Procs \ {p} : ~Inside(q)
    BY <1>4 DEF Unlock, At, FileInv, OneInside, Inside
  <2> QED BY <2>1, <2>2, <2>3, LocalStep
<1>5. ASSUME Load(p) PROVE FileInv'
  <2>1. /\ Others(p) /\ proc'[p].doc = file
        /\ proc'[p].pc = IF proc[p].op = "get" THEN "unlock" ELSE "apply"
        /\ proc'[p].op = proc[p].op /\ proc'[p].next = proc[p].next
        /\ proc'[p].tenant = proc[p].tenant /\ proc'[p].expect = proc[p].expect
    BY <1>0, <1>5 DEF Load, Others, Call
  <2>2. Inside(p) /\ UNCHANGED <<file, tmp, lock>>
    BY <1>5 DEF Load, At, Inside, fs
  <2>3. CallOK(proc'[p])
    BY <1>0, <1>5, <2>1 DEF CallOK, Load, At
  <2>4. FreshOf(p)'
    BY <2>1, <2>2 DEF FreshOf
  <2> QED BY <2>1, <2>2, <2>3, <2>4, InsideStep
<1>6. ASSUME Refuse(p) \/ WriteFails(p) PROVE FileInv'
  <2>1. Inside(p) /\ Goto(p, "unlock") /\ UNCHANGED <<file, tmp, lock>>
    BY <1>6 DEF Refuse, WriteFails, At, Inside, fs
  <2>2. proc'[p].pc = "unlock"
    BY <1>1, <2>1
  <2>3. CallOK(proc'[p])
    BY <1>0, <1>1, <2>1, <2>2 DEF CallOK
  <2>4. FreshOf(p)'
    BY <2>2 DEF FreshOf
  <2> QED BY <1>1, <2>1, <2>3, <2>4, InsideStep
<1>7. ASSUME Truncate(p) PROVE FileInv'
  <2>1. Inside(p) /\ Goto(p, "write") /\ UNCHANGED <<file, lock>>
    BY <1>7 DEF Truncate, At, Inside
  <2>2. CallOK(proc'[p]) /\ FreshOf(p)'
    BY <1>0, <1>1, <1>7, <2>1 DEF CallOK, FreshOf, Truncate, At
  <2> QED BY <1>1, <2>1, <2>2, InsideStep
<1>8. ASSUME WriteFile(p) PROVE FileInv'
  <2>1. Inside(p) /\ Goto(p, "rename") /\ UNCHANGED <<file, lock>>
    BY <1>8 DEF WriteFile, At, Inside
  <2>2. CallOK(proc'[p]) /\ FreshOf(p)'
    BY <1>0, <1>1, <1>8, <2>1 DEF CallOK, FreshOf, WriteFile, At
  <2> QED BY <1>1, <2>1, <2>2, InsideStep
<1>9. ASSUME Rename(p) PROVE FileInv'
  <2>1. Inside(p) /\ Goto(p, "unlock") /\ UNCHANGED lock
    BY <1>9 DEF Rename, At, Inside
  <2>2. proc'[p].pc = "unlock"
    BY <1>1, <2>1
  <2>3. CallOK(proc'[p])
    BY <1>0, <1>1, <2>1, <2>2 DEF CallOK
  <2>4. FreshOf(p)'
    BY <2>2 DEF FreshOf
  <2> QED BY <1>1, <2>1, <2>3, <2>4, InsideStep
<1> QED BY <1>2, <1>3, <1>4, <1>5, <1>6, <1>7, <1>8, <1>9 DEF Works

LEMMA FileInvStep == FileInv /\ [Next]_vars => FileInv'
<1> SUFFICES ASSUME FileInv, [Next]_vars PROVE FileInv'
  OBVIOUS
<1>1. TypeOK'
  BY TypeStep DEF FileInv
<1>2. ASSUME UNCHANGED <<fs, proc>> PROVE FileInv'
  BY <1>1, <1>2 DEF fs, FileInv, OneInside, Inside, CallsOK, Fresh, FreshOf, Accepts, Changed
<1>3. ASSUME UNCHANGED vars \/ StartWatch \/ Watches PROVE UNCHANGED <<fs, proc>>
  BY <1>3 DEF vars, StartWatch, Watches, Poll, Advance, Emit
<1> QED BY <1>1, <1>2, <1>3, StartInv, WorksInv DEF Next

-----------------------------------------------------------------------------
(* The refinement. *)

(* Only a rename changes the file, and what it puts there is the file with  *)
(* the one route changed that the call had found as its caller expects it.  *)
LEMMA OnlyRename ==
    ASSUME FileInv, [Next]_vars, file' # file
    PROVE  \E p \in Procs :
              /\ At(p, "rename") /\ file' = Changed(p) /\ proc[p].doc = file
              /\ Accepts(p) /\ CallOK(proc[p])
<1>1. ASSUME NEW p \in Procs, Rename(p)
      PROVE  /\ At(p, "rename") /\ file' = Changed(p) /\ proc[p].doc = file
             /\ Accepts(p) /\ CallOK(proc[p])
  BY <1>1 DEF Rename, At, FileInv, Fresh, FreshOf, CallsOK
<1>2. ASSUME UNCHANGED vars \/ StartWatch \/ Watches PROVE FALSE
  BY <1>2 DEF vars, fs, StartWatch, Watches, Poll, Advance, Emit
<1>3. ASSUME NEW p \in Procs, Get(p) \/ Dies(p) PROVE FALSE
  BY <1>3 DEF Get, Calls, Dies, fs
<1>4. ASSUME NEW p \in Procs, NEW t \in Tenants, CompareAndSet(p, t) \/ Delete(p, t) PROVE FALSE
  BY <1>4 DEF CompareAndSet, Delete, Calls, fs
<1>5. ASSUME NEW p \in Procs, Works(p), ~Rename(p) PROVE FALSE
  BY <1>5 DEF Works, Acquire, TimeOut, Load, Refuse, Truncate, WriteFile, WriteFails, Unlock, fs
<1> QED BY <1>1, <1>2, <1>3, <1>4, <1>5 DEF Next

LEMMA RefinementInit == Init => Table!Init
BY DEF Init, Empty, Absent, Table!Init, Table!Absent

(* The route a call replaces is the one its caller expected. *)
LEMMA ExpectedThere ==
    ASSUME NEW p \in Procs, Accepts(p), proc[p].op = "set"
    PROVE  proc[p].doc.routes[proc[p].tenant] = proc[p].expect
BY DEF Accepts, Matches

LEMMA RefinementStep == FileInv /\ [Next]_vars => [Table!Next]_(file.routes)
<1> SUFFICES ASSUME FileInv, [Next]_vars, file.routes' # file.routes PROVE Table!Next
  OBVIOUS
<1>1. PICK p \in Procs : /\ At(p, "rename") /\ file' = Changed(p) /\ proc[p].doc = file
                         /\ Accepts(p) /\ CallOK(proc[p])
  BY OnlyRename
<1> DEFINE c == proc[p]
<1>2. c \in Call /\ c.tenant \in Tenants /\ c.op \in {"set", "delete"}
  BY <1>1 DEF FileInv, TypeOK, CallOK, At, Call, Ops
<1>3. file.routes' = [file.routes EXCEPT ![c.tenant] = c.next]
  BY <1>1 DEF Changed
<1>4. CASE c.op = "delete"
  <2>1. Table!Delete(c.tenant)
    BY <1>1, <1>3, <1>4 DEF CallOK, Absent, Table!Delete, Table!Absent
  <2> QED BY <1>2, <2>1 DEF Table!Next
<1>5. CASE c.op = "set"
  <2>1. file.routes[c.tenant] = c.expect /\ c.next \in NextOf(c.expect) /\ c.expect \in Routes
    BY <1>1, <1>2, <1>5, ExpectedThere DEF CallOK, Call
  <2>2. /\ c.next.state \in States
        /\ c.next.epoch \in {c.expect.epoch, c.expect.epoch + 1}
        /\ c.next = [epoch |-> c.next.epoch, state |-> c.next.state]
    BY <2>1, NextType
  <2>3. c.next.epoch >= file.routes[c.tenant].epoch
    BY <2>1, <2>2 DEF Routes
  <2>4. Table!CompareAndSet(c.tenant, [epoch |-> c.next.epoch, state |-> c.next.state])
    BY <1>3, <2>2, <2>3 DEF Table!CompareAndSet
  <2> QED BY <1>2, <2>1, <2>2, <2>4 DEF Table!Next
<1> QED BY <1>2, <1>4, <1>5

(* The file-backed table is the atomic table: whatever process dies and     *)
(* wherever, and however old the routes are that callers expect, the file   *)
(* changes by a CompareAndSet or a Delete of one tenant at a time.          *)
THEOREM FileIsAtomic == Spec => Implements
BY FileInvInit, FileInvStep, RefinementInit, RefinementStep, PTL DEF Spec, Implements, Table!Spec

(* A CompareAndSet that changes the file replaces the route its caller      *)
(* expected, and the revision counts every change.                          *)
THEOREM NothingOverwritten == Spec => ReplacesExpected
<1>1. FileInv /\ [Next]_vars =>
          [(file' # file) =>
              /\ file'.rev = file.rev + 1
              /\ \E p \in Procs :
                    /\ At(p, "rename")
                    /\ proc[p].op = "set" => file.routes[proc[p].tenant] = proc[p].expect]_vars
  BY OnlyRename, ExpectedThere DEF Changed
<1> QED BY <1>1, FileInvInit, FileInvStep, PTL DEF Spec, ReplacesExpected
=============================================================================
