----------------------------- MODULE FileTable ------------------------------
(***************************************************************************)
(* The file-backed routing table of cells/filetable.go: processes that     *)
(* share a routes file through an O_EXCL lock file, a temporary file and a *)
(* rename, and a watch that polls the file.                                *)
(*                                                                         *)
(* A route is its epoch and state, which are what CompareAndSet compares.  *)
(* Each call of the file system is a step; a process may die at any.       *)
(***************************************************************************)
EXTENDS Naturals, FiniteSets

CONSTANTS
    Procs,       \* the processes that write (a service, the devedge cell CLI)
    Tenants,     \* the tenants in the file
    SeedFails,   \* whether the watch may fail to read the file when it starts
    MaxCalls,    \* bound: calls of the processes
    MaxDeaths    \* bound: processes that die

ASSUME FileAssumption ==
    /\ SeedFails \in BOOLEAN /\ MaxCalls \in Nat /\ MaxDeaths \in Nat

VARIABLES
    file,    \* the document at path
    tmp,     \* the document in the temporary file; an empty file is an empty table
    lock,    \* whether the lock file exists
    proc,    \* proc[p]: the call p is in and how far it is
    seen,    \* seen[p]: the routes p last read, its expect values
    watch,   \* the watch goroutine: its state, snapshot and pending document
    view,    \* view[t]: what the watch's reader believes
    calls, deaths

fs   == <<file, tmp, lock>>
vars == <<fs, proc, seen, watch, view, calls, deaths>>

States == {"ACTIVE", "QUIESCING"}
Absent == [epoch |-> 0, state |-> "none"]
Empty  == [rev |-> 0, routes |-> [t \in Tenants |-> Absent]]

Idle == [pc |-> "idle", op |-> "none", tenant |-> "none", expect |-> Absent,
         next |-> Absent, doc |-> Empty]

At(p, pc)   == proc[p].pc = pc
Goto(p, pc) == proc' = [proc EXCEPT ![p].pc = pc]

-----------------------------------------------------------------------------
(* The calls.  A writer's expect is what it last read, however old.         *)

Calls(p, call) ==
    /\ At(p, "idle") /\ calls < MaxCalls
    /\ proc' = [proc EXCEPT ![p] = [call EXCEPT !.pc = "lock"]]
    /\ calls' = calls + 1
    /\ UNCHANGED <<fs, seen, watch, view, deaths>>

Get(p) == Calls(p, [Idle EXCEPT !.op = "get"])

(* An assignment or the end of a move raises the epoch, a phase keeps it. *)
CompareAndSet(p, t) ==
    LET r == seen[p][t] IN
    \E next \in {[epoch |-> r.epoch + 1, state |-> "ACTIVE"],
                 [epoch |-> r.epoch, state |-> "QUIESCING"]} :
        /\ next.epoch > 0
        /\ Calls(p, [Idle EXCEPT !.op = "set", !.tenant = t, !.expect = r, !.next = next])

Delete(p, t) == Calls(p, [Idle EXCEPT !.op = "delete", !.tenant = t])

-----------------------------------------------------------------------------
(* withFileLock. *)

(* Mutant: the file is created without O_EXCL. *)
LockFreeAlways == TRUE

(* O_CREATE with O_EXCL succeeds for one caller. *)
LockFree == ~lock

Acquire(p) ==
    /\ At(p, "lock") /\ LockFree
    /\ lock' = TRUE /\ Goto(p, "load")
    /\ UNCHANGED <<file, tmp, seen, watch, view, calls, deaths>>

(* Mutant: the loop has no deadline. *)
GivesUpNever(p) == FALSE

(* The deadline passes while the lock file exists. *)
GivesUp(p) == At(p, "lock") /\ lock

TimeOut(p) ==
    /\ GivesUp(p)
    /\ proc' = [proc EXCEPT ![p] = Idle]
    /\ UNCHANGED <<fs, seen, watch, view, calls, deaths>>

(* loadLocked; Get's result is what later calls expect. *)
Load(p) ==
    /\ At(p, "load")
    /\ proc' = [proc EXCEPT ![p].doc = file,
                            ![p].pc = IF proc[p].op = "get" THEN "unlock" ELSE "apply"]
    /\ seen' = IF proc[p].op = "get" THEN [seen EXCEPT ![p] = file.routes] ELSE seen
    /\ UNCHANGED <<fs, watch, view, calls, deaths>>

(* The precondition: creation, or the same epoch and state. *)
Matches(cur, c) ==
    IF cur = Absent THEN c.expect = Absent
    ELSE cur = c.expect /\ c.next.epoch >= cur.epoch

Accepts(p) ==
    LET c == proc[p] cur == c.doc.routes[c.tenant] IN
    IF c.op = "set" THEN Matches(cur, c) ELSE cur # Absent

(* The document that storeLocked is given. *)
Changed(p) ==
    LET c == proc[p] IN
    [rev |-> c.doc.rev + 1, routes |-> [c.doc.routes EXCEPT ![c.tenant] = c.next]]

(* A conflict, or nothing to delete, returns. *)
Refuse(p) ==
    /\ At(p, "apply") /\ ~Accepts(p)
    /\ Goto(p, "unlock")
    /\ UNCHANGED <<fs, seen, watch, view, calls, deaths>>

(* WriteFile of the temporary file: first it is truncated, then written. *)
Truncate(p) ==
    /\ At(p, "apply") /\ Accepts(p)
    /\ tmp' = Empty /\ Goto(p, "write")
    /\ UNCHANGED <<file, lock, seen, watch, view, calls, deaths>>

WriteFile(p) ==
    /\ At(p, "write")
    /\ tmp' = Changed(p) /\ Goto(p, "rename")
    /\ UNCHANGED <<file, lock, seen, watch, view, calls, deaths>>

(* A full disk, for one: the call fails, and the lock is removed. *)
WriteFails(p) ==
    /\ At(p, "write")
    /\ Goto(p, "unlock")
    /\ UNCHANGED <<fs, seen, watch, view, calls, deaths>>

Rename(p) ==
    /\ At(p, "rename")
    /\ file' = tmp /\ tmp' = Empty
    /\ Goto(p, "unlock")
    /\ UNCHANGED <<lock, seen, watch, view, calls, deaths>>

(* The deferred Remove, and the return. *)
Unlock(p) ==
    /\ At(p, "unlock")
    /\ lock' = FALSE
    /\ proc' = [proc EXCEPT ![p] = Idle]
    /\ UNCHANGED <<file, tmp, seen, watch, view, calls, deaths>>

(* A process dies and is started again; a lock file it made stays. *)
Dies(p) ==
    /\ ~At(p, "idle") /\ deaths < MaxDeaths
    /\ proc' = [proc EXCEPT ![p] = Idle]
    /\ seen' = [seen EXCEPT ![p] = Empty.routes]
    /\ deaths' = deaths + 1
    /\ UNCHANGED <<fs, watch, view, calls>>

-----------------------------------------------------------------------------
(* The watch.  Its reader (a Router) has what it has read for itself and    *)
(* what the events tell it.                                                 *)

Watching(pc) == watch.pc = pc

(* Watch: the snapshot is the file, or empty when it cannot be read. *)
StartWatch ==
    /\ Watching("off")
    /\ \/ ~lock /\ watch' = [watch EXCEPT !.pc = "tick", !.prev = file]
       \/ SeedFails /\ lock /\ watch' = [watch EXCEPT !.pc = "tick", !.prev = Empty]
    /\ view' = file.routes
    /\ UNCHANGED <<fs, proc, seen, calls, deaths>>

(* One poll: lock, load, remove.  Nothing to do at the same revision. *)
Poll ==
    /\ Watching("tick") /\ ~lock
    /\ IF file.rev = watch.prev.rev
       THEN UNCHANGED watch
       ELSE watch' = [watch EXCEPT !.pc = "emit", !.doc = file]
    /\ UNCHANGED <<fs, proc, seen, view, calls, deaths>>

(* Mutant: routes that are gone from the document are not looked for. *)
DiffersSet(t) == watch.doc.routes[t] # Absent /\ watch.doc.routes[t] # watch.prev.routes[t]

(* Changed since the snapshot, or gone from it. *)
Differs(t) == watch.doc.routes[t] # watch.prev.routes[t]

Emit(t) ==
    /\ Watching("emit") /\ Differs(t)
    /\ view' = [view EXCEPT ![t] = watch.doc.routes[t]]
    /\ watch' = [watch EXCEPT !.prev.routes[t] = watch.doc.routes[t]]
    /\ UNCHANGED <<fs, proc, seen, calls, deaths>>

Advance ==
    /\ Watching("emit") /\ \A t \in Tenants : ~Differs(t)
    /\ watch' = [watch EXCEPT !.pc = "tick", !.prev = watch.doc]
    /\ UNCHANGED <<fs, proc, seen, view, calls, deaths>>

-----------------------------------------------------------------------------
Init ==
    /\ file = Empty /\ tmp = Empty /\ lock = FALSE
    /\ proc = [p \in Procs |-> Idle] /\ seen = [p \in Procs |-> Empty.routes]
    /\ watch = [pc |-> "off", prev |-> Empty, doc |-> Empty]
    /\ view = Empty.routes
    /\ calls = 0 /\ deaths = 0

(* A step of the call p is in. *)
Works(p) ==
    \/ Acquire(p) \/ TimeOut(p) \/ Load(p) \/ Refuse(p) \/ Truncate(p)
    \/ WriteFile(p) \/ WriteFails(p) \/ Rename(p) \/ Unlock(p)

Watches == Poll \/ Advance \/ \E t \in Tenants : Emit(t)

Next ==
    \/ \E p \in Procs :
          \/ Get(p) \/ Works(p) \/ Dies(p)
          \/ \E t \in Tenants : CompareAndSet(p, t) \/ Delete(p, t)
    \/ StartWatch \/ Watches

Spec == Init /\ [][Next]_vars

(* A call that is running goes on, to its deadline at the latest; the       *)
(* ticker of the watch keeps ticking.                                       *)
FairSpec == Spec /\ WF_vars(Watches) /\ \A p \in Procs : WF_vars(Works(p))

-----------------------------------------------------------------------------
(* Properties. *)

Pcs    == {"idle", "lock", "load", "apply", "write", "rename", "unlock"}
Ops    == {"none", "get", "set", "delete"}
Routes == [epoch : Nat, state : States \cup {"none"}]
Docs   == [rev : Nat, routes : [Tenants -> Routes]]
Call   == [pc : Pcs, op : Ops, tenant : Tenants \cup {"none"}, expect : Routes,
           next : Routes, doc : Docs]

TypeOK ==
    /\ file \in Docs /\ tmp \in Docs /\ lock \in BOOLEAN
    /\ proc \in [Procs -> Call] /\ seen \in [Procs -> [Tenants -> Routes]]
    /\ watch \in [pc : {"off", "tick", "emit"}, prev : Docs, doc : Docs]
    /\ view \in [Tenants -> Routes]
    /\ calls \in 0 .. MaxCalls /\ deaths \in 0 .. MaxDeaths

(* Whatever dies and wherever, the file is a table whose routes change one  *)
(* tenant at a time, by a CompareAndSet of the stored route or a Delete: no *)
(* process writes back the other tenants' routes from an older document,    *)
(* and nobody ever reads an unwritten one.                                  *)
Table == INSTANCE AtomicTable WITH table <- file.routes
Implements == Table!Spec

(* A CompareAndSet replaces the route its caller expected, not a newer one, *)
(* and the revision counts every change.                                    *)
ReplacesExpected ==
    [][(file' # file) =>
          /\ file'.rev = file.rev + 1
          /\ \E p \in Procs :
                /\ At(p, "rename")
                /\ proc[p].op = "set" => file.routes[proc[p].tenant] = proc[p].expect]_vars

(* Every call returns, even when a dead process has left its lock behind.   *)
CallsReturn == \A p \in Procs : ~At(p, "idle") ~> At(p, "idle")

(* Once the processes are quiet and the lock is free, the reader of the     *)
(* watch has the routes of the file: polling may skip a route but never the *)
(* last one, and never a deletion.                                          *)
Quiet == ~lock /\ ~Watching("off") /\ \A p \in Procs : At(p, "idle")
WatchCatchesUp == <>[]Quiet => <>[](view = file.routes)
=============================================================================
