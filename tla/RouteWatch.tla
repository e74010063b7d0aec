----------------------------- MODULE RouteWatch -----------------------------
(***************************************************************************)
(* The routing table as its consumers see it: one tenant's route, changed  *)
(* by the move controller as TenantMove says, and the bounded channel on   *)
(* which MemTable announces every change to one watcher (cells/memtable.go)*)
(*                                                                         *)
(* MoveController refines TenantMove (its property Implements), so these   *)
(* are the route changes any number of racing drivers can make, a deletion *)
(* by an administrator added.                                              *)
(***************************************************************************)
EXTENDS Naturals, Sequences

CONSTANTS
    Cells, NoCell,
    Buffer,        \* capacity of the watch channel (memWatchBuffer)
    MaxEpoch,      \* bound: no move begins that would exceed it, a deletion
                   \* counting as a move
    MaxDeletes     \* bound: administrative route deletions

ASSUME WatchAssumption ==
    /\ NoCell \notin Cells
    /\ Buffer \in Nat \ {0}
    /\ MaxEpoch \in Nat /\ MaxDeletes \in Nat

VARIABLES
    owner, epoch, source, target,   \* the route, as in TenantMove
    watch,                          \* the watcher's channel
    lost,                           \* history: it did not get the latest change
    deletes

tenant    == <<owner, epoch, source, target>>
tableVars == <<tenant, watch, lost, deletes>>

Table == INSTANCE TenantMove

Resting == Table!Idle

(* RouteEvent: the new route, or the fact that it was removed. *)
Events == [active : Cells \cup {NoCell}, epoch : Nat,
           source : Cells \cup {NoCell}, deleted : BOOLEAN]

Event(a, e, s, del) == [active |-> a, epoch |-> e, source |-> s, deleted |-> del]

(* broadcast: a non-blocking send; a full channel drops the event. *)
Broadcast(ev) ==
    /\ lost' = (Len(watch) = Buffer)
    /\ watch' = IF Len(watch) < Buffer THEN Append(watch, ev) ELSE watch

TableInit == Table!Init /\ watch = <<>> /\ lost = FALSE /\ deletes = 0

(* CompareAndSet creates the route: Assign's first placement. *)
Place(c) == /\ Table!Place(c)
            /\ Broadcast(Event(c, 1, NoCell, FALSE))
            /\ UNCHANGED deletes

(* CompareAndSet to QUIESCING. *)
BeginMove(to) == /\ epoch + 2 * (1 + deletes) <= MaxEpoch
                 /\ Table!Begin(owner, to)
                 /\ Broadcast(Event(owner, epoch, owner, FALSE))
                 /\ UNCHANGED deletes

(* CompareAndSet to DRAINING, COPYING or COMMITTING: the same cells and     *)
(* epoch, announced again.                                                  *)
NextPhase == /\ ~Resting
             /\ Broadcast(Event(owner, epoch, source, FALSE))
             /\ UNCHANGED <<tenant, deletes>>

(* CompareAndSet to ACTIVE, on the target (commit) or on the source         *)
(* (rollback).                                                              *)
Settle(c) == /\ Table!Settle(c)
             /\ Broadcast(Event(c, epoch + 2, NoCell, FALSE))
             /\ UNCHANGED deletes

(* MemTable.Delete. *)
DeleteRoute ==
    /\ epoch > 0 /\ deletes < MaxDeletes
    /\ deletes' = deletes + 1
    /\ owner' = NoCell /\ epoch' = 0 /\ source' = NoCell /\ target' = NoCell
    /\ Broadcast(Event(NoCell, 0, NoCell, TRUE))
=============================================================================
