----------------------------- MODULE WriteGuard -----------------------------
(***************************************************************************)
(* The storage fence under a service's own transactions: the write-guard   *)
(* of persistence/gormtx/fence.go, with the fencer's upsert as a           *)
(* transaction of its own, one tenant's requests with their admission      *)
(* tokens, and the moves that drain, seal and hand the tenant over.        *)
(*                                                                         *)
(* Cells share the database (a move's catch-up is "compute-only").  Reads  *)
(* see what is committed and lock nothing, as under READ COMMITTED.        *)
(* MoveController has every call a move makes; here a move is the calls    *)
(* that admit, drain and fence.                                            *)
(***************************************************************************)
EXTENDS Naturals, FiniteSets

CONSTANTS
    Cells,      \* at least two
    Txns,       \* the writing requests
    Streams,    \* those of a stream: held by the gate, no token in the context
    Strays,     \* those in a replica whose gate the driver does not drain
    Drivers,    \* move drivers; more than one is a Resume beside a Move
    MaxStmts,   \* bound: guarded statements of one transaction
    MaxMoves    \* bound: moves and rollbacks

ASSUME GuardAssumption ==
    /\ \A c \in Cells : \E x \in Cells : x # c
    /\ Streams \subseteq Txns /\ Strays \subseteq Txns /\ Streams \cap Strays = {}
    /\ MaxStmts \in Nat \ {0} /\ MaxMoves \in Nat

VARIABLES
    fence,   \* the committed tenant_fence row
    route,   \* the owner, its epoch and the state (the pause of events left out)
    tx,      \* tx[t]: where the request is, its token and what happened meanwhile
    step,    \* step[d]: the driver's next call
    copy,    \* copy[d]: the row the driver's upsert has read
    landed,  \* landed[c]: the highest epoch of cell c whose write has been committed
    moves

vars == <<fence, route, tx, step, copy, landed, moves>>

Steps == {"idle", "drain", "sealRead", "sealWrite", "cut", "ownRead", "ownWrite", "flip",
          "backRead", "backWrite", "backFlip"}

Barrier  == route.epoch + 1
Commits  == route.epoch + 2
Other(c) == CHOOSE x \in Cells : x # c

-----------------------------------------------------------------------------
(* Requests. *)

Held(t) == t \notin Strays /\ tx[t].st \in {"in", "checked", "written"}

(* The interceptors: a token of the owner at the route's epoch. *)
Admit(t) ==
    /\ tx[t].st = "none" /\ route.state = "ACTIVE"
    /\ tx' = [tx EXCEPT ![t] = [st |-> "in", cell |-> route.cell, epoch |-> route.epoch,
                                stmts |-> 0, crossed |-> FALSE]]
    /\ UNCHANGED <<fence, route, step, copy, landed, moves>>

(* Mutant: the epoch of the token is not compared. *)
AllowOwner(f, tk) == ~f.row \/ (~f.sealed /\ f.owner = tk.cell)

(* allow: no row, or an unsealed row with the token's cell and epoch. *)
Allow(f, tk) == ~f.row \/ (~f.sealed /\ f.owner = tk.cell /\ f.epoch = tk.epoch)

(* check: the guard of one statement, read in the statement's transaction.  *)
(* A writer without a token passes; a refusal rolls the transaction back.   *)
Check(t) ==
    /\ tx[t].st \in {"in", "written"} /\ tx[t].stmts < MaxStmts
    /\ IF t \in Streams \/ Allow(fence, tx[t])
       THEN tx' = [tx EXCEPT ![t].st = "checked", ![t].stmts = @ + 1, ![t].crossed = FALSE]
       ELSE tx' = [tx EXCEPT ![t].st = "aborted"]
    /\ UNCHANGED <<fence, route, step, copy, landed, moves>>

(* The statement itself, and the commit of Atomically. *)
Write(t) ==
    /\ tx[t].st = "checked"
    /\ tx' = [tx EXCEPT ![t].st = "written"]
    /\ UNCHANGED <<fence, route, step, copy, landed, moves>>

Commit(t) ==
    /\ tx[t].st = "written"
    /\ tx' = [tx EXCEPT ![t].st = "committed"]
    /\ landed' = [landed EXCEPT ![tx[t].cell] = IF tx[t].epoch > @ THEN tx[t].epoch ELSE @]
    /\ UNCHANGED <<fence, route, step, copy, moves>>

(* The handler fails, or its context ends. *)
Abort(t) ==
    /\ tx[t].st \in {"in", "checked", "written"}
    /\ tx' = [tx EXCEPT ![t].st = "aborted"]
    /\ UNCHANGED <<fence, route, step, copy, landed, moves>>

-----------------------------------------------------------------------------
(* The fencer: upsert reads the row, mutates it, and writes it whole.  With *)
(* one driver the route is still the one its call was made from.            *)

Sealed(f)      == [f EXCEPT !.row = TRUE, !.sealed = TRUE, !.barrier = Barrier]
OwnedBy(f, c, e) == [f EXCEPT !.row = TRUE, !.owner = c, !.epoch = e, !.sealed = FALSE]

(* The first half: Take, in the upsert's transaction. *)
Reads(d, at, to) ==
    /\ step[d] = at
    /\ copy' = [copy EXCEPT ![d] = fence]
    /\ step' = [step EXCEPT ![d] = to]
    /\ UNCHANGED <<fence, route, tx, landed, moves>>

(* The second half: the forward-only check on the copy, then the insert    *)
(* with ON CONFLICT that replaces every column.  Transactions with a guard *)
(* behind them have now been crossed by the fence.                         *)
Writes(d, at, to, ok, row) ==
    /\ step[d] = at
    /\ IF ok
       THEN /\ fence' = row
            /\ tx' = [t \in Txns |-> IF tx[t].st \in {"checked", "written"}
                                     THEN [tx[t] EXCEPT !.crossed = TRUE] ELSE tx[t]]
            /\ step' = [step EXCEPT ![d] = to]
       ELSE /\ step' = [step EXCEPT ![d] = "idle"]
            /\ UNCHANGED <<fence, tx>>
    /\ UNCHANGED <<route, copy, landed, moves>>

SealRead(d)  == Reads(d, "sealRead", "sealWrite")
SealWrite(d) == Writes(d, "sealWrite", "cut", Barrier >= copy[d].barrier, Sealed(copy[d]))

OwnRead(d)  == Reads(d, "ownRead", "ownWrite")
OwnWrite(d) == Writes(d, "ownWrite", "flip", Commits >= copy[d].epoch,
                      OwnedBy(copy[d], Other(route.cell), Commits))

BackRead(d)  == Reads(d, "backRead", "backWrite")
BackWrite(d) == Writes(d, "backWrite", "backFlip", Commits >= copy[d].epoch,
                       OwnedBy(copy[d], route.cell, Commits))

-----------------------------------------------------------------------------
(* The move: QUIESCING closes the source's gate, the drain waits for what   *)
(* it has admitted, the fence is sealed and handed over, the route flips.   *)

Begin(d) ==
    /\ step[d] = "idle" /\ moves < MaxMoves /\ route.state = "ACTIVE"
    /\ route' = [route EXCEPT !.state = "QUIESCING"]
    /\ step' = [step EXCEPT ![d] = "drain"]
    /\ moves' = moves + 1
    /\ UNCHANGED <<fence, tx, copy, landed>>

(* Resume continues from the state in the table. *)
Resume(d) ==
    /\ step[d] = "idle"
    /\ \/ route.state = "QUIESCING"  /\ step' = [step EXCEPT ![d] = "drain"]
       \/ route.state = "DRAINING"   /\ step' = [step EXCEPT ![d] = "sealRead"]
       \/ route.state = "COMMITTING" /\ step' = [step EXCEPT ![d] = "ownRead"]
    /\ UNCHANGED <<fence, route, tx, copy, landed, moves>>

(* cas: a driver that lost the race adopts the state it wanted, or fails. *)
Advance(d, from, to, next) ==
    /\ route' = IF route.state = from THEN [route EXCEPT !.state = to] ELSE route
    /\ step' = [step EXCEPT ![d] = IF route.state \in {from, to} THEN next ELSE "idle"]
    /\ UNCHANGED <<fence, tx, copy, landed, moves>>

(* Mutant: a stream leaves the gate when it starts. *)
DrainedUnary == \A t \in Txns \ Streams : ~Held(t)

(* CloseAndDrain returns when nothing the gate admitted is in flight. *)
Drained == \A t \in Txns : ~Held(t)

Drain(d) == step[d] = "drain" /\ Drained /\ Advance(d, "QUIESCING", "DRAINING", "sealRead")
Cut(d)   == step[d] = "cut" /\ Advance(d, "DRAINING", "COMMITTING", "ownRead")

(* The deadline of the drain or of the event plane: Rollback. *)
GiveUp(d) ==
    /\ step[d] \in {"drain", "cut"}
    /\ step' = [step EXCEPT ![d] = "backRead"]
    /\ UNCHANGED <<fence, route, tx, copy, landed, moves>>

(* The process of the driver dies. *)
Dies(d) ==
    /\ step[d] # "idle"
    /\ step' = [step EXCEPT ![d] = "idle"]
    /\ UNCHANGED <<fence, route, tx, copy, landed, moves>>

(* The CompareAndSet that opens the route at the new epoch. *)
Flip(d, at, c) ==
    /\ step[d] = at
    /\ step' = [step EXCEPT ![d] = "idle"]
    /\ route' = IF route.state = "ACTIVE" THEN route
                ELSE [cell |-> c, epoch |-> Commits, state |-> "ACTIVE"]
    /\ UNCHANGED <<fence, tx, copy, landed, moves>>

Forward(d) == Flip(d, "flip", Other(route.cell))
Back(d)    == Flip(d, "backFlip", route.cell)

-----------------------------------------------------------------------------
Init ==
    \E c \in Cells :
        /\ fence = [row |-> TRUE, owner |-> c, epoch |-> 1, sealed |-> FALSE, barrier |-> 0]
        /\ route = [cell |-> c, epoch |-> 1, state |-> "ACTIVE"]
        /\ tx = [t \in Txns |-> [st |-> "none", cell |-> c, epoch |-> 0,
                                 stmts |-> 0, crossed |-> FALSE]]
        /\ step = [d \in Drivers |-> "idle"] /\ copy = [d \in Drivers |-> fence]
        /\ landed = [x \in Cells |-> 0] /\ moves = 0

Next ==
    \/ \E t \in Txns : Admit(t) \/ Check(t) \/ Write(t) \/ Commit(t) \/ Abort(t)
    \/ \E d \in Drivers :
          \/ Begin(d) \/ Resume(d) \/ Drain(d) \/ Cut(d) \/ GiveUp(d) \/ Dies(d) \/ Forward(d) \/ Back(d)
          \/ SealRead(d) \/ SealWrite(d) \/ OwnRead(d) \/ OwnWrite(d)
          \/ BackRead(d) \/ BackWrite(d)

Spec == Init /\ [][Next]_vars

-----------------------------------------------------------------------------
(* Properties. *)

Rows   == [row : BOOLEAN, owner : Cells, epoch : Nat, sealed : BOOLEAN, barrier : Nat]
Routes == [cell : Cells, epoch : Nat, state : {"ACTIVE", "QUIESCING", "DRAINING", "COMMITTING"}]
Reqs   == [st : {"none", "in", "checked", "written", "committed", "aborted"},
           cell : Cells, epoch : Nat, stmts : 0 .. MaxStmts, crossed : BOOLEAN]

TypeOK ==
    /\ fence \in Rows /\ copy \in [Drivers -> Rows] /\ step \in [Drivers -> Steps]
    /\ route \in Routes /\ tx \in [Txns -> Reqs]
    /\ landed \in [Cells -> Nat] /\ moves \in 0 .. MaxMoves

Lands(t) == tx[t].st = "written" /\ tx'[t].st = "committed"

(* A stray whose last guard ran before the fence changed gets past it: its  *)
(* check and its commit are not one step for the fence.                     *)
Slipped(t) == t \in Strays /\ tx[t].crossed

(* Between Seal and SetOwner no write of the tenant commits: what a drain   *)
(* waited for is over, and a stray that is checked after the seal, at its   *)
(* first statement or a later one, is rolled back.                          *)
CutIsQuiet == [][\A t \in Txns : (Lands(t) /\ ~Slipped(t)) => ~fence.sealed]_vars

(* Cells write one after the other: no write of a cell lands behind one of  *)
(* a later owner, even when the tenant has come back to the cell that       *)
(* issued the token.  (A request that outlives a rolled back move may land  *)
(* behind a later epoch of its own cell.)                                   *)
OwnersInTurn ==
    [][\A t \in Txns : (Lands(t) /\ ~Slipped(t)) =>
          \A c \in Cells \ {tx[t].cell} : landed[c] < tx[t].epoch]_vars

(* "a stale or zombie writer from the old cell is stopped at the row even   *)
(* if it slipped past the L1 router and the L2 gate" (fence.go).            *)
ZombiesStopped == [][\A t \in Txns : Lands(t) => ~fence.sealed]_vars

(* "inside one transaction so the forward-only check and the write are      *)
(* atomic" (fence.go): the row's epochs never go back.                      *)
FenceForward == [][fence'.epoch >= fence.epoch /\ fence'.barrier >= fence.barrier]_vars
=============================================================================
