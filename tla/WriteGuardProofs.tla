-------------------------- MODULE WriteGuardProofs --------------------------
(***************************************************************************)
(* Proofs about WriteGuard, for every set of cells, requests, streams and  *)
(* strays and every number of statements and moves.  The types hold for    *)
(* any drivers; the rest is about one driver at a time, which may die and  *)
(* resume: the fencer's upsert does not lock the row it has read.          *)
(***************************************************************************)
EXTENDS WriteGuard, TLAPS

-----------------------------------------------------------------------------
(* Types. *)

LEMMA OtherCell ==
    ASSUME NEW c \in Cells
    PROVE  Other(c) \in Cells /\ Other(c) # c
BY GuardAssumption DEF Other

LEMMA RowTypes ==
    ASSUME NEW f \in Rows, route \in Routes, NEW c \in Cells, NEW e \in Nat
    PROVE  Sealed(f) \in Rows /\ OwnedBy(f, c, e) \in Rows /\ Commits \in Nat /\ Barrier \in Nat
<1>1. Commits \in Nat /\ Barrier \in Nat
  BY DEF Routes, Commits, Barrier
<1> QED BY <1>1 DEF Rows, Sealed, OwnedBy

LEMMA TypeInit == Init => TypeOK
<1> SUFFICES ASSUME Init PROVE TypeOK
  OBVIOUS
<1>1. fence \in Rows /\ route \in Routes
  BY DEF Init, Rows, Routes
<1>2. tx \in [Txns -> Reqs]
  BY GuardAssumption DEF Init, Reqs
<1>3. copy \in [Drivers -> Rows] /\ step \in [Drivers -> Steps]
  BY <1>1 DEF Init, Steps
<1>4. landed \in [Cells -> Nat] /\ moves \in 0 .. MaxMoves
  BY GuardAssumption DEF Init
<1> QED BY <1>1, <1>2, <1>3, <1>4 DEF TypeOK

LEMMA RequestType ==
    ASSUME TypeOK, NEW t \in Txns, Admit(t) \/ Check(t) \/ Write(t) \/ Commit(t) \/ Abort(t)
    PROVE  TypeOK'
<1>0. tx[t] \in Reqs /\ route \in Routes
  BY DEF TypeOK
<1>1. ASSUME Admit(t) PROVE TypeOK'
  <2>1. tx' \in [Txns -> Reqs]
    BY <1>0, <1>1, GuardAssumption DEF Admit, TypeOK, Reqs, Routes
  <2> QED BY <1>1, <2>1 DEF Admit, TypeOK
<1>2. ASSUME Check(t) PROVE TypeOK'
  <2>1. tx' \in [Txns -> Reqs]
    BY <1>0, <1>2, GuardAssumption DEF Check, TypeOK, Reqs
  <2> QED BY <1>2, <2>1 DEF Check, TypeOK
<1>3. ASSUME Write(t) \/ Abort(t) PROVE TypeOK'
  <2>1. tx' \in [Txns -> Reqs]
    BY <1>0, <1>3 DEF Write, Abort, TypeOK, Reqs
  <2> QED BY <1>3, <2>1 DEF Write, Abort, TypeOK
<1>4. ASSUME Commit(t) PROVE TypeOK'
  <2>1. tx' \in [Txns -> Reqs]
    BY <1>0, <1>4 DEF Commit, TypeOK, Reqs
  <2>2. landed' \in [Cells -> Nat]
    BY <1>0, <1>4 DEF Commit, TypeOK, Reqs
  <2> QED BY <1>4, <2>1, <2>2 DEF Commit, TypeOK
<1> QED BY <1>1, <1>2, <1>3, <1>4

LEMMA ReadsType ==
    ASSUME TypeOK, NEW d \in Drivers, NEW at, NEW to \in Steps, Reads(d, at, to)
    PROVE  TypeOK'
BY DEF Reads, TypeOK

LEMMA WritesType ==
    ASSUME TypeOK, NEW d \in Drivers, NEW at, NEW to \in Steps, NEW ok, NEW row \in Rows,
           Writes(d, at, to, ok, row)
    PROVE  TypeOK'
<1>1. tx' \in [Txns -> Reqs]
  <2>1. CASE ok
    <3>1. \A t \in Txns : [tx[t] EXCEPT !.crossed = TRUE] \in Reqs /\ tx[t] \in Reqs
      BY DEF TypeOK, Reqs
    <3> QED BY <2>1, <3>1 DEF Writes
  <2>2. CASE ~ok
    BY <2>2 DEF Writes, TypeOK
  <2> QED BY <2>1, <2>2
<1>2. step' \in [Drivers -> Steps]
  BY DEF Writes, TypeOK, Steps
<1> QED BY <1>1, <1>2 DEF Writes, TypeOK

LEMMA FencerType ==
    ASSUME TypeOK, NEW d \in Drivers,
           \/ SealRead(d) \/ SealWrite(d) \/ OwnRead(d) \/ OwnWrite(d)
           \/ BackRead(d) \/ BackWrite(d)
    PROVE  TypeOK'
<1>0. {"sealWrite", "cut", "ownWrite", "flip", "backWrite", "backFlip"} \subseteq Steps
  BY DEF Steps
<1>1. copy[d] \in Rows /\ route \in Routes /\ route.cell \in Cells
  BY DEF TypeOK, Routes
<1>2. /\ Sealed(copy[d]) \in Rows
      /\ OwnedBy(copy[d], Other(route.cell), Commits) \in Rows
      /\ OwnedBy(copy[d], route.cell, Commits) \in Rows
  BY <1>1, RowTypes, OtherCell
<1>3. ASSUME SealRead(d) \/ OwnRead(d) \/ BackRead(d) PROVE TypeOK'
  BY <1>0, <1>3, ReadsType DEF SealRead, OwnRead, BackRead
<1>4. ASSUME SealWrite(d) \/ OwnWrite(d) \/ BackWrite(d) PROVE TypeOK'
  BY <1>0, <1>2, <1>4, WritesType DEF SealWrite, OwnWrite, BackWrite
<1> QED BY <1>3, <1>4

LEMMA DriverType ==
    ASSUME TypeOK, NEW d \in Drivers,
           \/ Begin(d) \/ Resume(d) \/ Drain(d) \/ Cut(d) \/ GiveUp(d) \/ Dies(d)
           \/ Forward(d) \/ Back(d)
    PROVE  TypeOK'
<1>1. route \in Routes /\ route.cell \in Cells /\ Commits \in Nat
  BY DEF TypeOK, Routes, Commits
<1>2. ASSUME Begin(d) PROVE TypeOK'
  <2>1. route' \in Routes /\ moves' \in 0 .. MaxMoves
    BY <1>1, <1>2, GuardAssumption DEF Begin, Routes, TypeOK
  <2> QED BY <1>2, <2>1 DEF Begin, TypeOK, Steps
<1>3. ASSUME Resume(d) \/ GiveUp(d) \/ Dies(d) PROVE TypeOK'
  BY <1>3 DEF Resume, GiveUp, Dies, TypeOK, Steps
<1>4. ASSUME Drain(d) \/ Cut(d) PROVE TypeOK'
  <2>1. route' \in Routes
    BY <1>1, <1>4 DEF Drain, Cut, Advance, Routes
  <2>2. step' \in [Drivers -> Steps]
    BY <1>4 DEF Drain, Cut, Advance, Steps, TypeOK
  <2> QED BY <1>4, <2>1, <2>2 DEF Drain, Cut, Advance, TypeOK
<1>5. ASSUME Forward(d) \/ Back(d) PROVE TypeOK'
  <2>1. route' \in Routes
    BY <1>1, <1>5, OtherCell DEF Forward, Back, Flip, Routes
  <2> QED BY <1>5, <2>1 DEF Forward, Back, Flip, Steps, TypeOK
<1> QED BY <1>2, <1>3, <1>4, <1>5

LEMMA TypeStep == TypeOK /\ [Next]_vars => TypeOK'
<1>1. TypeOK /\ UNCHANGED vars => TypeOK'
  BY DEF vars, TypeOK
<1> QED BY <1>1, RequestType, FencerType, DriverType DEF Next

(* The fence's row, the route and the requests stay well-typed, whatever    *)
(* drivers run beside each other.                                           *)
THEOREM TypeCorrect == Spec => []TypeOK
BY TypeInit, TypeStep, PTL DEF Spec

-----------------------------------------------------------------------------
(* The inductive invariant for one driver. *)

OneDriver == \A d, e \in Drivers : d = e

Source == route.cell
Target == Other(route.cell)
Closed == {"DRAINING", "COMMITTING"}

(* The row follows the route: its owner is the source until the commit, and *)
(* its epoch is the route's or already the one the route will open at.  It  *)
(* is sealed only behind the drain.                                         *)
RowFollows ==
    /\ fence.row
    /\ fence.epoch \in {route.epoch, Commits}
    /\ fence.barrier <= Barrier
    /\ fence.owner = Source \/ (/\ route.state = "COMMITTING"
                               /\ fence.owner = Target /\ fence.epoch = Commits)
    /\ fence.sealed => route.state \in Closed /\ fence.owner = Source
    /\ route.state = "COMMITTING" => fence.sealed \/ fence.owner = Target
    /\ route.state = "ACTIVE" => fence.epoch = route.epoch

(* What each call of the driver has behind it. *)
StepOf(d) ==
    /\ step[d] = "drain" => route.state = "QUIESCING"
    /\ step[d] \in {"sealRead", "sealWrite", "cut"} => route.state = "DRAINING"
    /\ step[d] \in {"ownRead", "ownWrite", "flip"} => route.state = "COMMITTING"
    /\ step[d] \in {"backRead", "backWrite", "backFlip"} =>
          route.state \in {"QUIESCING", "DRAINING"}
    /\ step[d] \in {"sealWrite", "ownWrite", "backWrite"} => copy[d] = fence
    /\ step[d] = "cut" => fence.sealed
    /\ step[d] = "flip" => fence.owner = Target
    /\ step[d] = "backFlip" =>
          fence.owner = Source /\ fence.epoch = Commits /\ ~fence.sealed

StepsFollow == \A d \in Drivers : StepOf(d)

(* From DRAINING on nothing that the gate has admitted is in flight. *)
DrainHolds == route.state \in Closed => Drained

(* Tokens are of the route's past: at its epoch they are the source's. *)
TokensPast ==
    \A t \in Txns : tx[t].st # "none" =>
        /\ tx[t].epoch <= route.epoch
        /\ tx[t].epoch = route.epoch => tx[t].cell = Source

(* A request that the gate holds is of the source, and every token of       *)
(* another cell is older than it, as is what those cells have written.      *)
HeldIsCurrent ==
    \A t \in Txns : Held(t) =>
        /\ tx[t].cell = Source
        /\ \A u \in Txns : (tx[u].st # "none" /\ tx[u].cell # Source) => tx[u].epoch < tx[t].epoch
        /\ \A c \in Cells \ {Source} : landed[c] < tx[t].epoch

(* What has landed is of the route's past. *)
LandedPast ==
    \A c \in Cells : landed[c] <= route.epoch /\ (c # Source => landed[c] < route.epoch)

(* A stray whose guard no fence has crossed would still pass it. *)
StraysChecked ==
    \A t \in Strays : (tx[t].st \in {"checked", "written"} /\ ~tx[t].crossed) =>
                          Allow(fence, tx[t])

GuardInv ==
    /\ TypeOK
    /\ RowFollows
    /\ StepsFollow
    /\ DrainHolds
    /\ TokensPast
    /\ HeldIsCurrent
    /\ LandedPast
    /\ StraysChecked

LEMMA GuardInit == Init => GuardInv
<1> SUFFICES ASSUME Init PROVE GuardInv
  OBVIOUS
<1>1. PICK c \in Cells :
        /\ fence = [row |-> TRUE, owner |-> c, epoch |-> 1, sealed |-> FALSE, barrier |-> 0]
        /\ route = [cell |-> c, epoch |-> 1, state |-> "ACTIVE"]
  BY DEF Init
<1>2. /\ \A t \in Txns : tx[t].st = "none"
      /\ \A d \in Drivers : step[d] = "idle"
      /\ \A x \in Cells : landed[x] = 0
  BY DEF Init
<1>3. TypeOK
  BY TypeInit
<1>4. RowFollows
  BY <1>1 DEF RowFollows, Source, Closed, Commits, Barrier
<1>5. StepsFollow
  BY <1>2 DEF StepsFollow, StepOf
<1>6. DrainHolds /\ TokensPast /\ HeldIsCurrent /\ LandedPast
  BY <1>1, <1>2 DEF DrainHolds, Drained, Held, TokensPast, HeldIsCurrent, LandedPast
<1>7. StraysChecked
  BY <1>2, GuardAssumption DEF StraysChecked
<1> QED BY <1>3, <1>4, <1>5, <1>6, <1>7 DEF GuardInv

(* Requests leave the fence, the route and the driver alone. *)
LEMMA RequestLeaves ==
    ASSUME GuardInv, UNCHANGED <<fence, route, step, copy>>
    PROVE  RowFollows' /\ StepsFollow'
BY DEF GuardInv, RowFollows, StepsFollow, StepOf, Source, Target, Commits, Barrier, Closed

(* A request that goes on, keeping its token, keeps what is known of tokens. *)
LEMMA RequestGoesOn ==
    ASSUME GuardInv, NEW t \in Txns, UNCHANGED <<route, landed>>,
           tx[t].st # "none", Held(t)' => Held(t),
           tx'[t].cell = tx[t].cell, tx'[t].epoch = tx[t].epoch,
           \A u \in Txns \ {t} : tx'[u] = tx[u]
    PROVE  DrainHolds' /\ TokensPast' /\ HeldIsCurrent' /\ LandedPast'
<1>1. \A u \in Txns : /\ tx'[u].cell = tx[u].cell /\ tx'[u].epoch = tx[u].epoch
                      /\ Held(u)' => Held(u)
                      /\ tx'[u].st # "none" => tx[u].st # "none"
  BY DEF Held
<1>2. DrainHolds'
  BY <1>1 DEF GuardInv, DrainHolds, Drained, Held
<1>3. TokensPast' /\ LandedPast'
  BY <1>1 DEF GuardInv, TokensPast, LandedPast, Source
<1>4. HeldIsCurrent'
  BY <1>1 DEF GuardInv, HeldIsCurrent, Held, Source
<1> QED BY <1>2, <1>3, <1>4

(* The guard's answer is about the token, not about the rest of the request. *)
LEMMA AllowToken ==
    ASSUME NEW f, NEW a, NEW b, a.cell = b.cell, a.epoch = b.epoch
    PROVE  Allow(f, a) <=> Allow(f, b)
BY DEF Allow

LEMMA AdmitInv ==
    ASSUME GuardInv, TypeOK', NEW t \in Txns, Admit(t)
    PROVE  GuardInv'
<1>1. /\ tx'[t].st = "in" /\ tx'[t].cell = Source /\ tx'[t].epoch = route.epoch
      /\ \A u \in Txns \ {t} : tx'[u] = tx[u]
      /\ UNCHANGED <<fence, route, step, copy, landed>> /\ route.state = "ACTIVE"
  BY DEF Admit, GuardInv, TypeOK, Source
<1>2. RowFollows' /\ StepsFollow'
  BY <1>1, RequestLeaves
<1>3. DrainHolds' /\ LandedPast'
  BY <1>1 DEF GuardInv, DrainHolds, LandedPast, Closed, Source
<1>4. TokensPast'
  BY <1>1 DEF GuardInv, TypeOK, Routes, TokensPast, Source
<1>5. HeldIsCurrent'
  <2>1. ASSUME NEW x \in Txns, Held(x)'
        PROVE  /\ tx'[x].cell = Source
               /\ \A u \in Txns : (tx'[u].st # "none" /\ tx'[u].cell # Source) =>
                                        tx'[u].epoch < tx'[x].epoch
               /\ \A c \in Cells \ {Source} : landed[c] < tx'[x].epoch
    <3>1. CASE x = t
      <4>1. \A u \in Txns : (tx'[u].st # "none" /\ tx'[u].cell # Source) => tx'[u].epoch < route.epoch
        BY <1>1 DEF GuardInv, TypeOK, Routes, Reqs, TokensPast
      <4>2. \A c \in Cells \ {Source} : landed[c] < route.epoch
        BY DEF GuardInv, LandedPast
      <4> QED BY <1>1, <3>1, <4>1, <4>2
    <3>2. CASE x # t
      <4>1. Held(x) /\ tx'[x] = tx[x]
        BY <1>1, <2>1, <3>2 DEF Held
      <4> QED BY <1>1, <4>1 DEF GuardInv, HeldIsCurrent
    <3> QED BY <3>1, <3>2
  <2> QED BY <1>1, <2>1 DEF HeldIsCurrent, Source
<1>6. StraysChecked'
  BY <1>1, GuardAssumption DEF GuardInv, StraysChecked
<1> QED BY <1>2, <1>3, <1>4, <1>5, <1>6 DEF GuardInv

LEMMA CheckInv ==
    ASSUME GuardInv, TypeOK', NEW t \in Txns, Check(t)
    PROVE  GuardInv'
<1>1. /\ tx[t].st \in {"in", "written"}
      /\ tx'[t].cell = tx[t].cell /\ tx'[t].epoch = tx[t].epoch
      /\ \/ tx'[t].st = "checked" /\ (t \in Streams \/ Allow(fence, tx[t]))
         \/ tx'[t].st = "aborted"
      /\ \A u \in Txns \ {t} : tx'[u] = tx[u]
      /\ UNCHANGED <<fence, route, step, copy, landed>>
  BY DEF Check, GuardInv, TypeOK, Reqs
<1>2. Held(t)' => Held(t)
  BY <1>1 DEF Held
<1>3. /\ RowFollows' /\ StepsFollow' /\ DrainHolds' /\ TokensPast'
      /\ HeldIsCurrent' /\ LandedPast'
  BY <1>1, <1>2, RequestLeaves, RequestGoesOn
<1>4. tx'[t].st = "checked" /\ t \in Strays => Allow(fence, tx'[t])
  BY <1>1, AllowToken, GuardAssumption
<1>5. StraysChecked'
  BY <1>1, <1>4, GuardAssumption DEF GuardInv, StraysChecked
<1> QED BY <1>3, <1>5 DEF GuardInv

LEMMA WriteAbortInv ==
    ASSUME GuardInv, TypeOK', NEW t \in Txns, Write(t) \/ Abort(t)
    PROVE  GuardInv'
<1>1. /\ tx[t].st \in {"in", "checked", "written"}
      /\ tx'[t].cell = tx[t].cell /\ tx'[t].epoch = tx[t].epoch /\ tx'[t].crossed = tx[t].crossed
      /\ tx'[t].st = "aborted" \/ (tx[t].st = "checked" /\ tx'[t].st = "written")
      /\ \A u \in Txns \ {t} : tx'[u] = tx[u]
      /\ UNCHANGED <<fence, route, step, copy, landed>>
  BY DEF Write, Abort, GuardInv, TypeOK, Reqs
<1>2. Held(t)' => Held(t)
  BY <1>1 DEF Held
<1>3. /\ RowFollows' /\ StepsFollow' /\ DrainHolds' /\ TokensPast'
      /\ HeldIsCurrent' /\ LandedPast'
  BY <1>1, <1>2, RequestLeaves, RequestGoesOn
<1>4. ASSUME t \in Strays, tx'[t].st = "written", ~tx'[t].crossed PROVE Allow(fence, tx'[t])
  <2>1. Allow(fence, tx[t])
    BY <1>1, <1>4 DEF GuardInv, StraysChecked
  <2> QED BY <1>1, <2>1, AllowToken
<1>5. StraysChecked'
  BY <1>1, <1>4, GuardAssumption DEF GuardInv, StraysChecked
<1> QED BY <1>3, <1>5 DEF GuardInv

LEMMA CommitInv ==
    ASSUME GuardInv, TypeOK', NEW t \in Txns, Commit(t)
    PROVE  GuardInv'
<1>0. tx[t] \in Reqs /\ route \in Routes /\ landed \in [Cells -> Nat] /\ tx \in [Txns -> Reqs]
  BY DEF GuardInv, TypeOK
<1>1. /\ tx[t].st = "written" /\ tx'[t].st = "committed"
      /\ tx'[t].cell = tx[t].cell /\ tx'[t].epoch = tx[t].epoch
      /\ \A u \in Txns \ {t} : tx'[u] = tx[u]
      /\ UNCHANGED <<fence, route, step, copy>>
  BY <1>0 DEF Commit, Reqs
<1>2. \A c \in Cells : landed'[c] = landed[c] \/ (c = tx[t].cell /\ landed'[c] = tx[t].epoch)
  BY <1>0 DEF Commit
<1>3. \A u \in Txns : /\ tx'[u].cell = tx[u].cell /\ tx'[u].epoch = tx[u].epoch
                      /\ Held(u)' => Held(u)
                      /\ tx'[u].st # "none" => tx[u].st # "none"
  BY <1>1 DEF Held
<1>4. RowFollows' /\ StepsFollow'
  BY <1>1, RequestLeaves
<1>5. DrainHolds'
  BY <1>1, <1>3 DEF GuardInv, DrainHolds, Drained, Held
<1>6. TokensPast'
  BY <1>1, <1>3 DEF GuardInv, TokensPast, Source
<1>7. tx[t].epoch <= route.epoch /\ (tx[t].cell # Source => tx[t].epoch < route.epoch)
  BY <1>0, <1>1 DEF GuardInv, TokensPast, Reqs, Routes
<1>8. LandedPast'
  BY <1>1, <1>2, <1>7 DEF GuardInv, LandedPast, Source
<1>9. HeldIsCurrent'
  <2>1. ASSUME NEW x \in Txns, Held(x)', NEW c \in Cells \ {Source}
        PROVE  landed'[c] < tx[x].epoch
    BY <1>1, <1>2, <1>3, <2>1 DEF GuardInv, HeldIsCurrent, Held
  <2> QED BY <1>1, <1>3, <2>1 DEF GuardInv, HeldIsCurrent, Held, Source
<1>10. StraysChecked'
  BY <1>1, GuardAssumption DEF GuardInv, StraysChecked
<1> QED BY <1>4, <1>5, <1>6, <1>8, <1>9, <1>10 DEF GuardInv

(* A step of the driver that leaves requests, writes and fence alone, and   *)
(* the route or at most moves it on within the move.                        *)
LEMMA DriverStep ==
    ASSUME GuardInv, OneDriver, TypeOK', NEW d \in Drivers, UNCHANGED <<fence, tx, landed>>,
           route'.cell = route.cell, route'.epoch = route.epoch,
           RowFollows', StepOf(d)', DrainHolds'
    PROVE  GuardInv'
<1>1. StepsFollow'
  BY DEF OneDriver, StepsFollow
<1>2. TokensPast' /\ HeldIsCurrent' /\ LandedPast' /\ StraysChecked'
  BY DEF GuardInv, TokensPast, HeldIsCurrent, Held, LandedPast, StraysChecked, Allow, Source
<1> QED BY <1>1, <1>2 DEF GuardInv

LEMMA WaitInv ==
    ASSUME GuardInv, OneDriver, TypeOK', NEW d \in Drivers,
           \/ Resume(d) \/ GiveUp(d) \/ Dies(d)
           \/ SealRead(d) \/ OwnRead(d) \/ BackRead(d)
    PROVE  GuardInv'
<1>1. UNCHANGED <<fence, route, tx, landed>>
  BY DEF Resume, GiveUp, Dies, SealRead, OwnRead, BackRead, Reads
<1>2. RowFollows' /\ DrainHolds'
  BY <1>1 DEF GuardInv, RowFollows, DrainHolds, Drained, Held, Source, Target, Commits, Barrier, Closed
<1>3. StepOf(d) /\ step \in [Drivers -> Steps] /\ copy \in [Drivers -> Rows]
  BY DEF GuardInv, TypeOK, StepsFollow
<1>4. ASSUME Resume(d) \/ GiveUp(d) \/ Dies(d) PROVE StepOf(d)'
  BY <1>1, <1>3, <1>4 DEF StepOf, Resume, GiveUp, Dies
<1>5. ASSUME SealRead(d) \/ OwnRead(d) \/ BackRead(d) PROVE StepOf(d)'
  BY <1>1, <1>3, <1>5 DEF StepOf, SealRead, OwnRead, BackRead, Reads
<1> QED BY <1>1, <1>2, <1>4, <1>5, DriverStep

LEMMA MoveOnInv ==
    ASSUME GuardInv, OneDriver, TypeOK', NEW d \in Drivers, Begin(d) \/ Drain(d) \/ Cut(d)
    PROVE  GuardInv'
<1>0. StepOf(d) /\ step \in [Drivers -> Steps] /\ route \in Routes
  BY DEF GuardInv, TypeOK, StepsFollow
<1>1. ASSUME Begin(d) PROVE GuardInv'
  <2>1. /\ route'.cell = route.cell /\ route'.epoch = route.epoch
        /\ route.state = "ACTIVE" /\ route'.state = "QUIESCING" /\ step'[d] = "drain"
        /\ UNCHANGED <<fence, tx, landed, copy>>
    BY <1>0, <1>1 DEF Begin, Routes
  <2>2. RowFollows' /\ DrainHolds' /\ StepOf(d)'
    BY <2>1 DEF GuardInv, RowFollows, DrainHolds, StepOf, Source, Target, Commits, Barrier, Closed
  <2> QED BY <2>1, <2>2, DriverStep
<1>2. ASSUME Drain(d) PROVE GuardInv'
  <2>1. route.state = "QUIESCING"
    BY <1>0, <1>2 DEF Drain, StepOf
  <2>2. /\ route'.cell = route.cell /\ route'.epoch = route.epoch
        /\ route'.state = "DRAINING" /\ step'[d] = "sealRead"
        /\ UNCHANGED <<fence, tx, landed, copy>> /\ Drained
    BY <1>0, <1>2, <2>1 DEF Drain, Advance, Routes
  <2>3. RowFollows' /\ StepOf(d)'
    BY <2>1, <2>2 DEF GuardInv, RowFollows, StepOf, Source, Target, Commits, Barrier, Closed
  <2>4. DrainHolds'
    BY <2>2 DEF DrainHolds, Drained, Held
  <2> QED BY <2>2, <2>3, <2>4, DriverStep
<1>3. ASSUME Cut(d) PROVE GuardInv'
  <2>1. route.state = "DRAINING" /\ fence.sealed
    BY <1>0, <1>3 DEF Cut, StepOf
  <2>2. /\ route'.cell = route.cell /\ route'.epoch = route.epoch
        /\ route'.state = "COMMITTING" /\ step'[d] = "ownRead"
        /\ UNCHANGED <<fence, tx, landed, copy>>
    BY <1>0, <1>3, <2>1 DEF Cut, Advance, Routes
  <2>3. RowFollows' /\ StepOf(d)'
    BY <2>1, <2>2 DEF GuardInv, RowFollows, StepOf, Source, Target, Commits, Barrier, Closed
  <2>4. DrainHolds'
    BY <2>1, <2>2 DEF GuardInv, DrainHolds, Drained, Held, Closed
  <2> QED BY <2>2, <2>3, <2>4, DriverStep
<1> QED BY <1>1, <1>2, <1>3

(* The fence changes: every guard that has passed is crossed. *)
LEMMA FenceStep ==
    ASSUME GuardInv, OneDriver, TypeOK', NEW d \in Drivers, UNCHANGED <<route, landed>>,
           tx' = [t \in Txns |-> IF tx[t].st \in {"checked", "written"}
                                THEN [tx[t] EXCEPT !.crossed = TRUE] ELSE tx[t]],
           RowFollows', StepOf(d)'
    PROVE  GuardInv'
<1>2. \A t \in Txns : /\ tx'[t].st = tx[t].st /\ tx'[t].cell = tx[t].cell
                      /\ tx'[t].epoch = tx[t].epoch
                      /\ tx[t].st \in {"checked", "written"} => tx'[t].crossed
  BY DEF GuardInv, TypeOK, Reqs
<1>3. StepsFollow'
  BY DEF OneDriver, StepsFollow
<1>4. DrainHolds'
  BY <1>2 DEF GuardInv, DrainHolds, Drained, Held
<1>5. TokensPast' /\ LandedPast'
  BY <1>2 DEF GuardInv, TokensPast, LandedPast, Source
<1>6. HeldIsCurrent'
  BY <1>2 DEF GuardInv, HeldIsCurrent, Held, Source
<1>7. StraysChecked'
  BY <1>2, GuardAssumption DEF StraysChecked
<1> QED BY <1>3, <1>4, <1>5, <1>6, <1>7 DEF GuardInv

(* With one driver the forward-only check passes: its copy is the row. *)
LEMMA SealWriteInv ==
    ASSUME GuardInv, OneDriver, TypeOK', NEW d \in Drivers, SealWrite(d)
    PROVE  GuardInv' /\ fence' = Sealed(fence) /\ Barrier >= fence.barrier
<1>0. StepOf(d) /\ step \in [Drivers -> Steps] /\ route \in Routes /\ fence \in Rows /\ RowFollows
  BY DEF GuardInv, TypeOK, StepsFollow
<1>1. step[d] = "sealWrite" /\ copy[d] = fence /\ route.state = "DRAINING"
  BY <1>0 DEF SealWrite, Writes, StepOf
<1>2. Barrier >= copy[d].barrier
  BY <1>0, <1>1 DEF RowFollows, Rows, Routes, Barrier
<1>3. /\ fence' = Sealed(fence) /\ UNCHANGED <<route, copy, landed>>
      /\ tx' = [t \in Txns |-> IF tx[t].st \in {"checked", "written"}
                               THEN [tx[t] EXCEPT !.crossed = TRUE] ELSE tx[t]]
      /\ step' = [step EXCEPT ![d] = "cut"]
  BY <1>1, <1>2 DEF SealWrite, Writes
<1>4. fence' = Sealed(fence) /\ UNCHANGED <<route, copy>> /\ step'[d] = "cut"
  BY <1>0, <1>3
<1>5. /\ fence'.row /\ fence'.sealed /\ fence'.barrier = Barrier
      /\ fence'.owner = fence.owner /\ fence'.epoch = fence.epoch
  BY <1>0, <1>4 DEF Sealed, Rows
<1>6. RowFollows'
  BY <1>0, <1>1, <1>4, <1>5 DEF RowFollows, Source, Target, Commits, Barrier, Closed, Routes
<1>7. StepOf(d)'
  BY <1>1, <1>4, <1>5 DEF StepOf
<1> QED BY <1>1, <1>2, <1>3, <1>4, <1>6, <1>7, FenceStep

LEMMA OwnWriteInv ==
    ASSUME GuardInv, OneDriver, TypeOK', NEW d \in Drivers, OwnWrite(d)
    PROVE  GuardInv' /\ fence' = OwnedBy(fence, Target, Commits) /\ Commits >= fence.epoch
<1>0. StepOf(d) /\ step \in [Drivers -> Steps] /\ route \in Routes /\ fence \in Rows /\ RowFollows
  BY DEF GuardInv, TypeOK, StepsFollow
<1>1. step[d] = "ownWrite" /\ copy[d] = fence /\ route.state = "COMMITTING"
  BY <1>0 DEF OwnWrite, Writes, StepOf
<1>2. Commits >= copy[d].epoch
  BY <1>0, <1>1 DEF RowFollows, Rows, Routes, Commits
<1>3. /\ fence' = OwnedBy(fence, Target, Commits) /\ UNCHANGED <<route, copy, landed>>
      /\ tx' = [t \in Txns |-> IF tx[t].st \in {"checked", "written"}
                               THEN [tx[t] EXCEPT !.crossed = TRUE] ELSE tx[t]]
      /\ step' = [step EXCEPT ![d] = "flip"]
  BY <1>1, <1>2 DEF OwnWrite, Target, Writes
<1>4. fence' = OwnedBy(fence, Target, Commits) /\ UNCHANGED <<route, copy>> /\ step'[d] = "flip"
  BY <1>0, <1>3
<1>5. /\ fence'.row /\ ~fence'.sealed /\ fence'.barrier = fence.barrier
      /\ fence'.owner = Target /\ fence'.epoch = Commits
  BY <1>0, <1>4 DEF OwnedBy, Rows
<1>6. RowFollows'
  BY <1>0, <1>1, <1>4, <1>5 DEF RowFollows, Source, Target, Commits, Barrier, Closed
<1>7. StepOf(d)'
  BY <1>1, <1>4, <1>5 DEF StepOf, Target
<1> QED BY <1>1, <1>2, <1>3, <1>4, <1>6, <1>7, FenceStep

LEMMA BackWriteInv ==
    ASSUME GuardInv, OneDriver, TypeOK', NEW d \in Drivers, BackWrite(d)
    PROVE  GuardInv' /\ fence' = OwnedBy(fence, Source, Commits) /\ Commits >= fence.epoch
<1>0. StepOf(d) /\ step \in [Drivers -> Steps] /\ route \in Routes /\ fence \in Rows /\ RowFollows
  BY DEF GuardInv, TypeOK, StepsFollow
<1>1. step[d] = "backWrite" /\ copy[d] = fence /\ route.state \in {"QUIESCING", "DRAINING"}
  BY <1>0 DEF BackWrite, Writes, StepOf
<1>2. Commits >= copy[d].epoch
  BY <1>0, <1>1 DEF RowFollows, Rows, Routes, Commits
<1>3. /\ fence' = OwnedBy(fence, Source, Commits) /\ UNCHANGED <<route, copy, landed>>
      /\ tx' = [t \in Txns |-> IF tx[t].st \in {"checked", "written"}
                               THEN [tx[t] EXCEPT !.crossed = TRUE] ELSE tx[t]]
      /\ step' = [step EXCEPT ![d] = "backFlip"]
  BY <1>1, <1>2 DEF BackWrite, Source, Writes
<1>4. fence' = OwnedBy(fence, Source, Commits) /\ UNCHANGED <<route, copy>> /\ step'[d] = "backFlip"
  BY <1>0, <1>3
<1>5. /\ fence'.row /\ ~fence'.sealed /\ fence'.barrier = fence.barrier
      /\ fence'.owner = Source /\ fence'.epoch = Commits
  BY <1>0, <1>4 DEF OwnedBy, Rows
<1>6. RowFollows'
  BY <1>0, <1>1, <1>4, <1>5 DEF RowFollows, Source, Target, Commits, Barrier, Closed
<1>7. StepOf(d)'
  BY <1>1, <1>4, <1>5 DEF StepOf, Source, Commits
<1> QED BY <1>1, <1>2, <1>3, <1>4, <1>6, <1>7, FenceStep

(* The route opens at the epoch the fence already has. *)
LEMMA FlipInv ==
    ASSUME GuardInv, OneDriver, TypeOK', NEW d \in Drivers, Forward(d) \/ Back(d)
    PROVE  GuardInv'
<1>0. /\ StepOf(d) /\ step \in [Drivers -> Steps] /\ route \in Routes /\ fence \in Rows
      /\ RowFollows /\ Other(route.cell) # route.cell
  BY OtherCell DEF GuardInv, TypeOK, StepsFollow, Routes
<1>1. /\ UNCHANGED <<fence, tx, landed, copy>> /\ step'[d] = "idle"
      /\ route.state # "ACTIVE"
  BY <1>0 DEF Forward, Back, Flip, StepOf
<1>2. /\ route'.epoch = route.epoch + 2 /\ route'.state = "ACTIVE" /\ route.epoch \in Nat
      /\ fence.owner = route'.cell /\ fence.epoch = route'.epoch /\ ~fence.sealed
  BY <1>0, <1>1 DEF Forward, Back, Flip, StepOf, RowFollows, Source, Target, Commits, Routes
<1>3. RowFollows'
  BY <1>0, <1>1, <1>2 DEF RowFollows, Source, Target, Commits, Barrier, Closed, Rows
<1>4. StepsFollow'
  BY <1>1 DEF OneDriver, StepsFollow, StepOf
<1>5. DrainHolds'
  BY <1>2 DEF DrainHolds, Closed
<1>6. TokensPast'
  BY <1>1, <1>2 DEF GuardInv, TypeOK, Reqs, TokensPast
<1>7. LandedPast'
  BY <1>1, <1>2 DEF GuardInv, TypeOK, LandedPast
<1>8. HeldIsCurrent'
  <2>1. CASE Forward(d)
    <3>1. route.state = "COMMITTING"
      BY <1>0, <2>1 DEF Forward, Flip, StepOf
    <3> QED BY <1>1, <3>1 DEF GuardInv, DrainHolds, Drained, Closed, HeldIsCurrent, Held
  <2>2. CASE Back(d)
    <3>1. route'.cell = route.cell
      BY <1>1, <2>2 DEF Back, Flip
    <3> QED BY <1>1, <3>1 DEF GuardInv, HeldIsCurrent, Held, Source
  <2> QED BY <2>1, <2>2
<1>9. StraysChecked'
  BY <1>1 DEF GuardInv, StraysChecked, Allow
<1> QED BY <1>3, <1>4, <1>5, <1>6, <1>7, <1>8, <1>9 DEF GuardInv

LEMMA GuardStep ==
    ASSUME OneDriver
    PROVE  GuardInv /\ [Next]_vars => GuardInv'
<1> SUFFICES ASSUME GuardInv, [Next]_vars PROVE GuardInv'
  OBVIOUS
<1>1. TypeOK'
  BY TypeStep DEF GuardInv
<1>2. ASSUME UNCHANGED vars PROVE GuardInv'
  <2>1. UNCHANGED <<fence, route, tx, step, copy, landed>>
    BY <1>2 DEF vars
  <2>2. RowFollows' /\ StepsFollow'
    BY <2>1, RequestLeaves
  <2>3. DrainHolds' /\ TokensPast' /\ HeldIsCurrent' /\ LandedPast' /\ StraysChecked'
    BY <2>1 DEF GuardInv, DrainHolds, Drained, Held, TokensPast, HeldIsCurrent, LandedPast,
                StraysChecked, Allow, Source
  <2> QED BY <1>1, <2>2, <2>3 DEF GuardInv
<1>3. ASSUME NEW t \in Txns, Admit(t) \/ Check(t) \/ Write(t) \/ Commit(t) \/ Abort(t)
      PROVE  GuardInv'
  BY <1>1, <1>3, AdmitInv, CheckInv, WriteAbortInv, CommitInv
<1>4. ASSUME NEW d \in Drivers,
             \/ Begin(d) \/ Resume(d) \/ Drain(d) \/ Cut(d) \/ GiveUp(d) \/ Dies(d)
             \/ Forward(d) \/ Back(d) \/ SealRead(d) \/ OwnRead(d) \/ BackRead(d)
      PROVE  GuardInv'
  BY <1>1, <1>4, WaitInv, MoveOnInv, FlipInv
<1>5. ASSUME NEW d \in Drivers, SealWrite(d) \/ OwnWrite(d) \/ BackWrite(d) PROVE GuardInv'
  BY <1>1, <1>5, SealWriteInv, OwnWriteInv, BackWriteInv
<1> QED BY <1>2, <1>3, <1>4, <1>5 DEF Next

-----------------------------------------------------------------------------
(* The results, for one driver. *)

(* What holds for a write that is about to land without having slipped      *)
(* between its guard and its commit.                                        *)
LEMMA LandsInPlace ==
    ASSUME GuardInv, NEW t \in Txns, tx[t].st = "written", ~Slipped(t)
    PROVE  /\ ~fence.sealed
           /\ \A c \in Cells \ {tx[t].cell} : landed[c] < tx[t].epoch
<1>0. fence \in Rows /\ route \in Routes /\ tx[t] \in Reqs /\ landed \in [Cells -> Nat]
  BY DEF GuardInv, TypeOK
<1>1. CASE t \notin Strays
  <2>1. Held(t)
    BY <1>1 DEF Held
  <2>2. route.state \notin Closed
    BY <2>1 DEF GuardInv, DrainHolds, Drained
  <2>3. tx[t].cell = Source /\ \A c \in Cells \ {Source} : landed[c] < tx[t].epoch
    BY <2>1 DEF GuardInv, HeldIsCurrent
  <2> QED BY <2>2, <2>3 DEF GuardInv, RowFollows
<1>2. CASE t \in Strays
  <2>1. fence.row /\ Allow(fence, tx[t])
    BY <1>2 DEF Slipped, GuardInv, StraysChecked, RowFollows
  <2>2. ~fence.sealed /\ fence.owner = tx[t].cell /\ fence.epoch = tx[t].epoch
    BY <2>1 DEF Allow
  <2>3. tx[t].epoch <= route.epoch
    BY DEF GuardInv, TokensPast
  <2>4. tx[t].epoch = route.epoch /\ tx[t].cell = Source
    BY <1>0, <2>2, <2>3 DEF GuardInv, RowFollows, TokensPast, Commits, Routes
  <2> QED BY <2>2, <2>4 DEF GuardInv, LandedPast
<1> QED BY <1>1, <1>2

(* With one driver at a time, dying and resuming wherever it will, nothing  *)
(* lands between Seal and SetOwner but a stray that slips between its guard *)
(* and its commit: the seal is behind the drain on every path.              *)
THEOREM NothingLandsInTheCut ==
    ASSUME OneDriver
    PROVE  Spec => CutIsQuiet
<1>1. GuardInv /\ [Next]_vars => [\A t \in Txns : (Lands(t) /\ ~Slipped(t)) => ~fence.sealed]_vars
  BY LandsInPlace DEF Lands
<1> QED BY <1>1, GuardInit, GuardStep, PTL DEF Spec, CutIsQuiet

(* With one driver at a time cells write one after the other, even when the *)
(* tenant has come back to the cell that issued a token, or a move was      *)
(* rolled back around the request.                                          *)
THEOREM CellsWriteInTurn ==
    ASSUME OneDriver
    PROVE  Spec => OwnersInTurn
<1>1. GuardInv /\ [Next]_vars =>
          [\A t \in Txns : (Lands(t) /\ ~Slipped(t)) =>
              \A c \in Cells \ {tx[t].cell} : landed[c] < tx[t].epoch]_vars
  BY LandsInPlace DEF Lands
<1> QED BY <1>1, GuardInit, GuardStep, PTL DEF Spec, OwnersInTurn

LEMMA ForwardStep ==
    ASSUME OneDriver, GuardInv, [Next]_vars
    PROVE  fence'.epoch >= fence.epoch /\ fence'.barrier >= fence.barrier
<1>0. fence \in Rows /\ fence' \in Rows /\ TypeOK'
  BY TypeStep DEF GuardInv, TypeOK
<1>1. ASSUME fence' = fence PROVE fence'.epoch >= fence.epoch /\ fence'.barrier >= fence.barrier
  BY <1>0, <1>1 DEF Rows
<1>2. ASSUME NEW d \in Drivers, SealWrite(d)
      PROVE  fence'.epoch >= fence.epoch /\ fence'.barrier >= fence.barrier
  <2>1. fence' = Sealed(fence) /\ Barrier >= fence.barrier
    BY <1>0, <1>2, SealWriteInv
  <2>2. fence'.epoch = fence.epoch /\ fence'.barrier = Barrier
    BY <1>0, <2>1 DEF Sealed, Rows
  <2> QED BY <1>0, <2>1, <2>2 DEF Rows
<1>3. ASSUME NEW d \in Drivers, OwnWrite(d) \/ BackWrite(d)
      PROVE  fence'.epoch >= fence.epoch /\ fence'.barrier >= fence.barrier
  <2>1. /\ Commits >= fence.epoch
        /\ fence' = OwnedBy(fence, Target, Commits) \/ fence' = OwnedBy(fence, Source, Commits)
    BY <1>0, <1>3, OwnWriteInv, BackWriteInv
  <2>2. fence'.epoch = Commits /\ fence'.barrier = fence.barrier
    BY <1>0, <2>1 DEF OwnedBy, Rows
  <2> QED BY <1>0, <2>1, <2>2 DEF Rows
<1>4. ASSUME UNCHANGED vars PROVE fence' = fence
  BY <1>4 DEF vars
<1>5. ASSUME NEW t \in Txns, Admit(t) \/ Check(t) \/ Write(t) \/ Commit(t) \/ Abort(t)
      PROVE  fence' = fence
  BY <1>5 DEF Admit, Check, Write, Commit, Abort
<1>6. ASSUME NEW d \in Drivers,
             \/ Begin(d) \/ Resume(d) \/ Drain(d) \/ Cut(d) \/ GiveUp(d) \/ Dies(d)
             \/ Forward(d) \/ Back(d) \/ SealRead(d) \/ OwnRead(d) \/ BackRead(d)
      PROVE  fence' = fence
  BY <1>6 DEF Begin, Resume, Drain, Cut, Advance, GiveUp, Dies, Forward, Back, Flip,
              SealRead, OwnRead, BackRead, Reads
<1> QED BY <1>1, <1>2, <1>3, <1>4, <1>5, <1>6 DEF Next

(* With one driver at a time the epochs of the fence's row never go back,   *)
(* although the upsert checks a copy: two drivers refute it.                *)
THEOREM FenceNeverGoesBack ==
    ASSUME OneDriver
    PROVE  Spec => FenceForward
<1>1. GuardInv /\ [Next]_vars =>
          [fence'.epoch >= fence.epoch /\ fence'.barrier >= fence.barrier]_vars
  BY ForwardStep
<1> QED BY <1>1, GuardInit, GuardStep, PTL DEF Spec, FenceForward
=============================================================================
