-------------------------- MODULE RequestsProofs ---------------------------
(***************************************************************************)
(* Proofs about the two things a request passes: RouteCache, the router    *)
(* cache and its admission, for every number of cells, requests and moves, *)
(* every capacity of the watch channel, and with deletions, lost events    *)
(* and failed reads; and Requests, for every set of retries and bodies,    *)
(* every mode and store and every limit and number of windows, with claims *)
(* that expire under their calls and a sweep that deletes by key.  Neither *)
(* uses the other.                                                         *)
(***************************************************************************)
EXTENDS RouteCache, Requests, FiniteSetTheorems, SequenceTheorems, TLAPS

(***************************************************************************)
(* RouteCache.                                                             *)
(***************************************************************************)

-----------------------------------------------------------------------------
(* The table: no route yet, or one on a cell. *)
TableOK ==
    IF epoch = 0 THEN owner = NoCell /\ source = NoCell /\ target = NoCell
                 ELSE owner \in Cells

(* An answer that lets requests of Here pass only at a known epoch. *)
Vouched(ev) ==
    ~ev.deleted => /\ ev.active \in Cells
                   /\ ev.active = Here /\ ev.source = NoCell => ev.epoch \in known

KnownOK ==
    /\ Here = Default => 0 \in known
    /\ epoch > 0 /\ owner = Here /\ source = NoCell => epoch \in known

(* Whatever carries a route from the table to an interceptor is vouched for:*)
(* the channel, the cache and the replies under way.                        *)
CopiesVouched ==
    /\ \A i \in DOMAIN watch : Vouched(watch[i])
    /\ cache # Miss => Vouched(cache)
    /\ \A r \in Requests : rpc[r] = "store" => Vouched(reply[r])

DecisionsOK ==
    \A r \in Requests :
        /\ rpc[r] \in {"decided", "admitting"} /\ dec[r].admitNew /\ dec[r].cell = Here
              => dec[r].epoch \in known
        /\ rpc[r] = "admitting" => dec[r].admitNew /\ dec[r].cell = Here

AdmitInv == CacheTypeOK /\ TableOK /\ KnownOK /\ CopiesVouched /\ DecisionsOK

(* The channel ends with the route unless the latest change was dropped;    *)
(* when it is empty, what the cache holds and what a lazy read has fetched  *)
(* are the route, unless an event, or the watch itself, came after the read.*)
Tracking ==
    sync = "synced" /\ ~lost =>
        /\ watch # <<>> => watch[Len(watch)] = Route
        /\ watch = <<>> =>
              /\ ~spoiled => cache \in {Miss, Route}
              /\ \A r \in Requests : rpc[r] = "store" /\ ~late[r] => reply[r] = Route

CacheInv == AdmitInv /\ Tracking

-----------------------------------------------------------------------------
(* The table. *)

LEMMA TenantType ==
    CacheTypeOK <=> /\ owner \in Cells \cup {NoCell} /\ epoch \in Nat
               /\ source \in Cells \cup {NoCell} /\ target \in Cells \cup {NoCell}
               /\ CacheTypeOK
BY DEF CacheTypeOK, tenant

LEMMA RouteType ==
    ASSUME CacheTypeOK
    PROVE  Route \in Events
BY TenantType DEF Route, NoRoute, Event, Events

(* The step announces the route that it leaves, if the channel has room. *)
Announces ==
    /\ watch' = IF Len(watch) < Buffer THEN Append(watch, Route') ELSE watch
    /\ lost' = (Len(watch) = Buffer)

LEMMA BroadcastRoute ==
    ASSUME NEW ev, Broadcast(ev), ev = Route'
    PROVE  Announces
BY DEF Broadcast, Announces

(* A change of the route: what it does to the table, and what it announces. *)
LEMMA TableSteps ==
    ASSUME CacheTypeOK, TableOK, TableStep
    PROVE  /\ owner' \in Cells \cup {NoCell} /\ epoch' \in Nat
           /\ source' \in Cells \cup {NoCell} /\ target' \in Cells \cup {NoCell}
           /\ TableOK' /\ Announces
           /\ known' = IF owner' = Here /\ source' = NoCell THEN known \cup {epoch'} ELSE known
           /\ UNCHANGED <<cacheVars, reqVars, late, faults>>
<1>0. /\ owner \in Cells \cup {NoCell} /\ epoch \in Nat
      /\ source \in Cells \cup {NoCell} /\ target \in Cells \cup {NoCell}
  BY TenantType
<1> DEFINE Goal == /\ owner' \in Cells \cup {NoCell} /\ epoch' \in Nat
                   /\ source' \in Cells \cup {NoCell} /\ target' \in Cells \cup {NoCell}
                   /\ TableOK' /\ Announces
<1>1. ASSUME NEW c \in Cells, Place(c) PROVE Goal
  <2>1. /\ epoch = 0 /\ owner' = c /\ epoch' = 1 /\ source' = source /\ target' = target
        /\ Broadcast(Event(c, 1, NoCell, FALSE))
    BY <1>1 DEF Place, Table!Place
  <2>2. source = NoCell
    BY <2>1 DEF TableOK
  <2>3. Route' = Event(c, 1, NoCell, FALSE)
    BY <2>1, <2>2 DEF Route
  <2>4. Announces
    BY <2>1, <2>3, BroadcastRoute
  <2> QED BY <1>0, <2>1, <2>4 DEF TableOK
<1>2. ASSUME NEW c \in Cells, BeginMove(c) PROVE Goal
  <2>1. /\ epoch > 0 /\ owner' = owner /\ epoch' = epoch /\ source' = owner /\ target' = c
        /\ Broadcast(Event(owner, epoch, owner, FALSE))
    BY <1>2 DEF BeginMove, Table!Begin
  <2>2. epoch' # 0
    BY <1>0, <2>1
  <2>3. Route' = Event(owner, epoch, owner, FALSE)
    BY <2>1, <2>2 DEF Route
  <2>4. Announces
    BY <2>1, <2>3, BroadcastRoute
  <2> QED BY <1>0, <2>1, <2>2, <2>4 DEF TableOK
<1>3. ASSUME NEW c \in Cells, Settle(c) PROVE Goal
  <2>1. /\ owner' = c /\ epoch' = epoch + 2 /\ source' = NoCell /\ target' = NoCell
        /\ Broadcast(Event(c, epoch + 2, NoCell, FALSE))
    BY <1>3 DEF Settle, Table!Settle
  <2>2. epoch' # 0
    BY <1>0, <2>1
  <2>3. Route' = Event(c, epoch + 2, NoCell, FALSE)
    BY <2>1, <2>2 DEF Route
  <2>4. Announces
    BY <2>1, <2>3, BroadcastRoute
  <2> QED BY <1>0, <2>1, <2>2, <2>4 DEF TableOK
<1>4. ASSUME NextPhase PROVE Goal
  <2>1. /\ ~Resting /\ UNCHANGED <<owner, epoch, source, target>>
        /\ Broadcast(Event(owner, epoch, source, FALSE))
    BY <1>4 DEF NextPhase, tenant
  <2>2. epoch # 0
    BY <2>1 DEF TableOK, Resting, Table!Idle
  <2>3. Route' = Event(owner, epoch, source, FALSE)
    BY <2>1, <2>2 DEF Route
  <2> QED BY <1>0, <2>1, <2>3, BroadcastRoute DEF TableOK
<1>5. ASSUME DeleteRoute PROVE Goal
  <2>1. /\ owner' = NoCell /\ epoch' = 0 /\ source' = NoCell /\ target' = NoCell
        /\ Broadcast(Event(NoCell, 0, NoCell, TRUE))
    BY <1>5 DEF DeleteRoute
  <2>2. Route' = Event(NoCell, 0, NoCell, TRUE)
    BY <2>1 DEF Route, NoRoute
  <2> QED BY <2>1, <2>2, BroadcastRoute DEF TableOK
<1>6. Goal
  BY <1>1, <1>2, <1>3, <1>4, <1>5 DEF TableStep
<1> QED BY <1>6 DEF TableStep

-----------------------------------------------------------------------------
(* Types, and the admissions. *)

LEMMA NoAnswers == Miss \in Events /\ NoRoute \in Events
BY DEF Miss, NoRoute, Event, Events

LEMMA DecideType ==
    ASSUME NEW ev \in Events, NEW stale \in BOOLEAN
    PROVE  Decide(ev, stale) \in [cell : Cells, epoch : Nat, admitNew : BOOLEAN,
                                  stale : BOOLEAN]
BY CacheAssumption DEF Decide, DefaultDecision, DecisionFromRoute, AdmitsNew, Events

LEMMA DefaultType ==
    ASSUME NEW stale \in BOOLEAN
    PROVE  DefaultDecision(stale) \in [cell : Cells, epoch : Nat, admitNew : BOOLEAN,
                                       stale : BOOLEAN]
BY CacheAssumption DEF DefaultDecision

(* A decision taken from an answer that is vouched for, or from none. *)
LEMMA DecideVouched ==
    ASSUME KnownOK, NEW ev \in Events, Vouched(ev), NEW stale,
           Decide(ev, stale).admitNew, Decide(ev, stale).cell = Here
    PROVE  Decide(ev, stale).epoch \in known
BY CacheAssumption, WatchAssumption
   DEF Decide, DefaultDecision, DecisionFromRoute, AdmitsNew, Events, Vouched, KnownOK

LEMMA RouteVouched ==
    ASSUME CacheTypeOK, TableOK, KnownOK
    PROVE  Vouched(Route)
BY TenantType DEF Vouched, Route, NoRoute, Event, TableOK, KnownOK

Decisions == [cell : Cells, epoch : Nat, admitNew : BOOLEAN, stale : BOOLEAN]

LEMMA DecidedType ==
    ASSUME CacheTypeOK, NEW r \in Requests, NEW d \in Decisions, Decided(r, d)
    PROVE  /\ dec' \in [Requests -> Decisions]
           /\ rpc' \in [Requests -> {"idle", "get", "store", "decided", "admitting"}]
           /\ reply' \in [Requests -> Events] /\ late' \in [Requests -> BOOLEAN]
BY NoAnswers DEF CacheTypeOK, Decided, Decisions

LEMMA RequestTypes ==
    ASSUME CacheTypeOK, NEW r \in Requests,
           \/ Hit(r) \/ MissCache(r) \/ Get(r) \/ GetFails(r) \/ StoreReply(r)
           \/ Admit(r) \/ Reject(r) \/ Finish(r)
    PROVE  CacheTypeOK'
<1>1. /\ Miss \in Events /\ Route \in Events /\ cache \in Events /\ reply[r] \in Events
      /\ aged \in BOOLEAN /\ late[r] \in BOOLEAN
  BY NoAnswers, RouteType DEF CacheTypeOK
<1>2. /\ Decide(cache, aged) \in Decisions /\ Decide(reply[r], FALSE) \in Decisions
      /\ DefaultDecision(FALSE) \in Decisions /\ DefaultDecision(TRUE) \in Decisions
  BY <1>1, DecideType, DefaultType DEF Decisions
<1>3. CASE Hit(r)
  <2>1. Decided(r, Decide(cache, aged)) /\ UNCHANGED <<tableVars, cacheVars, known, faults>>
    BY <1>3 DEF Hit
  <2> QED BY <1>2, <2>1, DecidedType
          DEF CacheTypeOK, Decisions, tableVars, tenant, cacheVars
<1>4. CASE MissCache(r)
  BY <1>4 DEF CacheTypeOK, MissCache, tableVars, tenant, cacheVars
<1>5. CASE Get(r)
  BY <1>1, <1>5 DEF CacheTypeOK, Get, tableVars, tenant, cacheVars
<1>6. CASE GetFails(r)
  <2>1. Decided(r, DefaultDecision(TRUE)) /\ UNCHANGED <<tableVars, cacheVars, known>>
    BY <1>6 DEF GetFails
  <2>2. faults' \in Nat
    BY <1>6 DEF CacheTypeOK, GetFails
  <2> QED BY <1>2, <2>1, <2>2, DecidedType
          DEF CacheTypeOK, Decisions, tableVars, tenant, cacheVars
<1>7. CASE StoreReply(r)
  <2>1. /\ Decided(r, Decide(reply[r], FALSE)) /\ UNCHANGED <<tableVars, sync, known, faults>>
        /\ cache' = reply[r] /\ aged' = FALSE /\ spoiled' = late[r]
    BY <1>7 DEF StoreReply
  <2> QED BY <1>1, <1>2, <2>1, DecidedType DEF CacheTypeOK, Decisions, tableVars, tenant
<1>8. CASE Admit(r)
  BY <1>8 DEF CacheTypeOK, Admit, tableVars, tenant, cacheVars
<1>9. CASE Reject(r) \/ Finish(r)
  <2>1. /\ Return(r)
        /\ UNCHANGED <<tableVars, cacheVars, reply, known, late, faults>>
    BY <1>9 DEF Reject, Finish
  <2>2. dec' \in [Requests -> Decisions]
    BY <1>2, <2>1 DEF CacheTypeOK, Return, Decisions
  <2> QED BY <2>1, <2>2 DEF CacheTypeOK, Return, Decisions, tableVars, tenant, cacheVars
<1> QED BY <1>3, <1>4, <1>5, <1>6, <1>7, <1>8, <1>9

LEMMA WatchTypes ==
    ASSUME CacheTypeOK, Start \/ Apply \/ Stop \/ Age
    PROVE  CacheTypeOK'
<1>1. CASE Start
  <2>1. watch' \in Seq(Events) /\ Len(watch') <= Buffer
    BY <1>1, WatchAssumption DEF Start
  <2>2. lost' \in BOOLEAN /\ spoiled' \in BOOLEAN /\ sync' \in {"new", "synced", "stopped"}
    BY <1>1 DEF Start
  <2>3. late' \in [Requests -> BOOLEAN]
    BY <1>1 DEF Start
  <2>4. UNCHANGED <<tenant, deletes, cache, aged, reqVars, known, faults>>
    BY <1>1 DEF Start
  <2> QED BY <2>1, <2>2, <2>3, <2>4 DEF CacheTypeOK, tenant, reqVars
<1>2. CASE Apply
  <2>1. /\ Head(watch) \in Events /\ Tail(watch) \in Seq(Events) /\ Len(Tail(watch)) <= Buffer
    BY <1>2, WatchAssumption DEF CacheTypeOK, Apply
  <2> QED BY <1>2, <2>1 DEF CacheTypeOK, Apply, Applied, tenant, reqVars
<1>3. CASE Stop \/ Age
  BY <1>3 DEF CacheTypeOK, Stop, Age, tableVars, tenant, reqVars
<1> QED BY <1>1, <1>2, <1>3

LEMMA TableTypes ==
    ASSUME CacheTypeOK, TableOK, TableStep
    PROVE  CacheTypeOK'
<1>1. Route' \in Events
  BY TableSteps DEF Route, NoRoute, Event, Events
<1>2. watch' \in Seq(Events) /\ Len(watch') <= Buffer
  <2>1. watch \in Seq(Events) /\ Len(watch) <= Buffer /\ Len(watch) \in Nat /\ Buffer \in Nat
    BY WatchAssumption DEF CacheTypeOK
  <2>2. watch' = IF Len(watch) < Buffer THEN Append(watch, Route') ELSE watch
    BY TableSteps DEF Announces
  <2>3. CASE Len(watch) < Buffer
    <3>1. watch' = Append(watch, Route')
      BY <2>2, <2>3
    <3> HIDE <2>2
    <3> QED BY <1>1, <2>1, <2>3, <3>1
  <2> QED BY <2>1, <2>2, <2>3
<1>3. known' \subseteq Nat /\ lost' \in BOOLEAN
  <2>1. known' \subseteq Nat
    <3>1. known \subseteq Nat /\ epoch' \in Nat
      BY TableSteps DEF CacheTypeOK
    <3>2. known' = known \cup {epoch'} \/ known' = known
      BY TableSteps
    <3> QED BY <3>1, <3>2
  <2>2. lost' \in BOOLEAN
    BY TableSteps DEF Announces
  <2> QED BY <2>1, <2>2
<1> QED BY <1>2, <1>3, TableSteps DEF CacheTypeOK, tenant, cacheVars, reqVars

LEMMA AdmitInit == CacheInit => AdmitInv
<1> SUFFICES ASSUME CacheInit PROVE AdmitInv
  OBVIOUS
<1>1. /\ owner = NoCell /\ epoch = 0 /\ source = NoCell /\ target = NoCell /\ watch = <<>>
  BY DEF CacheInit, TableInit, Table!Init
<1>2. CacheTypeOK
  <2>1. DefaultDecision(FALSE) \in Decisions
    BY DefaultType DEF Decisions
  <2>2. dec \in [Requests -> Decisions]
    BY <2>1 DEF CacheInit
  <2>3. tenant \in (Cells \cup {NoCell}) \X Nat \X (Cells \cup {NoCell}) \X (Cells \cup {NoCell})
    BY <1>1 DEF tenant
  <2>4. watch \in Seq(Events) /\ Len(watch) <= Buffer
    BY <1>1, WatchAssumption
  <2>5. /\ rpc \in [Requests -> {"idle", "get", "store", "decided", "admitting"}]
        /\ late \in [Requests -> BOOLEAN] /\ reply \in [Requests -> Events]
    BY NoAnswers DEF CacheInit
  <2>6. known \subseteq Nat /\ faults \in Nat
    BY DEF CacheInit
  <2>7. /\ sync \in {"new", "synced", "stopped"} /\ aged \in BOOLEAN /\ spoiled \in BOOLEAN
        /\ cache \in Events /\ lost \in BOOLEAN
    BY NoAnswers DEF CacheInit, TableInit
  <2> QED BY <2>2, <2>3, <2>4, <2>5, <2>6, <2>7 DEF CacheTypeOK, Decisions
<1>3. TableOK /\ KnownOK /\ CopiesVouched /\ DecisionsOK
  BY <1>1 DEF CacheInit, TableOK, KnownOK, CopiesVouched, DecisionsOK
<1> QED BY <1>2, <1>3 DEF AdmitInv

(* A request: its decision comes from an answer that is vouched for. *)
LEMMA AdmitRequest ==
    ASSUME AdmitInv, NEW r \in Requests,
           \/ Hit(r) \/ MissCache(r) \/ Get(r) \/ GetFails(r) \/ StoreReply(r)
           \/ Admit(r) \/ Reject(r) \/ Finish(r)
    PROVE  AdmitInv'
<1> USE DEF AdmitInv
<1>0. CacheTypeOK'
  BY RequestTypes
<1>1. TableOK' /\ KnownOK'
  <2>1. UNCHANGED <<tableVars, known>>
    BY DEF Hit, MissCache, Get, GetFails, StoreReply, Admit, Reject, Finish
  <2> QED BY <2>1 DEF TableOK, KnownOK, tableVars, tenant
<1>2. /\ watch' = watch /\ known' = known
      /\ \A q \in Requests \ {r} : rpc'[q] = rpc[q] /\ reply'[q] = reply[q] /\ dec'[q] = dec[q]
  BY DEF CacheTypeOK, Hit, MissCache, Get, GetFails, StoreReply, Admit, Reject, Finish, Decided,
         Return, tableVars
<1>3. CASE Hit(r)
  <2>1. rpc'[r] = "decided" /\ dec'[r] = Decide(cache, aged) /\ cache' = cache
    BY <1>3 DEF CacheTypeOK, Hit, Decided, cacheVars
  <2>2. Decide(cache, aged).admitNew /\ Decide(cache, aged).cell = Here
           => Decide(cache, aged).epoch \in known
    BY <1>3, DecideVouched DEF CacheTypeOK, Hit, CopiesVouched
  <2>3. CopiesVouched'
    BY <1>2, <2>1 DEF CopiesVouched, Vouched
  <2>4. DecisionsOK'
    BY <1>2, <2>1, <2>2 DEF DecisionsOK
  <2> QED BY <1>0, <1>1, <2>3, <2>4
<1>4. CASE MissCache(r)
  <2>1. rpc'[r] = "get" /\ cache' = cache
    BY <1>4 DEF CacheTypeOK, MissCache, cacheVars
  <2>2. CopiesVouched' /\ DecisionsOK'
    BY <1>2, <2>1 DEF CopiesVouched, Vouched, DecisionsOK
  <2> QED BY <1>0, <1>1, <2>2
<1>5. CASE Get(r)
  <2>1. rpc'[r] = "store" /\ reply'[r] = Route /\ cache' = cache
    BY <1>5 DEF CacheTypeOK, Get, cacheVars
  <2>2. CopiesVouched' /\ DecisionsOK'
    BY <1>2, <2>1, RouteVouched DEF CopiesVouched, Vouched, DecisionsOK
  <2> QED BY <1>0, <1>1, <2>2
<1>6. CASE GetFails(r)
  <2>1. rpc'[r] = "decided" /\ dec'[r] = DefaultDecision(TRUE) /\ cache' = cache
    BY <1>6 DEF CacheTypeOK, GetFails, Decided, cacheVars
  <2>2. dec'[r].cell = Here => dec'[r].epoch \in known
    BY <2>1 DEF DefaultDecision, KnownOK
  <2>3. CopiesVouched' /\ DecisionsOK'
    BY <1>2, <2>1, <2>2 DEF CopiesVouched, Vouched, DecisionsOK
  <2> QED BY <1>0, <1>1, <2>3
<1>7. CASE StoreReply(r)
  <2>1. rpc'[r] = "decided" /\ dec'[r] = Decide(reply[r], FALSE) /\ cache' = reply[r]
    BY <1>7 DEF CacheTypeOK, StoreReply, Decided
  <2>2. Vouched(reply[r]) /\ reply[r] \in Events
    BY <1>7 DEF CacheTypeOK, StoreReply, CopiesVouched
  <2>3. Decide(reply[r], FALSE).admitNew /\ Decide(reply[r], FALSE).cell = Here
           => Decide(reply[r], FALSE).epoch \in known
    BY <2>2, DecideVouched
  <2>4. CopiesVouched'
    BY <1>2, <2>1, <2>2 DEF CopiesVouched, Vouched
  <2>5. DecisionsOK'
    BY <1>2, <2>1, <2>3 DEF DecisionsOK
  <2> QED BY <1>0, <1>1, <2>4, <2>5
<1>8. CASE Admit(r)
  <2>1. /\ rpc[r] = "decided" /\ rpc'[r] = "admitting" /\ dec'[r] = dec[r] /\ cache' = cache
        /\ dec[r].admitNew /\ dec[r].cell = Here
    BY <1>8 DEF CacheTypeOK, Admit, Passes, cacheVars
  <2>2. CopiesVouched' /\ DecisionsOK'
    BY <1>2, <2>1 DEF CopiesVouched, Vouched, DecisionsOK
  <2> QED BY <1>0, <1>1, <2>2
<1>9. CASE Reject(r) \/ Finish(r)
  <2>1. rpc'[r] = "idle" /\ cache' = cache
    BY <1>9 DEF CacheTypeOK, Reject, Finish, Return, cacheVars
  <2>2. CopiesVouched' /\ DecisionsOK'
    BY <1>2, <2>1 DEF CopiesVouched, Vouched, DecisionsOK
  <2> QED BY <1>0, <1>1, <2>2
<1> QED BY <1>3, <1>4, <1>5, <1>6, <1>7, <1>8, <1>9

LEMMA AdmitWatch ==
    ASSUME AdmitInv, Start \/ Apply \/ Stop \/ Age
    PROVE  AdmitInv'
<1> USE DEF AdmitInv
<1>0. CacheTypeOK'
  BY WatchTypes
<1>1. /\ TableOK' /\ KnownOK' /\ DecisionsOK'
      /\ known' = known /\ rpc' = rpc /\ reply' = reply
  BY DEF TableOK, KnownOK, DecisionsOK, Start, Apply, Stop, Age, tableVars, tenant, reqVars
<1>2. CASE Start
  BY <1>0, <1>1, <1>2 DEF Start, CopiesVouched, Vouched
<1>3. CASE Apply
  <2>1. /\ watch \in Seq(Events) /\ watch # <<>>
        /\ cache' = Head(watch) /\ watch' = Tail(watch)
    BY <1>3 DEF CacheTypeOK, Apply, Applied
  <2>2. Vouched(watch[1]) /\ \A i \in DOMAIN Tail(watch) : Vouched(Tail(watch)[i])
    BY <2>1 DEF CopiesVouched
  <2>3. CopiesVouched'
    BY <1>1, <2>1, <2>2 DEF CopiesVouched, Vouched
  <2> QED BY <1>0, <1>1, <2>3
<1>4. CASE Stop \/ Age
  BY <1>0, <1>1, <1>4 DEF Stop, Age, CopiesVouched, Vouched, tableVars
<1> QED BY <1>2, <1>3, <1>4

LEMMA AdmitTable ==
    ASSUME AdmitInv, TableStep
    PROVE  AdmitInv'
<1> USE DEF AdmitInv
<1>0. CacheTypeOK' /\ TableOK'
  BY TableTypes, TableSteps
<1>1. /\ known \subseteq known'
      /\ cache' = cache /\ rpc' = rpc /\ reply' = reply /\ dec' = dec
  BY TableSteps DEF cacheVars, reqVars
<1>2. KnownOK' /\ DecisionsOK'
  BY <1>1, TableSteps DEF KnownOK, DecisionsOK
<1>3. Vouched(Route)'
  BY <1>0, <1>2, TableSteps DEF Vouched, Route, NoRoute, Event, TableOK, KnownOK
<1>4. \A ev : Vouched(ev) => (ev.deleted \/ (/\ ev.active \in Cells
                   /\ ev.active = Here /\ ev.source = NoCell => ev.epoch \in known'))
  BY <1>1 DEF Vouched
<1>5. \A i \in DOMAIN watch' : Vouched(watch[i])'
  <2>1. CASE Len(watch) < Buffer
    <3>1. watch' = Append(watch, Route') /\ watch \in Seq(Events)
      BY <2>1, TableSteps DEF Announces, CacheTypeOK
    <3>2. \A i \in DOMAIN watch' : watch'[i] = Route' \/ (i \in DOMAIN watch /\ watch'[i] = watch[i])
      BY <3>1
    <3> QED BY <1>3, <1>4, <3>2 DEF CopiesVouched, Vouched
  <2>2. CASE ~(Len(watch) < Buffer)
    BY <1>4, <2>2, TableSteps DEF Announces, CopiesVouched, Vouched
  <2> QED BY <2>1, <2>2
<1>6. CopiesVouched'
  BY <1>1, <1>4, <1>5 DEF CopiesVouched, Vouched
<1> QED BY <1>0, <1>2, <1>6

LEMMA AdmitStep == AdmitInv /\ [CacheNext]_routerVars => AdmitInv'
<1> SUFFICES ASSUME AdmitInv, [CacheNext]_routerVars PROVE AdmitInv'
  OBVIOUS
<1>1. CASE UNCHANGED routerVars
  BY <1>1 DEF routerVars, tableVars, cacheVars, reqVars, AdmitInv, CacheTypeOK, tenant, TableOK,
              KnownOK, CopiesVouched, Vouched, DecisionsOK
<1>2. CASE CacheNext
  BY <1>2, AdmitRequest, AdmitWatch, AdmitTable DEF CacheNext
<1> QED BY <1>1, <1>2

(* The router's cache, its requests and its channel stay well-typed; the    *)
(* channel never holds more than its capacity.                              *)
THEOREM CacheTypeCorrect == CacheSpec => []CacheTypeOK
BY AdmitInit, AdmitStep, PTL DEF CacheSpec, AdmitInv

(* The interceptors pass a request to this cell's gate only at an epoch at  *)
(* which the tenant has rested here, or at 0 on the default cell, however   *)
(* stale the cache is (Resolve, UnaryServerInterceptor).                    *)
THEOREM PassesAtKnownEpochs == CacheSpec => []AdmitsAtKnownEpoch
<1>1. AdmitInv => AdmitsAtKnownEpoch
  BY DEF AdmitInv, DecisionsOK, AdmitsAtKnownEpoch
<1> QED BY <1>1, AdmitInit, AdmitStep, PTL DEF CacheSpec

-----------------------------------------------------------------------------
(* Convergence. *)

LEMMA TrackingInit == CacheInit => Tracking
BY DEF CacheInit, TableInit, Tracking

(* A read of the table returns the route; a store that no event overtook    *)
(* puts the route into the cache.                                           *)
LEMMA TrackingRequest ==
    ASSUME CacheTypeOK, Tracking, NEW r \in Requests,
           \/ Hit(r) \/ MissCache(r) \/ Get(r) \/ GetFails(r) \/ StoreReply(r)
           \/ Admit(r) \/ Reject(r) \/ Finish(r)
    PROVE  Tracking'
<1>1. /\ UNCHANGED <<owner, epoch, source, target, watch, sync, lost>> /\ Route' = Route
  <2>1. UNCHANGED <<tableVars, sync>>
    BY DEF Hit, MissCache, Get, GetFails, StoreReply, Admit, Reject, Finish, cacheVars
  <2>2. UNCHANGED <<owner, epoch, source, target, watch, lost>>
    BY <2>1 DEF tableVars, tenant
  <2> QED BY <2>1, <2>2 DEF Route
<1>2. \A q \in Requests \ {r} : rpc'[q] = rpc[q] /\ reply'[q] = reply[q] /\ late'[q] = late[q]
  BY DEF CacheTypeOK, Hit, MissCache, Get, GetFails, StoreReply, Admit, Reject, Finish, Decided,
         Return
<1>4. CASE Get(r)
  <2>1. rpc'[r] = "store" /\ reply'[r] = Route /\ cache' = cache /\ spoiled' = spoiled
    BY <1>4 DEF CacheTypeOK, Get, cacheVars
  <2> QED BY <1>1, <1>2, <2>1 DEF Tracking
<1>5. CASE StoreReply(r)
  <2>1. /\ rpc[r] = "store" /\ rpc'[r] = "decided" /\ cache' = reply[r] /\ spoiled' = late[r]
    BY <1>5 DEF CacheTypeOK, StoreReply, Decided
  <2> QED BY <1>1, <1>2, <2>1 DEF Tracking
<1>6. CASE Hit(r) \/ MissCache(r) \/ GetFails(r) \/ Admit(r) \/ Reject(r) \/ Finish(r)
  <2>1. rpc'[r] # "store" /\ cache' = cache /\ spoiled' = spoiled
    BY <1>6 DEF CacheTypeOK, Hit, MissCache, GetFails, Admit, Reject, Finish, Decided, Return,
                cacheVars
  <2> QED BY <1>1, <1>2, <2>1 DEF Tracking
<1> QED BY <1>4, <1>5, <1>6

LEMMA NoElements ==
    ASSUME NEW S, NEW t \in Seq(S)
    PROVE  t = <<>> <=> Len(t) = 0
BY EmptySeq

LEMMA TailKeepsLast ==
    ASSUME NEW S, NEW s \in Seq(S), s # <<>>
    PROVE  /\ Tail(s) = <<>> => Head(s) = s[Len(s)]
           /\ Tail(s) # <<>> => Tail(s)[Len(Tail(s))] = s[Len(s)]
<1>1. Head(s) = s[1] /\ Len(s) \in Nat \ {0}
  OBVIOUS
<1>2. PICK t \in Seq(S) : /\ t = Tail(s) /\ Len(t) = Len(s) - 1
                          /\ \A i \in 1 .. Len(t) : t[i] = s[i + 1]
  BY HeadTailProperties
<1>3. t = <<>> <=> Len(t) = 0
  BY <1>2, NoElements
<1>4. CASE Len(s) = 1
  BY <1>1, <1>2, <1>3, <1>4
<1>5. CASE Len(s) # 1
  <2>1. Len(t) # 0 /\ Len(t) \in 1 .. Len(t) /\ Len(t) + 1 = Len(s)
    BY <1>1, <1>2, <1>5
  <2>2. t[Len(t)] = s[Len(s)]
    BY <1>2, <2>1
  <2> QED BY <1>2, <1>3, <2>1, <2>2
<1> QED BY <1>4, <1>5

(* Applying the last event of the channel puts the route into the cache,    *)
(* and marks the reads that it overtook.                                    *)
LEMMA TrackingWatch ==
    ASSUME CacheTypeOK, Tracking, Start \/ Apply \/ Stop \/ Age
    PROVE  Tracking'
<1>1. Route' = Route /\ rpc' = rpc /\ reply' = reply
  BY DEF Start, Apply, Stop, Age, tableVars, tenant, reqVars, Route
<1>2. CASE Start
  BY <1>1, <1>2 DEF Start, Tracking, CacheTypeOK
<1>3. CASE Apply
  <2>1. /\ watch \in Seq(Events) /\ watch # <<>> /\ sync = "synced" /\ sync' = "synced"
        /\ cache' = Head(watch) /\ watch' = Tail(watch) /\ lost' = lost
        /\ \A r \in Requests : rpc[r] = "store" => late'[r]
    BY <1>3 DEF CacheTypeOK, Apply, Applied
  <2>2. /\ Tail(watch) = <<>> => Head(watch) = watch[Len(watch)]
        /\ Tail(watch) # <<>> => Tail(watch)[Len(Tail(watch))] = watch[Len(watch)]
    BY <2>1, TailKeepsLast
  <2> QED BY <1>1, <2>1, <2>2 DEF Tracking
<1>4. CASE Stop \/ Age
  BY <1>1, <1>4 DEF Stop, Age, Tracking, tableVars
<1> QED BY <1>2, <1>3, <1>4

(* A change of the route is the last event of the channel, or is dropped.   *)
LEMMA TrackingTable ==
    ASSUME CacheTypeOK, TableOK, Tracking, TableStep
    PROVE  Tracking'
<1>1. /\ UNCHANGED <<sync, cache, spoiled, rpc, reply, late>>
      /\ lost' = (Len(watch) = Buffer)
  BY TableSteps DEF cacheVars, reqVars, Announces
<1>2. CASE sync = "synced" /\ ~lost'
  <2>0. Len(watch) # Buffer
    BY <1>1, <1>2, Zenon
  <2>1. Len(watch) < Buffer /\ watch \in Seq(Events)
    BY <2>0, WatchAssumption DEF CacheTypeOK
  <2>2. watch' = Append(watch, Route')
    BY <2>1, TableSteps DEF Announces
  <2>3. watch' # <<>> /\ watch'[Len(watch')] = Route'
    BY <2>1, <2>2
  <2> QED BY <1>1, <1>2, <2>3 DEF Tracking
<1>3. CASE ~(sync = "synced" /\ ~lost')
  BY <1>1, <1>3 DEF Tracking
<1> QED BY <1>2, <1>3

LEMMA CacheStep == CacheInv /\ [CacheNext]_routerVars => CacheInv'
<1> SUFFICES ASSUME CacheInv, [CacheNext]_routerVars PROVE CacheInv'
  OBVIOUS
<1>0. AdmitInv'
  BY AdmitStep DEF CacheInv
<1>1. CASE UNCHANGED routerVars
  <2>1. UNCHANGED <<owner, epoch, source, target, watch, lost, sync, cache, spoiled, rpc, reply,
                    late>>
    BY <1>1 DEF routerVars, tableVars, tenant, cacheVars, reqVars
  <2>2. Route' = Route
    BY <2>1 DEF Route
  <2> QED BY <1>0, <2>1, <2>2 DEF CacheInv, Tracking
<1>2. CASE CacheNext
  <2>1. Tracking'
    BY <1>2, TrackingRequest, TrackingWatch, TrackingTable DEF CacheNext, CacheInv, AdmitInv
  <2> QED BY <1>0, <2>1 DEF CacheInv
<1> QED BY <1>1, <1>2

(* Once every event has been applied the cache holds the table's route,     *)
(* unless what it holds is a lazy fill older than the latest event or than  *)
(* the watch, or the channel dropped the latest change; every earlier loss  *)
(* is made good (Start, apply).                                             *)
THEOREM CacheFollows == CacheSpec => []ConvergesUnlessMissed
<1>1. CacheInit => CacheInv
  BY AdmitInit, TrackingInit DEF CacheInv
<1>2. CacheInv => ConvergesUnlessMissed
  BY DEF CacheInv, Tracking, ConvergesUnlessMissed
<1> QED BY <1>1, <1>2, CacheStep, PTL DEF CacheSpec

(***************************************************************************)
(* Requests.                                                               *)
(***************************************************************************)

-----------------------------------------------------------------------------
(* Types. *)

LEMMA RecordTypes ==
    ASSUME TypeOK, NEW c \in Calls
    PROVE  /\ NoRow \in Record /\ Reservation(c) \in Record /\ Completed(c) \in Record
           /\ Abandoned \in Record /\ [row EXCEPT !.expired = TRUE] \in Record
           /\ NoRow.fp \in Bodies
<1>1. NoRow \in Record /\ NoRow.fp \in Bodies
  BY RequestsAssumption DEF NoRow, Record
<1>2. Reservation(c) \in Record
  BY DEF TypeOK, Reservation, Record
<1>3. resp[c] \in Calls \cup {NoCall}
  BY DEF TypeOK
<1>4. Completed(c) \in Record
  <2> DEFINE b == c \in strays
             done == [Reservation(c) EXCEPT !.status = "completed", !.resp = resp[c]]
  <2>1. b \in BOOLEAN
    OBVIOUS
  <2>4. done \in Record
    BY <1>2, <1>3 DEF Record
  <2>2. [done EXCEPT !.expired = b] \in Record
    <3> HIDE DEF b, done
    <3> QED BY <2>1, <2>4 DEF Record
  <2>3. [row EXCEPT !.status = "completed", !.resp = resp[c]] \in Record
    BY <1>3 DEF TypeOK, Record
  <2> QED BY <2>2, <2>3 DEF Completed
<1> QED BY <1>1, <1>2, <1>4 DEF TypeOK, Abandoned, Record

LEMMA TypeInit == Init => TypeOK
<1> SUFFICES ASSUME Init PROVE TypeOK
  OBVIOUS
<1>1. NoRow \in Record /\ NoRow.fp \in Bodies
  BY RequestsAssumption DEF NoRow, Record
<1>2. expiries \in 0..MaxExpiries /\ window \in 1..MaxWindows
  BY RequestsAssumption DEF Init
<1>3. held \in [Calls -> 0..MaxWindows] /\ charged \in [1..MaxWindows -> Nat]
  BY RequestsAssumption DEF Init
<1> QED BY <1>1, <1>2, <1>3 DEF Init, TypeOK, Pcs

(* The part of the types that the end of a call touches. *)
EndTypes ==
    /\ pc \in [Calls -> Pcs] /\ window \in 1..MaxWindows
    /\ body \in [Calls -> Bodies] /\ resp \in [Calls -> Calls \cup {NoCall}]
    /\ held \in [Calls -> 0..MaxWindows] /\ charged \in [1..MaxWindows -> Nat]

LEMMA EndsType ==
    ASSUME TypeOK, NEW c \in Calls, NEW ok \in BOOLEAN, Ends(c, ok)
    PROVE  EndTypes'
<1>1. pc' \in [Calls -> Pcs] /\ window' \in 1..MaxWindows
  BY DEF TypeOK, Ends, Pcs
<1>2. held' \in [Calls -> 0..MaxWindows]
  BY RequestsAssumption DEF TypeOK, Ends
<1>3. charged' \in [1..MaxWindows -> Nat]
  BY DEF TypeOK, Ends
<1>4. body' \in [Calls -> Bodies] /\ resp' \in [Calls -> Calls \cup {NoCall}]
  BY RecordTypes DEF TypeOK, Ends
<1> QED BY <1>1, <1>2, <1>3, <1>4 DEF EndTypes

LEMMA ArriveType ==
    ASSUME TypeOK, NEW c \in Calls, NEW b \in Bodies, Arrive(c, b)
    PROVE  TypeOK'
<1>1. pc' \in [Calls -> Pcs] /\ body' \in [Calls -> Bodies] /\ window' = window /\ charged' = charged
  BY DEF TypeOK, Arrive, Pcs, meter
<1>2. held' \in [Calls -> 0..MaxWindows]
  <2>1. window \in 0..MaxWindows /\ held \in [Calls -> 0..MaxWindows]
    BY RequestsAssumption DEF TypeOK
  <2>2. held' = held \/ held' = [held EXCEPT ![c] = window]
    BY DEF Arrive, meter
  <2> QED BY <2>1, <2>2
<1> QED BY <1>1, <1>2 DEF Arrive, TypeOK, record, hist

(* A call answered from the record. *)
LEMMA ResolveType ==
    ASSUME TypeOK, NEW c \in Calls, Resolve(c), UNCHANGED <<mode, store, expiries>>
    PROVE  TypeOK'
<1>1. Replayable(c) \in BOOLEAN
  BY DEF Replayable
<1>2. EndTypes'
  BY <1>1, EndsType DEF Resolve
<1>3. answers' \subseteq Bodies \X (Calls \cup {NoCall})
  <2>1. <<body[c], row.resp>> \in Bodies \X (Calls \cup {NoCall})
    BY DEF TypeOK, Record
  <2> QED BY <2>1 DEF TypeOK, Resolve
<1> QED BY <1>2, <1>3 DEF Resolve, TypeOK, EndTypes, record

LEMMA GrantedType ==
    ASSUME TypeOK, NEW c \in Calls, Granted(c), UNCHANGED <<mode, store, expiries>>
    PROVE  TypeOK'
<1>1. row' \in Record /\ lock' \in Calls \cup {NoCall}
  BY RecordTypes DEF TypeOK, Granted
<1>2. pc' \in [Calls -> Pcs]
  BY DEF TypeOK, Granted, Pcs
<1> QED BY <1>1, <1>2 DEF Granted, TypeOK, hist, meter

LEMMA GoOnType ==
    ASSUME TypeOK, NEW c \in Calls, NEW to \in Pcs, GoOn(c, to),
           UNCHANGED <<mode, store, expiries>>
    PROVE  TypeOK'
BY DEF GoOn, TypeOK, record, hist, meter

LEMMA FailsType ==
    ASSUME TypeOK, NEW c \in Calls, Fails(c), UNCHANGED <<mode, store, expiries>>
    PROVE  TypeOK'
<1>1. EndTypes'
  BY EndsType DEF Fails
<1> QED BY <1>1 DEF Fails, TypeOK, EndTypes, record, hist

LEMMA ClaimType ==
    ASSUME TypeOK, NEW c \in Calls,
           FastReplay(c) \/ Claim(c) \/ Insert(c) \/ Conflict(c)
    PROVE  TypeOK'
<1>0. {"claim", "insert", "conflict"} \subseteq Pcs
  BY DEF Pcs
<1>1. UNCHANGED <<mode, store, expiries>>
  BY DEF FastReplay, Claim, Insert, Conflict
<1>2. ASSUME FastReplay(c) PROVE Resolve(c) \/ GoOn(c, "claim")
  BY <1>2 DEF FastReplay
<1>3. ASSUME Claim(c) \/ Insert(c) \/ Conflict(c)
      PROVE  Resolve(c) \/ Granted(c) \/ Fails(c) \/ GoOn(c, "conflict") \/ GoOn(c, "insert")
  BY <1>3 DEF Claim, Insert, Conflict
<1> QED BY <1>0, <1>1, <1>2, <1>3, ResolveType, GrantedType, GoOnType, FailsType

LEMMA HandlerType ==
    ASSUME TypeOK, NEW c \in Calls,
           \/ HandlerOk(c) \/ HandlerFails(c) \/ MarshalFails(c)
           \/ Abandon(c) \/ Complete(c) \/ CompleteFails(c) \/ Crash(c)
    PROVE  TypeOK'
<1>0. Ends(c, FALSE) \/ Ends(c, TRUE) => EndTypes'
  BY EndsType
<1>1. Remotely(c) \in Calls \cup {NoCall}
  BY DEF Remotely, TypeOK
<1>2. ASSUME HandlerOk(c) PROVE TypeOK'
  <2>1. pc' \in [Calls -> Pcs] /\ UNCHANGED body
    BY <1>2 DEF HandlerOk, TypeOK, Pcs
  <2>2. resp' \in [Calls -> Calls \cup {NoCall}] /\ remote' \in Calls \cup {NoCall}
    BY <1>1, <1>2 DEF HandlerOk, TypeOK
  <2> QED BY <1>2, <2>1, <2>2 DEF HandlerOk, TypeOK, hist, meter
<1>3. ASSUME HandlerFails(c) PROVE TypeOK'
  <2>1. EndTypes'
    BY <1>0, <1>3 DEF HandlerFails, TypeOK, EndTypes, Pcs, meter
  <2> QED BY <1>1, <1>3, <2>1 DEF HandlerFails, TypeOK, EndTypes, hist
<1>4. ASSUME MarshalFails(c) PROVE TypeOK'
  <2>1. EndTypes'
    BY <1>0, <1>4 DEF MarshalFails, TypeOK, EndTypes, Pcs, meter
  <2> QED BY <1>4, <2>1 DEF MarshalFails, TypeOK, EndTypes
<1>5. ASSUME Abandon(c) PROVE TypeOK'
  <2>1. EndTypes' /\ row' \in Record
    BY <1>0, <1>5, RecordTypes DEF Abandon, TypeOK
  <2>2. strays' \subseteq Calls
    BY <1>5 DEF Abandon, ClaimLost, Running, TypeOK
  <2> QED BY <1>5, <2>1, <2>2 DEF Abandon, TypeOK, EndTypes
<1>6. ASSUME Complete(c) PROVE TypeOK'
  <2>1. <<body[c], resp[c]>> \in Bodies \X (Calls \cup {NoCall})
    BY DEF TypeOK
  <2>2. answers' \subseteq Bodies \X (Calls \cup {NoCall})
    BY <1>6, <2>1 DEF Complete, TypeOK
  <2>3. EndTypes' /\ row' \in Record
    BY <1>0, <1>6, RecordTypes DEF Complete
  <2> QED BY <1>6, <2>2, <2>3 DEF Complete, TypeOK, EndTypes
<1>7. ASSUME CompleteFails(c) \/ Crash(c) PROVE TypeOK'
  BY <1>0, <1>7 DEF CompleteFails, Crash, TypeOK, EndTypes, hist
<1> QED BY <1>2, <1>3, <1>4, <1>5, <1>6, <1>7

LEMMA TimeType ==
    ASSUME TypeOK, NextWindow \/ Expire \/ GCSelect \/ GCDelete
    PROVE  TypeOK'
<1>1. ASSUME NextWindow PROVE TypeOK'
  <2>1. window' \in 1..MaxWindows
    BY <1>1, RequestsAssumption DEF NextWindow, TypeOK
  <2> QED BY <1>1, <2>1 DEF NextWindow, TypeOK, record, hist
<1>2. ASSUME Expire PROVE TypeOK'
  <2>1. expiries' \in 0..MaxExpiries
    BY <1>2, RequestsAssumption DEF Expire, TypeOK
  <2>2. row' \in Record /\ strays' \subseteq Calls
    BY <1>2 DEF Expire, ClaimLost, Running, TypeOK, Record
  <2> QED BY <1>2, <2>1, <2>2 DEF Expire, TypeOK, meter
<1>3. ASSUME GCSelect PROVE TypeOK'
  BY <1>3 DEF GCSelect, TypeOK, hist, meter
<1>4. ASSUME GCDelete PROVE TypeOK'
  <2>1. NoRow \in Record /\ strays' \subseteq Calls
    BY <1>4, RequestsAssumption DEF NoRow, Record, GCDelete, ClaimLost, Running, TypeOK
  <2>2. swept' \in BOOLEAN
    BY <1>4 DEF GCDelete, TypeOK, Live, Absent
  <2> QED BY <1>4, <2>1, <2>2 DEF GCDelete, TypeOK, meter
<1> QED BY <1>1, <1>2, <1>3, <1>4

LEMMA TypeStep == TypeOK /\ [Next]_vars => TypeOK'
<1>1. TypeOK /\ UNCHANGED vars => TypeOK'
  BY DEF vars, record, hist, meter, TypeOK
<1> QED BY <1>1, ArriveType, ClaimType, HandlerType, TimeType DEF Next, Step

(* The record, the calls and the meter stay well-typed in every mode and    *)
(* over every store.                                                        *)
THEOREM TypeCorrect == Spec => []TypeOK
BY TypeInit, TypeStep, PTL DEF Spec

-----------------------------------------------------------------------------
(* The quota. *)

Holders(w) == {c \in Calls : held[c] = w}

(* What is counted in a window is what was charged and what is held, and    *)
(* never more than the limit; whoever is between arriving and ending holds  *)
(* a unit, of the window it arrived in.                                     *)
QuotaInv ==
    /\ used \in [1..MaxWindows -> Nat]
    /\ \A c \in Calls : held[c] = 0 <=> pc[c] \in {"idle", "done"}
    /\ \A w \in 1..MaxWindows :
          used[w] = charged[w] + Cardinality(Holders(w)) /\ used[w] <= Limit

LEMMA HoldersFinite ==
    \A w : IsFiniteSet(Holders(w)) /\ Cardinality(Holders(w)) \in Nat
<1> TAKE w
<1>1. IsFiniteSet(Holders(w))
  BY RequestsAssumption, FS_Subset DEF Holders
<1> QED BY <1>1, FS_CardinalityType

LEMMA QuotaInit == Init => QuotaInv
<1> SUFFICES ASSUME Init PROVE QuotaInv
  OBVIOUS
<1>1. \A w \in 1..MaxWindows : Holders(w) = {}
  BY DEF Init, Holders
<1>2. \A w \in 1..MaxWindows : Cardinality(Holders(w)) = 0
  BY <1>1, FS_EmptySet
<1>3. \A w \in 1..MaxWindows : used[w] = 0 /\ charged[w] = 0
  BY DEF Init
<1>4. \A c \in Calls : held[c] = 0 <=> pc[c] \in {"idle", "done"}
  BY DEF Init
<1>5. used \in [1..MaxWindows -> Nat]
  BY DEF Init
<1> QED BY <1>2, <1>3, <1>4, <1>5, RequestsAssumption DEF QuotaInv

(* A step that leaves the meter and the ends of calls alone. *)
LEMMA QuotaLeft ==
    ASSUME QuotaInv, UNCHANGED <<used, held, charged>>,
           \A c \in Calls : pc[c] \in {"idle", "done"} <=> pc'[c] \in {"idle", "done"}
    PROVE  QuotaInv'
BY DEF QuotaInv, Holders

LEMMA QuotaArrive ==
    ASSUME TypeOK, QuotaInv, NEW c \in Calls, NEW b \in Bodies, Arrive(c, b)
    PROVE  QuotaInv'
<1>0. /\ window \in 1..MaxWindows /\ used \in [1..MaxWindows -> Nat] /\ pc \in [Calls -> Pcs]
      /\ held \in [Calls -> 0..MaxWindows] /\ Limit \in Nat /\ charged \in [1..MaxWindows -> Nat]
  BY RequestsAssumption DEF TypeOK, QuotaInv
<1>v. PICK v \in 1..MaxWindows : v = window
  BY <1>0
<1>1. CASE used[window] + 1 > Limit
  <2>1. UNCHANGED <<used, held, charged>> /\ pc[c] = "idle" /\ pc' = [pc EXCEPT ![c] = "done"]
    BY <1>1 DEF Arrive, meter
  <2> QED BY <1>0, <2>1, QuotaLeft
<1>2. CASE ~(used[window] + 1 > Limit)
  <2>1. /\ pc[c] = "idle" /\ pc' = [pc EXCEPT ![c] = "lookup"]
        /\ used' = [used EXCEPT ![window] = @ + 1]
        /\ held' = [held EXCEPT ![c] = window] /\ charged' = charged
    BY <1>2 DEF Arrive
  <2>2. held[c] = 0
    BY <2>1 DEF QuotaInv
  <2>3. Holders(v)' = Holders(v) \cup {c} /\ c \notin Holders(v)
    BY <1>v, <1>0, <2>1, <2>2 DEF Holders
  <2>4. Cardinality(Holders(v)') = Cardinality(Holders(v)) + 1
    BY <2>3, HoldersFinite, FS_AddElement
  <2>5. \A w \in 1..MaxWindows : w # v => Holders(w)' = Holders(w)
    BY <1>v, <1>0, <2>1, <2>2 DEF Holders
  <2>6. used' \in [1..MaxWindows -> Nat]
    BY <1>v, <1>0, <2>1
  <2>7. used'[v] = charged'[v] + Cardinality(Holders(v)') /\ used'[v] <= Limit
    BY <1>v, <1>0, <1>2, <2>1, <2>4, HoldersFinite DEF QuotaInv
  <2>8. \A w \in 1..MaxWindows : w # v =>
            used'[w] = charged'[w] + Cardinality(Holders(w)') /\ used'[w] <= Limit
    BY <1>v, <1>0, <2>1, <2>5 DEF QuotaInv
  <2>9. \A x \in Calls : held'[x] = 0 <=> pc'[x] \in {"idle", "done"}
    BY <1>v, <1>0, <2>1 DEF QuotaInv
  <2> QED BY <2>6, <2>7, <2>8, <2>9 DEF QuotaInv
<1> QED BY <1>1, <1>2

(* The end of a call moves its unit to the charged ones, or gives it back   *)
(* to the window that it was taken from.                                    *)
LEMMA QuotaEnds ==
    ASSUME TypeOK, QuotaInv, NEW c \in Calls, pc[c] \notin {"idle", "done"},
           NEW ok \in BOOLEAN, Ends(c, ok)
    PROVE  QuotaInv'
<1>0. /\ used \in [1..MaxWindows -> Nat] /\ held \in [Calls -> 0..MaxWindows]
      /\ charged \in [1..MaxWindows -> Nat] /\ Limit \in Nat /\ pc \in [Calls -> Pcs]
  BY RequestsAssumption DEF TypeOK, QuotaInv
<1>1. PICK h \in 1..MaxWindows : h = held[c] /\ h # 0
  BY <1>0 DEF QuotaInv
<1>2. held' = [held EXCEPT ![c] = 0] /\ pc' = [pc EXCEPT ![c] = "done"]
  BY DEF Ends
<1>3. Holders(h)' = Holders(h) \ {c} /\ c \in Holders(h)
  BY <1>0, <1>1, <1>2 DEF Holders
<1>4. Cardinality(Holders(h)') = Cardinality(Holders(h)) - 1
  BY <1>3, HoldersFinite, FS_RemoveElement
<1>5. \A w \in 1..MaxWindows : w # h => Holders(w)' = Holders(w)
  BY <1>0, <1>1, <1>2 DEF Holders
<1>6. Cardinality(Holders(h)') \in Nat
  BY <1>3, HoldersFinite, FS_RemoveElement, FS_CardinalityType
<1>7. /\ used[h] = charged[h] + Cardinality(Holders(h)) /\ used[h] <= Limit
      /\ Cardinality(Holders(h)) \in Nat
  BY <1>1, HoldersFinite DEF QuotaInv
<1>8. \A x \in Calls : held'[x] = 0 <=> pc'[x] \in {"idle", "done"}
  BY <1>0, <1>2 DEF QuotaInv
<1>9. CASE ok
  <2>1. charged' = [charged EXCEPT ![h] = @ + 1] /\ used' = used
    BY <1>1, <1>9 DEF Ends
  <2>2. used'[h] = charged'[h] + Cardinality(Holders(h)') /\ used'[h] <= Limit
    BY <1>0, <1>1, <1>4, <1>6, <1>7, <2>1
  <2>3. \A w \in 1..MaxWindows : w # h =>
            used'[w] = charged'[w] + Cardinality(Holders(w)') /\ used'[w] <= Limit
    BY <1>0, <1>5, <2>1 DEF QuotaInv
  <2> QED BY <1>0, <1>8, <2>1, <2>2, <2>3 DEF QuotaInv
<1>10. CASE ~ok
  <2>1. charged' = charged /\ used' = [used EXCEPT ![h] = @ - 1]
    BY <1>1, <1>10 DEF Ends, Release
  <2>2. used'[h] = charged'[h] + Cardinality(Holders(h)') /\ used'[h] <= Limit /\ used'[h] \in Nat
    BY <1>0, <1>1, <1>4, <1>6, <1>7, <2>1
  <2>3. \A w \in 1..MaxWindows : w # h =>
            used'[w] = charged'[w] + Cardinality(Holders(w)') /\ used'[w] <= Limit
    BY <1>0, <1>5, <2>1 DEF QuotaInv
  <2>4. used' \in [1..MaxWindows -> Nat]
    BY <1>0, <2>1, <2>2
  <2> QED BY <1>8, <2>2, <2>3, <2>4 DEF QuotaInv
<1> QED BY <1>9, <1>10

LEMMA QuotaStep == TypeOK /\ QuotaInv /\ [Next]_vars => QuotaInv'
<1> SUFFICES ASSUME TypeOK, QuotaInv, [Next]_vars PROVE QuotaInv'
  OBVIOUS
<1>0. pc \in [Calls -> Pcs]
  BY DEF TypeOK
<1>1. ASSUME NEW c \in Calls, pc[c] \notin {"idle", "done"}, NEW to \in Pcs \ {"idle", "done"},
             pc' = [pc EXCEPT ![c] = to], UNCHANGED meter
      PROVE  QuotaInv'
  BY <1>0, <1>1, QuotaLeft DEF meter
<1>2. {"claim", "insert", "conflict", "handler", "complete", "abandon"} \subseteq Pcs \ {"idle", "done"}
  BY DEF Pcs
<1>3. ASSUME NEW c \in Calls, pc[c] \notin {"idle", "done"},
             Resolve(c) \/ Granted(c) \/ Fails(c) \/ GoOn(c, "claim")
             \/ GoOn(c, "conflict") \/ GoOn(c, "insert")
      PROVE  QuotaInv'
  <2>1. Replayable(c) \in BOOLEAN
    BY DEF Replayable
  <2>2. CASE Resolve(c) \/ Fails(c)
    BY <1>3, <2>1, <2>2, QuotaEnds DEF Resolve, Fails
  <2>3. CASE Granted(c) \/ GoOn(c, "claim") \/ GoOn(c, "conflict") \/ GoOn(c, "insert")
    BY <1>1, <1>2, <1>3, <2>3 DEF Granted, GoOn
  <2> QED BY <1>3, <2>2, <2>3
<1>4. ASSUME NEW c \in Calls, FastReplay(c) \/ Claim(c) \/ Insert(c) \/ Conflict(c)
      PROVE  QuotaInv'
  <2>1. pc[c] \notin {"idle", "done"}
    BY <1>4 DEF FastReplay, Claim, Insert, Conflict
  <2>2. Resolve(c) \/ Granted(c) \/ Fails(c) \/ GoOn(c, "claim")
             \/ GoOn(c, "conflict") \/ GoOn(c, "insert")
    BY <1>4 DEF FastReplay, Claim, Insert, Conflict, GoOn
  <2> QED BY <1>3, <2>1, <2>2
<1>5. ASSUME NEW c \in Calls,
             \/ HandlerOk(c) \/ HandlerFails(c) \/ MarshalFails(c)
             \/ Abandon(c) \/ Complete(c) \/ CompleteFails(c) \/ Crash(c)
      PROVE  QuotaInv'
  <2>1. pc[c] \notin {"idle", "done"}
    BY <1>5 DEF HandlerOk, HandlerFails, MarshalFails, Abandon, Complete, CompleteFails, Crash
  <2>2. \/ Ends(c, FALSE) \/ Ends(c, TRUE)
        \/ (pc' = [pc EXCEPT ![c] = "complete"] \/ pc' = [pc EXCEPT ![c] = "abandon"]) /\ UNCHANGED meter
    BY <1>5 DEF HandlerOk, HandlerFails, MarshalFails, Abandon, Complete, CompleteFails, Crash
  <2> QED BY <1>1, <1>2, <2>1, <2>2, QuotaEnds
<1>6. ASSUME UNCHANGED vars \/ NextWindow \/ Expire \/ GCSelect \/ GCDelete PROVE QuotaInv'
  <2>1. UNCHANGED <<pc, used, held, charged>>
    BY <1>6 DEF vars, meter, NextWindow, Expire, GCSelect, GCDelete
  <2> QED BY <2>1, QuotaLeft
<1> QED BY <1>4, <1>5, <1>6, QuotaArrive DEF Next, Step

(* A call that fails has consumed nothing, whatever window it ends in, a    *)
(* success has consumed one unit of the window it arrived in, and no window *)
(* is charged past the limit.                                               *)
THEOREM QuotaIsExact == Spec => []QuotaExact
<1>1. QuotaInv => QuotaExact
  BY DEF QuotaInv, QuotaExact, Holders
<1> QED BY <1>1, TypeInit, TypeStep, QuotaInit, QuotaStep, PTL DEF Spec

-----------------------------------------------------------------------------
(* The record. *)

Busy == {"handler", "complete", "abandon"}

(* In "tx" mode whoever runs has the open transaction, over a record that   *)
(* nobody may replay; nobody else holds the lock.                           *)
TxClaims ==
    /\ mode = "tx" => \A c \in Calls : pc[c] \in Busy => lock = c /\ pc[c] # "abandon"
    /\ lock # NoCall => mode = "tx" /\ lock \in Calls /\ pc[lock] \in Busy /\ ~Live
    /\ mode = "tx" => \A c \in Calls : pc[c] = "complete" => resp[c] = c

(* The call runs, and its claim has neither expired nor been deleted. *)
Holds(c) == pc[c] \in Busy /\ c \notin strays

(* In "reserve" mode at most one call holds its reservation, which is the   *)
(* live record, though a call that has lost its own may have completed it;  *)
(* and every response there is is the remote system's.                      *)
Reservations ==
    mode = "reserve" =>
        /\ \A c \in Calls : Holds(c) => Live /\ row.fp = body[c]
        /\ \A c, d \in Calls : Holds(c) /\ Holds(d) => c = d
        /\ \A c \in Calls : pc[c] = "complete" => resp[c] = remote /\ remote # NoCall
        /\ row.status = "completed" => row.resp = remote /\ remote # NoCall

(* What has been done and said since the record's last expiry is what the   *)
(* record will answer, unless a sweep has taken it.                         *)
RecordTells ==
    /\ mode = "reserve" => applied = {}
    /\ ~orphaned /\ ~swept => \A c \in applied : Live /\ row.status = "completed" /\ row.resp = c
    /\ ~swept => \A a \in answers : Live /\ row.status = "completed" /\ a = <<row.fp, row.resp>>

RecordInv == TypeOK /\ TxClaims /\ Reservations /\ RecordTells

LEMMA ModeIs == TypeOK => mode \in {"tx", "reserve"} /\ NoCall \notin Calls
BY RequestsAssumption DEF TypeOK

LEMMA RecordInit == Init => RecordInv
<1> SUFFICES ASSUME Init PROVE RecordInv
  OBVIOUS
<1>1. \A c \in Calls : pc[c] = "idle"
  BY DEF Init
<1>2. row.status = "none" /\ lock = NoCall
  BY DEF Init, NoRow
<1>3. TxClaims /\ Reservations
  BY <1>1, <1>2 DEF TxClaims, Reservations, Holds, Busy
<1>4. RecordTells
  BY DEF Init, RecordTells
<1> QED BY <1>3, <1>4, TypeInit DEF RecordInv

(* A step of one call, as the others see it. *)
OnlyCall(c) ==
    \A d \in Calls \ {c} : pc'[d] = pc[d] /\ body'[d] = body[d] /\ resp'[d] = resp[d]

LEMMA EndsOnly ==
    ASSUME TypeOK, NEW c \in Calls, NEW ok \in BOOLEAN, Ends(c, ok)
    PROVE  pc' = [pc EXCEPT ![c] = "done"] /\ pc'[c] = "done" /\ OnlyCall(c)
BY DEF Ends, OnlyCall, TypeOK

(* A call that is not running, and is not after the step, leaves the others *)
(* and the record alone; it may have been answered from the live record.    *)
LEMMA AsideStep ==
    ASSUME RecordInv, TypeOK', NEW c \in Calls, pc[c] \notin Busy, pc'[c] \notin Busy,
           OnlyCall(c),
           UNCHANGED <<mode, row, lock, remote, applied, orphaned, swept, strays>>,
           \A a \in answers' : a \in answers
                \/ (Live /\ row.status = "completed" /\ a = <<row.fp, row.resp>>)
    PROVE  RecordInv'
<1>0. mode \in {"tx", "reserve"} /\ NoCall \notin Calls
  BY ModeIs DEF RecordInv
<1>1. \A d \in Calls : pc'[d] \in Busy =>
          d # c /\ pc[d] \in Busy /\ pc'[d] = pc[d] /\ body'[d] = body[d] /\ resp'[d] = resp[d]
  BY DEF OnlyCall
<1>2. lock # c
  BY <1>0 DEF RecordInv, TxClaims
<1>3. TxClaims'
  BY <1>0, <1>1, <1>2 DEF RecordInv, TxClaims, Live, Absent, Busy, OnlyCall
<1>4. Reservations'
  BY <1>1 DEF RecordInv, Reservations, Holds, Live, Absent, Busy
<1>5. RecordTells'
  BY DEF RecordInv, RecordTells, Live, Absent
<1> QED BY <1>3, <1>4, <1>5 DEF RecordInv

LEMMA ArriveRecord ==
    ASSUME RecordInv, TypeOK', NEW c \in Calls, NEW b \in Bodies, Arrive(c, b)
    PROVE  RecordInv'
<1>1. /\ pc[c] = "idle" /\ pc'[c] \in {"done", "lookup"} /\ OnlyCall(c)
      /\ UNCHANGED <<mode, row, lock, remote, applied, orphaned, swept, strays, answers>>
  BY DEF Arrive, RecordInv, TypeOK, record, hist, OnlyCall
<1> QED BY <1>1, AsideStep DEF Busy

LEMMA ResolveRecord ==
    ASSUME RecordInv, TypeOK', NEW c \in Calls, pc[c] \notin Busy, Live, Resolve(c),
           UNCHANGED mode
    PROVE  RecordInv'
<1>1. Replayable(c) \in BOOLEAN
  BY DEF Replayable
<1>2. pc'[c] = "done" /\ OnlyCall(c)
  BY <1>1, EndsOnly DEF Resolve, RecordInv
<1>3. UNCHANGED <<mode, row, lock, remote, applied, orphaned, swept, strays>>
  BY DEF Resolve, record
<1>4. \A a \in answers' : a \in answers
          \/ (Live /\ row.status = "completed" /\ a = <<row.fp, row.resp>>)
  BY DEF Resolve, Replayable
<1> QED BY <1>2, <1>3, <1>4, AsideStep DEF Busy

LEMMA GoOnRecord ==
    ASSUME RecordInv, TypeOK', NEW c \in Calls, pc[c] \notin Busy, UNCHANGED mode,
           Fails(c) \/ GoOn(c, "claim") \/ GoOn(c, "conflict") \/ GoOn(c, "insert")
    PROVE  RecordInv'
<1>1. pc'[c] \in {"done", "claim", "conflict", "insert"} /\ OnlyCall(c)
  <2>1. CASE Fails(c)
    BY <2>1, EndsOnly DEF Fails, RecordInv
  <2>2. CASE ~Fails(c)
    BY <2>2 DEF GoOn, RecordInv, TypeOK, OnlyCall
  <2> QED BY <2>1, <2>2
<1>2. UNCHANGED <<mode, row, lock, remote, applied, orphaned, swept, strays, answers>>
  BY DEF Fails, GoOn, record, hist
<1> QED BY <1>1, <1>2, AsideStep DEF Busy

(* A claim is granted only over a record that is not live, when nobody has  *)
(* it locked: nobody holds it.                                              *)
LEMMA GrantedRecord ==
    ASSUME RecordInv, TypeOK', NEW c \in Calls, pc[c] \notin Busy, lock = NoCall, ~Live,
           Granted(c), UNCHANGED mode
    PROVE  RecordInv'
<1>0. mode \in {"tx", "reserve"} /\ NoCall \notin Calls
  BY ModeIs DEF RecordInv
<1>1. /\ mode = "tx" => \A d \in Calls : pc[d] \notin Busy
      /\ mode = "reserve" => \A d \in Calls : ~Holds(d)
  BY <1>0 DEF RecordInv, TxClaims, Reservations
<1>2. /\ pc'[c] = "handler" /\ \A d \in Calls \ {c} : pc'[d] = pc[d]
      /\ UNCHANGED <<mode, remote, body, resp, applied, answers, orphaned, swept, strays>>
      /\ mode = "tx" => lock' = c /\ row' = row
      /\ mode = "reserve" => lock' = lock /\ row' = Reservation(c)
  BY <1>0 DEF Granted, RecordInv, TypeOK, hist
<1>3. TxClaims'
  BY <1>0, <1>1, <1>2 DEF TxClaims, Busy, Live, Absent
<1>4. Reservations'
  <2> SUFFICES ASSUME mode = "reserve" PROVE Reservations'
    BY <1>2 DEF Reservations
  <2>1. \A d \in Calls : Holds(d)' => d = c
    BY <1>1, <1>2 DEF Holds
  <2>2. Live' /\ row'.fp = body'[c] /\ row'.status = "in_progress"
    BY <1>2 DEF Reservation, Live, Absent
  <2>3. \A d \in Calls : pc'[d] = "complete" => pc[d] = "complete"
    BY <1>2
  <2> QED BY <1>2, <2>1, <2>2, <2>3 DEF RecordInv, Reservations
<1>5. ~swept => answers = {} /\ (~orphaned => applied = {})
  BY DEF RecordInv, RecordTells
<1>6. RecordTells'
  BY <1>2, <1>5 DEF RecordInv, RecordTells
<1> QED BY <1>3, <1>4, <1>6 DEF RecordInv

LEMMA ClaimRecord ==
    ASSUME RecordInv, TypeOK', NEW c \in Calls,
           FastReplay(c) \/ Claim(c) \/ Insert(c) \/ Conflict(c)
    PROVE  RecordInv'
<1>1. pc[c] \notin Busy /\ UNCHANGED mode
  BY DEF FastReplay, Claim, Insert, Conflict, Busy
<1>2. \/ Live /\ Resolve(c)
      \/ lock = NoCall /\ ~Live /\ Granted(c)
      \/ Fails(c) \/ GoOn(c, "claim") \/ GoOn(c, "conflict") \/ GoOn(c, "insert")
  BY DEF FastReplay, Claim, Insert, Conflict, Live, Absent, Reclaimable
<1> QED BY <1>1, <1>2, ResolveRecord, GrantedRecord, GoOnRecord

(* A running call goes on with its handler's result.  The remote system has *)
(* applied its effect, for the first time or before.                        *)
LEMMA HandlerRecord ==
    ASSUME RecordInv, TypeOK', NEW c \in Calls, pc[c] \in Busy, pc'[c] \in Busy,
           pc'[c] = "abandon" => mode = "reserve",
           \A d \in Calls \ {c} : pc'[d] = pc[d] /\ resp'[d] = resp[d],
           mode = "tx" => resp'[c] = c,
           mode = "reserve" /\ pc'[c] = "complete" => resp'[c] = remote' /\ remote' # NoCall,
           remote # NoCall => remote' = remote,
           UNCHANGED <<mode, row, lock, body, applied, answers, orphaned, swept, strays>>
    PROVE  RecordInv'
<1>1. \A d \in Calls : pc'[d] \in Busy <=> pc[d] \in Busy
  OBVIOUS
<1>2. TxClaims'
  BY <1>1 DEF RecordInv, TxClaims, Live, Absent, Busy
<1>3. Reservations'
  <2>1. \A d \in Calls : Holds(d)' <=> Holds(d)
    BY <1>1 DEF Holds
  <2> QED BY <2>1 DEF RecordInv, Reservations, Live, Absent
<1>4. RecordTells'
  BY DEF RecordInv, RecordTells, Live, Absent
<1> QED BY <1>2, <1>3, <1>4 DEF RecordInv

(* A running call ends without an answer and leaves the committed record:   *)
(* its transaction rolls back, its reservation stays.                       *)
LEMMA EndRecord ==
    ASSUME RecordInv, TypeOK', NEW c \in Calls, pc[c] \in Busy, pc'[c] = "done", OnlyCall(c),
           lock' \in {lock, NoCall}, lock' # c,
           UNCHANGED <<mode, row, remote, answers, swept, strays>>,
           mode = "reserve" => UNCHANGED applied,
           ~orphaned' => ~orphaned /\ applied' = applied
    PROVE  RecordInv'
<1>0. mode \in {"tx", "reserve"} /\ NoCall \notin Calls
  BY ModeIs DEF RecordInv
<1>1. \A d \in Calls : pc'[d] \in Busy =>
          d # c /\ pc[d] \in Busy /\ pc'[d] = pc[d] /\ body'[d] = body[d] /\ resp'[d] = resp[d]
  BY DEF OnlyCall, Busy
<1>2. lock' = NoCall
  BY <1>0 DEF RecordInv, TxClaims
<1>3. mode = "tx" => \A d \in Calls : pc'[d] \notin Busy
  BY <1>1 DEF RecordInv, TxClaims
<1>4. TxClaims'
  BY <1>2, <1>3 DEF TxClaims, Busy
<1>5. Reservations'
  BY <1>1 DEF RecordInv, Reservations, Holds, Live, Absent, Busy
<1>6. RecordTells'
  BY DEF RecordInv, RecordTells, Live, Absent
<1> QED BY <1>4, <1>5, <1>6 DEF RecordInv

(* The reservation that Abandon deletes is the call's own, or the one that  *)
(* took over from it; either way nobody holds one afterwards, and nobody    *)
(* was answered from it.                                                    *)
LEMMA AbandonRecord ==
    ASSUME RecordInv, TypeOK', NEW c \in Calls, Abandon(c)
    PROVE  RecordInv'
<1>0. /\ mode = "reserve" /\ lock = NoCall /\ pc[c] \in Busy
      /\ UNCHANGED <<mode, lock, remote, answers, applied, orphaned, swept>>
  BY ModeIs DEF Abandon, RecordInv, TxClaims, Busy
<1>1. pc'[c] = "done" /\ OnlyCall(c)
  BY EndsOnly DEF Abandon, RecordInv
<1>2. CASE row' = row
  <2>1. strays' = strays /\ lock' # c
    BY <1>0, <1>2, ModeIs DEF Abandon, RecordInv
  <2> QED BY <1>0, <1>1, <1>2, <2>1, EndRecord
<1>3. CASE row' # row
  <2>1. row.status = "in_progress" /\ row'.status = "none"
    BY <1>3 DEF Abandon, Abandoned, NoRow
  <2>2. \A d \in Calls : pc'[d] \in Busy => d # c /\ pc[d] \in Busy /\ pc'[d] = pc[d]
                                           /\ resp'[d] = resp[d]
    BY <1>1 DEF OnlyCall, Busy
  <2>3. \A d \in Calls : ~Holds(d)'
    <3>1. CASE c \in strays
      <4>1. strays' = strays \cup Running
        BY <1>3, <3>1 DEF Abandon, ClaimLost
      <4> QED BY <2>2, <4>1 DEF Holds, Running, Busy
    <3>2. CASE c \notin strays
      <4>1. strays' = strays /\ Holds(c)
        BY <1>0, <3>2 DEF Abandon, Holds
      <4> QED BY <1>0, <2>2, <4>1 DEF RecordInv, Reservations, Holds
    <3> QED BY <3>1, <3>2
  <2>4. TxClaims'
    BY <1>0 DEF TxClaims
  <2>5. Reservations'
    BY <1>0, <2>1, <2>2, <2>3 DEF RecordInv, Reservations, Busy
  <2>6. ~swept => answers = {}
    BY <2>1 DEF RecordInv, RecordTells
  <2>7. RecordTells'
    BY <1>0, <2>6 DEF RecordInv, RecordTells
  <2> QED BY <2>4, <2>5, <2>7 DEF RecordInv
<1> QED BY <1>2, <1>3

LEMMA CompleteRecord ==
    ASSUME RecordInv, TypeOK', NEW c \in Calls, Complete(c)
    PROVE  RecordInv'
<1>0. mode \in {"tx", "reserve"} /\ NoCall \notin Calls /\ row \in Record
  BY ModeIs DEF RecordInv, TypeOK
<1>1. /\ pc[c] = "complete" /\ pc[c] \in Busy
      /\ UNCHANGED <<mode, remote, orphaned, swept, strays>> /\ row' = Completed(c)
      /\ answers' = IF c \in strays THEN answers ELSE answers \cup {<<body[c], resp[c]>>}
      /\ applied' = IF mode = "tx" /\ c \notin strays THEN applied \cup {c} ELSE applied
      /\ lock' = IF mode = "tx" THEN NoCall ELSE lock
  BY DEF Complete, Busy
<1>2. pc'[c] = "done" /\ OnlyCall(c)
  BY EndsOnly DEF Complete, RecordInv
<1>3. \A d \in Calls : pc'[d] \in Busy =>
          d # c /\ pc[d] \in Busy /\ pc'[d] = pc[d] /\ body'[d] = body[d] /\ resp'[d] = resp[d]
  BY <1>2 DEF OnlyCall, Busy
<1>4. lock' = NoCall
  BY <1>0, <1>1 DEF RecordInv, TxClaims
<1>5. CASE mode = "tx"
  <2>1. resp[c] = c /\ ~Live /\ \A d \in Calls : pc'[d] \notin Busy
    BY <1>0, <1>1, <1>3, <1>5 DEF RecordInv, TxClaims
  <2>2. TxClaims' /\ Reservations'
    BY <1>1, <1>4, <1>5, <2>1 DEF TxClaims, Reservations, Busy
  <2>3. ~swept => answers = {} /\ (~orphaned => applied = {})
    BY <2>1 DEF RecordInv, RecordTells
  <2>4. CASE c \in strays
    <3>1. answers' = answers /\ applied' = applied
      BY <1>1, <2>4
    <3> QED BY <1>1, <1>5, <2>2, <2>3, <3>1 DEF RecordInv, RecordTells
  <2>5. CASE c \notin strays
    <3>1. row'.status = "completed" /\ ~row'.expired /\ row'.fp = body[c] /\ row'.resp = c
      BY <1>1, <1>5, <2>1, <2>5 DEF Completed, Reservation
    <3>2. RecordTells'
      BY <1>1, <1>5, <2>1, <2>3, <2>5, <3>1 DEF RecordTells, Live, Absent
    <3> QED BY <2>2, <3>2 DEF RecordInv
  <2> QED BY <2>4, <2>5
<1>6. CASE mode = "reserve"
  <2>1. resp[c] = remote /\ remote # NoCall /\ ~Absent
    BY <1>1, <1>6 DEF RecordInv, Reservations, Complete
  <2>2. row'.status = "completed" /\ row'.expired = row.expired
          /\ row'.fp = row.fp /\ row'.resp = remote
    BY <1>0, <1>1, <1>6, <2>1 DEF Completed, Record
  <2>3. Live' <=> Live
    BY <2>1, <2>2 DEF Live, Absent
  <2>4. TxClaims'
    BY <1>1, <1>4, <1>6 DEF TxClaims
  <2>5. Reservations'
    <3>1. \A d \in Calls : Holds(d)' => Holds(d) /\ body'[d] = body[d]
      BY <1>1, <1>3 DEF Holds
    <3>2. \A d \in Calls : pc'[d] = "complete" => pc[d] = "complete" /\ resp'[d] = resp[d]
      BY <1>3 DEF Busy
    <3> QED BY <1>1, <1>6, <2>1, <2>2, <2>3, <3>1, <3>2 DEF RecordInv, Reservations
  <2>6. ~swept => \A a \in answers : Live /\ a = <<row.fp, remote>>
    BY <1>6 DEF RecordInv, RecordTells, Reservations
  <2>7. c \notin strays => Live /\ row.fp = body[c]
    BY <1>1, <1>6 DEF RecordInv, Reservations, Holds
  <2>8. RecordTells'
    BY <1>1, <1>6, <2>1, <2>2, <2>3, <2>6, <2>7 DEF RecordInv, RecordTells
  <2> QED BY <2>4, <2>5, <2>8 DEF RecordInv
<1> QED BY <1>0, <1>5, <1>6

LEMMA RunningRecord ==
    ASSUME RecordInv, TypeOK', NEW c \in Calls,
           HandlerOk(c) \/ HandlerFails(c) \/ MarshalFails(c) \/ CompleteFails(c) \/ Crash(c)
    PROVE  RecordInv'
<1>0. /\ mode \in {"tx", "reserve"} /\ NoCall \notin Calls /\ pc \in [Calls -> Pcs]
      /\ resp \in [Calls -> Calls \cup {NoCall}]
  BY ModeIs DEF RecordInv, TypeOK
<1>e. Ends(c, FALSE) => pc'[c] = "done" /\ OnlyCall(c)
  BY EndsOnly DEF RecordInv
<1>r. Remotely(c) # NoCall /\ (remote # NoCall => Remotely(c) = remote)
  BY <1>0 DEF Remotely
<1>1. ASSUME HandlerOk(c) PROVE RecordInv'
  <2>1. /\ pc[c] = "handler" /\ pc'[c] = "complete"
        /\ \A d \in Calls \ {c} : pc'[d] = pc[d] /\ resp'[d] = resp[d]
        /\ mode = "tx" => resp'[c] = c /\ remote' = remote
        /\ mode = "reserve" => resp'[c] = remote' /\ remote' = Remotely(c)
        /\ UNCHANGED <<mode, row, lock, body, applied, answers, orphaned, swept, strays>>
    BY <1>0, <1>1 DEF HandlerOk, hist
  <2> QED BY <1>0, <1>r, <2>1, HandlerRecord DEF Busy
<1>2. ASSUME HandlerFails(c) PROVE RecordInv'
  <2>0. pc[c] = "handler" /\ UNCHANGED <<mode, row, applied, answers, orphaned, swept, strays>>
    BY <1>2 DEF HandlerFails, hist
  <2>1. CASE mode = "tx"
    <3>1. lock' = NoCall /\ remote' = remote /\ Ends(c, FALSE)
      BY <1>2, <2>1 DEF HandlerFails
    <3> QED BY <1>0, <1>e, <2>0, <2>1, <3>1, EndRecord DEF Busy
  <2>2. CASE mode = "reserve"
    <3>1. /\ pc'[c] = "abandon"
          /\ \A d \in Calls \ {c} : pc'[d] = pc[d] /\ resp'[d] = resp[d]
          /\ UNCHANGED <<lock, body>> /\ remote' \in {remote, Remotely(c)}
      BY <1>0, <1>2, <2>2 DEF HandlerFails
    <3> QED BY <1>r, <2>0, <2>2, <3>1, HandlerRecord DEF Busy
  <2> QED BY <1>0, <2>1, <2>2
<1>3. ASSUME MarshalFails(c) PROVE RecordInv'
  <2>0. pc[c] = "complete" /\ UNCHANGED <<mode, row, remote, answers, swept, strays>>
    BY <1>3 DEF MarshalFails
  <2>1. CASE mode = "tx"
    <3>1. /\ lock' = NoCall /\ Ends(c, FALSE)
          /\ ~orphaned' => ~orphaned /\ applied' = applied
      BY <1>3, <2>1 DEF MarshalFails
    <3> QED BY <1>0, <1>e, <2>0, <2>1, <3>1, EndRecord DEF Busy
  <2>2. CASE mode = "reserve"
    <3>1. /\ pc'[c] = "abandon"
          /\ \A d \in Calls \ {c} : pc'[d] = pc[d] /\ resp'[d] = resp[d]
          /\ UNCHANGED <<lock, body, applied, orphaned>>
      BY <1>0, <1>3, <2>2 DEF MarshalFails
    <3> QED BY <2>0, <2>2, <3>1, HandlerRecord DEF Busy
  <2> QED BY <1>0, <2>1, <2>2
<1>4. ASSUME CompleteFails(c) PROVE RecordInv'
  <2>1. lock' = NoCall
    BY <1>0, <1>4 DEF CompleteFails, RecordInv, TxClaims
  <2>2. /\ pc[c] \in Busy /\ Ends(c, FALSE)
        /\ UNCHANGED <<mode, row, remote, applied, answers, orphaned, swept, strays>>
    BY <1>4 DEF CompleteFails, hist, Busy
  <2> QED BY <1>0, <1>e, <2>1, <2>2, EndRecord
<1>5. ASSUME Crash(c) PROVE RecordInv'
  <2>0. /\ Ends(c, FALSE) /\ lock' = IF lock = c THEN NoCall ELSE lock
        /\ UNCHANGED <<mode, row, remote, applied, answers, orphaned, swept, strays>>
    BY <1>5 DEF Crash, hist
  <2>1. CASE pc[c] \in Busy
    BY <1>0, <1>e, <2>0, <2>1, EndRecord
  <2>2. CASE pc[c] \notin Busy
    <3>1. lock' = lock
      BY <1>0, <2>0, <2>2 DEF RecordInv, TxClaims
    <3> QED BY <1>e, <2>0, <2>2, <3>1, AsideStep DEF Busy
  <2> QED BY <2>1, <2>2
<1> QED BY <1>1, <1>2, <1>3, <1>4, <1>5

(* Time: when a claim expires, and when a sweep deletes the record, whoever *)
(* runs holds it no more.                                                   *)
LEMMA LostHeld ==
    ASSUME ClaimLost, pc' = pc
    PROVE  \A c \in Calls : ~Holds(c)'
BY DEF ClaimLost, Running, Holds, Busy

LEMMA TimeRecord ==
    ASSUME RecordInv, TypeOK', Expire \/ GCDelete
    PROVE  RecordInv'
<1>0. mode \in {"tx", "reserve"} /\ NoCall \notin Calls /\ row \in Record
  BY ModeIs DEF RecordInv, TypeOK
<1>1. ASSUME Expire PROVE RecordInv'
  <2>1. /\ UNCHANGED <<mode, lock, remote, pc, body, resp>> /\ applied' = {} /\ answers' = {}
        /\ row'.status = row.status /\ row'.resp = row.resp /\ ~Live'
        /\ \A c \in Calls : ~Holds(c)'
    BY <1>0, <1>1, LostHeld DEF Expire, Record, Live, Absent
  <2>2. TxClaims'
    BY <2>1 DEF RecordInv, TxClaims, Busy
  <2>3. Reservations'
    BY <2>1 DEF RecordInv, Reservations
  <2>4. RecordTells'
    BY <2>1 DEF RecordTells
  <2> QED BY <2>2, <2>3, <2>4 DEF RecordInv
<1>2. ASSUME GCDelete PROVE RecordInv'
  <2>1. /\ UNCHANGED <<mode, lock, remote, pc, body, resp, applied, answers, orphaned>>
        /\ lock = NoCall /\ row'.status = "none" /\ swept' = (swept \/ Live)
        /\ \A c \in Calls : ~Holds(c)'
    BY <1>2, LostHeld DEF GCDelete, NoRow
  <2>2. TxClaims'
    BY <2>1 DEF RecordInv, TxClaims, Busy
  <2>3. Reservations'
    BY <2>1 DEF RecordInv, Reservations
  <2>4. ~swept' => answers = {} /\ (~orphaned => applied = {})
    BY <2>1 DEF RecordInv, RecordTells
  <2>5. RecordTells'
    BY <2>1, <2>4 DEF RecordInv, RecordTells
  <2> QED BY <2>2, <2>3, <2>5 DEF RecordInv
<1> QED BY <1>1, <1>2

LEMMA RecordStep == RecordInv /\ [Next]_vars => RecordInv'
<1> SUFFICES ASSUME RecordInv, [Next]_vars PROVE RecordInv'
  OBVIOUS
<1>1. TypeOK'
  BY TypeStep DEF RecordInv
<1>2. ASSUME UNCHANGED vars \/ NextWindow \/ GCSelect PROVE RecordInv'
  <2>1. /\ UNCHANGED <<mode, row, lock, remote, pc, body, resp, applied, answers, orphaned>>
        /\ UNCHANGED <<swept, strays>>
    BY <1>2 DEF vars, NextWindow, GCSelect, record, hist
  <2>2. TxClaims' /\ Reservations' /\ RecordTells'
    BY <2>1 DEF RecordInv, TxClaims, Reservations, RecordTells, Holds, Live, Absent, Busy
  <2> QED BY <1>1, <2>2 DEF RecordInv
<1> QED
  BY <1>1, <1>2, ArriveRecord, ClaimRecord, RunningRecord, AbandonRecord, CompleteRecord,
     TimeRecord DEF Next, Step

-----------------------------------------------------------------------------
(* The results. *)

(* The claim excludes: a retry runs beside another delivery of the request  *)
(* only when that one's claim expired under it, or was deleted by the sweep *)
(* or by a call that had lost its own; in either mode, over any store.      *)
THEOREM DuplicateRunsAlone == Spec => []RunsAlone
<1>1. RecordInv => RunsAlone
  <2> SUFFICES ASSUME RecordInv PROVE RunsAlone
    OBVIOUS
  <2> DEFINE S == Running \ strays
  <2>1. \A c, d \in S : c = d
    BY ModeIs DEF RecordInv, TxClaims, Reservations, Holds, Running, Busy
  <2>2. CASE S = {}
    BY <2>2, FS_EmptySet DEF RunsAlone
  <2>3. CASE S # {}
    <3>1. PICK c \in S : TRUE
      BY <2>3
    <3>2. S = {c}
      BY <2>1, <3>1
    <3>3. Cardinality(S) = 1
      BY <3>2, FS_Singleton
    <3> QED BY <3>3 DEF RunsAlone
  <2> QED BY <2>2, <2>3
<1> QED BY <1>1, RecordInit, RecordStep, PTL DEF Spec

(* Exactly once: the effect of a committed call is the one the record       *)
(* answers with until it expires, so no second one commits beside it, as    *)
(* long as no sweep deletes a record it did not select.                     *)
THEOREM EffectIsAnswered == Spec => []EffectHasItsResponse
<1>1. RecordInv => EffectHasItsResponse
  BY DEF RecordInv, RecordTells, EffectHasItsResponse
<1> QED BY <1>1, RecordInit, RecordStep, PTL DEF Spec

(* All answers between two expiries are one response to one body, whatever  *)
(* a call that has lost its claim completes or abandons.                    *)
THEOREM ReplaysTheOriginal == Spec => []OneAnswer
<1>1. RecordInv => OneAnswer
  BY DEF RecordInv, RecordTells, OneAnswer
<1> QED BY <1>1, RecordInit, RecordStep, PTL DEF Spec
=============================================================================
