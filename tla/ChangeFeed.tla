----------------------------- MODULE ChangeFeed -----------------------------
(***************************************************************************)
(* A repository with a change feed: MemoryRepository behind ChangeEmitting *)
(* (events/changefeed_repo.go), with one projection (events/projection.go),*)
(* natural-key upserts (persistence/upsert.go), aggregates saved by        *)
(* GenericAggregateRepository, and the backfill ProjectExisting.           *)
(*                                                                         *)
(* MemoryTxRunner holds the locks of every participant while a transaction *)
(* runs and restores their snapshots when it fails, so one transaction is  *)
(* open at a time and whoever is outside waits for it.  An entity is its   *)
(* etag, whether it is projected ("ready": Project answers emit), and its  *)
(* members; an index entry is the etag of the document.                    *)
(***************************************************************************)
EXTENDS Naturals, Sequences, FiniteSetsExt

CONSTANTS
    Keys,         \* storage keys; a natural key each
    Roots,        \* those of aggregate roots
    Clients,      \* callers, each with at most one call under way
    NoClient,
    Named,        \* TRUE: the feed has NameOf, or EmitBefore is set
    MaxWrites,    \* bound: etags handed out
    MaxDeletes,   \* bound: deletes
    MaxBackfills  \* bound: calls of ProjectExisting

ASSUME FeedAssumption ==
    /\ NoClient \notin Clients
    /\ Keys # {} /\ Roots \subseteq Keys
    /\ Named \in BOOLEAN
    /\ {MaxWrites, MaxDeletes, MaxBackfills} \subseteq Nat

VARIABLES
    rows,      \* the repository's items, etags and deleted marks
    order,     \* its keys, in the order of creation
    members,   \* members[k]: the members stored with root k
    outbox,    \* the change events, in order
    tx,        \* the open transaction
    undo,      \* the participants' snapshots, and disturbed as it was; <<>> when idle
    loaded,    \* loaded[c]: the root a caller has loaded for a Save
    backfill,  \* ProjectExisting's loop: the offset of its token, the page it holds,
               \* whether the page is the last
    saved,     \* history: <<k, c>>: a Save of c that added its member has committed
    disturbed, \* history: keys whose last change the projection misrepresents
    tags, deletes, backfills

store  == <<rows, order, members, outbox>>
counts == <<tags, deletes, backfills>>
vars   == <<store, tx, undo, loaded, backfill, saved, disturbed, counts>>

-----------------------------------------------------------------------------
(* Rows and events. *)

Rows    == [state : {"absent", "live", "deleted"}, etag : Nat, ready : BOOLEAN]
Changes == {"create", "update", "delete", "undelete"}
Feed    == [kind : {"entity", "doc"}, key : Keys, change : Changes, etag : Nat]
Steps   == [change : Changes, ifMatch : Nat]

Absent == [state |-> "absent", etag |-> 0, ready |-> FALSE]

NoTx == [client |-> NoClient, key |-> CHOOSE k \in Keys : TRUE, ready |-> FALSE,
         plan |-> <<>>, stage |-> "none", before |-> Absent, list |-> {}]

Idle == tx.client = NoClient

NoRoot == [stage |-> "none", key |-> NoTx.key, etag |-> 0, ready |-> FALSE, list |-> {}]

(* snapshotForTx of every participant. *)
Snapshot == [rows |-> rows, order |-> order, members |-> members, outbox |-> outbox,
             disturbed |-> disturbed]

Step(change) == [change |-> change, ifMatch |-> 0]

-----------------------------------------------------------------------------
(* Atomically: take the locks and the snapshots, run the calls in plan on   *)
(* key k, commit.  ready is what the caller's entity carries.               *)

Begin(c, k, ready, plan, list) ==
    /\ Idle /\ loaded[c] = NoRoot
    /\ tx' = [client |-> c, key |-> k, ready |-> ready, plan |-> plan,
              stage |-> "write", before |-> rows[k], list |-> list]
    /\ undo' = Snapshot
    /\ UNCHANGED <<store, loaded, backfill, saved, disturbed, counts>>

(* The generated CRUD handlers call one method of the repository. *)
Call(c, k, change, ready) == Begin(c, k, ready, <<Step(change)>>, {})

(* Upsert: look the natural key up, tombstones included, and create, update *)
(* or resurrect.                                                            *)
Upsert(c, k, ready) ==
    LET plan == CASE rows[k].state = "absent"  -> <<Step("create")>>
                  [] rows[k].state = "live"    -> <<Step("update")>>
                  [] rows[k].state = "deleted" -> <<Step("undelete"), Step("update")>>
    IN  Begin(c, k, ready, plan, {})

(* Load: Get, then LoadMembers, outside any transaction. *)
LoadRoot(c, k) ==
    /\ Idle /\ rows[k].state = "live"
    /\ loaded[c].stage = "none"
    /\ loaded' = [loaded EXCEPT ![c] = [stage |-> "root", key |-> k, etag |-> rows[k].etag,
                                        ready |-> rows[k].ready, list |-> {}]]
    /\ UNCHANGED <<store, tx, undo, backfill, saved, disturbed, counts>>

LoadMembers(c) ==
    /\ Idle /\ loaded[c].stage = "root"
    /\ loaded' = [loaded EXCEPT ![c].stage = "all", ![c].list = members[loaded[c].key]]
    /\ UNCHANGED <<store, tx, undo, backfill, saved, disturbed, counts>>

(* Mutant: the loaded root does not carry its version. *)
EtagOfMissing(r) == 0

(* The version the caller loaded, 0 for none. *)
EtagOf(r) == r.etag

(* checkPrecondition. *)
Precondition(r) == EtagOf(r) \in {0, rows[r.key].etag}

(* The bump of the root's etag carries the loaded one as If-Match. *)
SavePlan(r) == <<[change |-> "update", ifMatch |-> EtagOf(r)]>>

(* Save: the caller has added its member to the aggregate it loaded.  The   *)
(* member rows are written first, then the root is updated; a Save that     *)
(* changes no member touches nothing.                                       *)
Save(c) ==
    LET r == loaded[c]
        list == r.list \cup {c}
    IN  /\ r.stage = "all"
        /\ Idle
        /\ loaded' = [loaded EXCEPT ![c] = NoRoot]
        /\ IF Precondition(r) /\ list # members[r.key]
             THEN /\ tx' = [client |-> c, key |-> r.key, ready |-> r.ready,
                            plan |-> SavePlan(r), stage |-> "write",
                            before |-> rows[r.key], list |-> list]
                  /\ undo' = Snapshot
                  /\ members' = [members EXCEPT ![r.key] = list]
             ELSE UNCHANGED <<tx, undo, members>>
        /\ UNCHANGED <<rows, order, outbox, backfill, saved, disturbed, counts>>

-----------------------------------------------------------------------------
(* The repository's methods, inside the transaction. *)

(* When a method answers without an error.  Update does not look at the     *)
(* deleted mark.                                                            *)
Accepts(s) ==
    CASE s.change = "create"   -> tx.before.state = "absent"
      [] s.change = "update"   -> /\ tx.before.state # "absent"
                                  /\ s.ifMatch \in {0, tx.before.etag}
      [] s.change = "delete"   -> tx.before.state = "live"
      [] s.change = "undelete" -> tx.before.state = "deleted"

Written(s) ==
    CASE s.change = "create" -> [state |-> "live", etag |-> tags + 1, ready |-> tx.ready]
      [] s.change = "update" -> [tx.before EXCEPT !.etag = tags + 1, !.ready = tx.ready]
      [] s.change = "delete" -> [tx.before EXCEPT !.state = "deleted"]
      [] s.change = "undelete" -> [tx.before EXCEPT !.state = "live"]

Fresh(s) == s.change \in {"create", "update"}

Write ==
    LET s == Head(tx.plan) IN
    /\ tx.stage = "write" /\ Accepts(s)
    /\ Fresh(s) => tags < MaxWrites
    /\ s.change = "delete" => deletes < MaxDeletes
    /\ rows' = [rows EXCEPT ![tx.key] = Written(s)]
    /\ order' = IF s.change = "create" THEN Append(order, tx.key) ELSE order
    /\ tags' = IF Fresh(s) THEN tags + 1 ELSE tags
    /\ deletes' = IF s.change = "delete" THEN deletes + 1 ELSE deletes
    /\ tx' = [tx EXCEPT !.stage = "emit"]
    /\ UNCHANGED <<members, outbox, undo, loaded, backfill, saved, disturbed, backfills>>

Event(kind, change, k, etag) == [kind |-> kind, key |-> k, change |-> change, etag |-> etag]

(* emit and emitDelete: the entity's own event. *)
Emit ==
    /\ tx.stage = "emit"
    /\ outbox' = Append(outbox, Event("entity", Head(tx.plan).change, tx.key, rows[tx.key].etag))
    /\ tx' = [tx EXCEPT !.stage = "project"]
    /\ UNCHANGED <<rows, order, members, undo, loaded, backfill, saved, disturbed, counts>>

(* What Project is given: the entity after the change, the snapshot taken   *)
(* before a delete.                                                         *)
Projected(change) == IF change = "delete" THEN Named /\ tx.before.ready ELSE rows[tx.key].ready

(* A change the index will not follow: an entity that stops being projected *)
(* emits nothing, and an update of a deleted one emits a document.          *)
Disturbs(change) ==
    /\ change = "update"
    /\ \/ tx.before.ready /\ ~rows[tx.key].ready
       \/ rows[tx.key].state = "deleted"

(* Mutant: the document is only emitted for changes with an after-image. *)
ProjectionEventsNoDelete(change) ==
    IF Projected(change) /\ change # "delete"
    THEN <<Event("doc", change, tx.key, rows[tx.key].etag)>> ELSE <<>>

ProjectionEvents(change) ==
    IF Projected(change) THEN <<Event("doc", change, tx.key, rows[tx.key].etag)>> ELSE <<>>

(* emitProjections, and on to the next call of the transaction. *)
EmitProjections ==
    LET change == Head(tx.plan).change IN
    /\ tx.stage = "project"
    /\ outbox' = outbox \o ProjectionEvents(change)
    /\ disturbed' = IF Disturbs(change) THEN disturbed \cup {tx.key}
                    ELSE IF Projected(change) THEN disturbed \ {tx.key} ELSE disturbed
    /\ tx' = [tx EXCEPT !.plan = Tail(@), !.before = rows[tx.key],
                        !.stage = IF Len(tx.plan) > 1 THEN "write" ELSE "commit"]
    /\ UNCHANGED <<rows, order, members, undo, loaded, backfill, saved, counts>>

Commit ==
    /\ tx.stage = "commit"
    /\ tx' = NoTx /\ undo' = <<>>
    /\ saved' = IF tx.list # {} THEN saved \cup {<<tx.key, tx.client>>} ELSE saved
    /\ UNCHANGED <<store, loaded, backfill, disturbed, counts>>

(* Mutant: the outbox is not a participant of the transaction. *)
RestoreKeepsOutbox ==
    /\ rows' = undo.rows /\ order' = undo.order /\ members' = undo.members
    /\ disturbed' = undo.disturbed /\ UNCHANGED outbox

Restore ==
    /\ rows' = undo.rows /\ order' = undo.order /\ members' = undo.members
    /\ outbox' = undo.outbox /\ disturbed' = undo.disturbed

(* A method, the tenant guard, a marshaller or the publish fails: the       *)
(* snapshots are restored.                                                  *)
Rollback ==
    /\ tx.stage \in {"write", "emit", "project"}
    /\ Restore
    /\ tx' = NoTx /\ undo' = <<>>
    /\ UNCHANGED <<loaded, backfill, saved, counts>>

-----------------------------------------------------------------------------
(* ProjectExisting, with pages of one entity. *)

(* The places in order of the entities that List shows, and how many come   *)
(* before a place.                                                          *)
Visible   == {i \in DOMAIN order : rows[order[i]].state # "deleted"}
Before(i) == Cardinality({j \in Visible : j < i})

NoPage == [stage |-> "none", offset |-> 0, last |-> FALSE,
           key |-> CHOOSE k \in Keys : TRUE, row |-> Absent]

StartBackfill ==
    /\ backfill.stage = "none" /\ backfills < MaxBackfills
    /\ backfill' = [NoPage EXCEPT !.stage = "list"]
    /\ backfills' = backfills + 1
    /\ UNCHANGED <<store, tx, undo, loaded, saved, disturbed, tags, deletes>>

(* List: the entity at the token's offset among the visible ones, and       *)
(* whether a next token follows.                                            *)
ListPage ==
    /\ backfill.stage = "list" /\ Idle
    /\ \/ \E i \in Visible :
             /\ Before(i) = backfill.offset
             /\ backfill' = [backfill EXCEPT
                   !.stage = "publish", !.last = Cardinality(Visible) = backfill.offset + 1,
                   !.key = order[i], !.row = rows[order[i]]]
       \/ Cardinality(Visible) <= backfill.offset /\ backfill' = NoPage
    /\ UNCHANGED <<store, tx, undo, loaded, saved, disturbed, counts>>

(* Atomically: the page's events; an error ends the backfill. *)
PublishPage ==
    /\ backfill.stage = "publish" /\ Idle
    /\ \/ /\ outbox' = IF backfill.row.ready
                       THEN Append(outbox, Event("doc", "create", backfill.key, backfill.row.etag))
                       ELSE outbox
          /\ disturbed' = IF backfill.row.ready /\ rows[backfill.key] # backfill.row
                          THEN disturbed \cup {backfill.key} ELSE disturbed
          /\ backfill' = IF backfill.last THEN NoPage
                         ELSE [backfill EXCEPT !.stage = "list", !.offset = @ + 1]
       \/ backfill' = NoPage /\ UNCHANGED <<outbox, disturbed>>
    /\ UNCHANGED <<rows, order, members, tx, undo, loaded, saved, counts>>

-----------------------------------------------------------------------------
Init ==
    /\ rows = [k \in Keys |-> Absent]
    /\ order = <<>> /\ outbox = <<>>
    /\ members = [k \in Keys |-> {}]
    /\ tx = NoTx /\ undo = <<>>
    /\ loaded = [c \in Clients |-> NoRoot]
    /\ backfill = NoPage
    /\ saved = {} /\ disturbed = {}
    /\ tags = 0 /\ deletes = 0 /\ backfills = 0

Request(c) ==
    \/ \E k \in Keys, change \in Changes, ready \in BOOLEAN : Call(c, k, change, ready)
    \/ \E k \in Keys, ready \in BOOLEAN : Upsert(c, k, ready)
    \/ \E k \in Roots : LoadRoot(c, k)
    \/ LoadMembers(c)
    \/ Save(c)

Next ==
    \/ \E c \in Clients : Request(c)
    \/ Write \/ Emit \/ EmitProjections \/ Commit \/ Rollback
    \/ StartBackfill \/ ListPage \/ PublishPage

Spec == Init /\ [][Next]_vars

-----------------------------------------------------------------------------
(* Properties. *)

Transactions ==
    [client : Clients \cup {NoClient}, key : Keys, ready : BOOLEAN, plan : Seq(Steps),
     stage : {"none", "write", "emit", "project", "commit"}, before : Rows,
     list : SUBSET Clients]

Aggregates ==
    [stage : {"none", "root", "all"}, key : Keys, etag : Nat, ready : BOOLEAN,
     list : SUBSET Clients]

Pages ==
    [stage : {"none", "list", "publish"}, offset : Nat, last : BOOLEAN, key : Keys, row : Rows]

Snapshots ==
    [rows : [Keys -> Rows], order : Seq(Keys), members : [Keys -> SUBSET Clients],
     outbox : Seq(Feed), disturbed : SUBSET Keys]

(* Every variable stays in its type, and a transaction holds snapshots      *)
(* exactly while it is open.                                                *)
TypeOK ==
    /\ rows \in [Keys -> Rows]
    /\ order \in Seq(Keys) /\ outbox \in Seq(Feed)
    /\ members \in [Keys -> SUBSET Clients]
    /\ tx \in Transactions
    /\ IF Idle THEN tx = NoTx ELSE undo \in Snapshots /\ tx.stage # "none"
    /\ loaded \in [Clients -> Aggregates] /\ backfill \in Pages
    /\ saved \subseteq Keys \X Clients /\ disturbed \subseteq Keys
    /\ tags \in 0..MaxWrites /\ deletes \in 0..MaxDeletes /\ backfills \in 0..MaxBackfills

(* The places of the events of one kind about k with one of these changes.  *)
EventsOf(box, kind, k, changes) ==
    {n \in DOMAIN box : box[n].kind = kind /\ box[n].key = k /\ box[n].change \in changes}

(* What a consumer that reads the entity events of k in order knows of it:  *)
(* an update says nothing of the state, and a delete or undelete leaves the *)
(* etag as it was.                                                          *)
Replayed(box, k) ==
    LET states == EventsOf(box, "entity", k, Changes \ {"update"})
        etags  == EventsOf(box, "entity", k, {"create", "update"})
    IN  [state |-> IF states = {} THEN "absent"
                   ELSE IF box[Max(states)].change = "delete" THEN "deleted" ELSE "live",
         etag  |-> IF etags = {} THEN 0 ELSE box[Max(etags)].etag]

(* The feed is the table: outside a transaction, whoever replays the change *)
(* events of an entity has exactly its row, whatever mix of calls, upserts, *)
(* aggregate saves and rollbacks made it.  ("every mutation is observable", *)
(* "a rollback discards the change event with the write".)                  *)
FeedComplete ==
    Idle => \A k \in Keys :
                Replayed(outbox, k) = [state |-> rows[k].state, etag |-> rows[k].etag]

(* The index the projection's consumer keeps: the document's etag, 0 for    *)
(* none, after the documents of the outbox in order.                        *)
Indexed(box, k) ==
    LET docs == EventsOf(box, "doc", k, Changes)
    IN  IF docs = {} \/ box[Max(docs)].change = "delete" THEN 0 ELSE box[Max(docs)].etag

(* What the index should hold of a row. *)
Document(row) == IF row.state = "live" /\ row.ready THEN row.etag ELSE 0

(* A consumer of the projection that has read the whole outbox indexes      *)
(* exactly the live projected entities, at their current etag.  Exempt is a *)
(* key whose last change the projection misrepresents (Disturbs, and a      *)
(* backfilled page that a write overtook).                                  *)
IndexMirrors ==
    Idle => \A k \in Keys \ disturbed : Indexed(outbox, k) = Document(rows[k])

(* Save is a compare-and-set on the aggregate: no committed addition of a   *)
(* member is undone by another Save that had loaded the aggregate earlier.  *)
NoLostSave == \A s \in saved : s[2] \in members[s[1]]

(* What projection.go says of a projection that answers emit=false on a     *)
(* delete: "correct because the entity was never projected".                *)
SuppressedWasNeverProjected ==
    Idle =>
        \A k \in Keys : rows[k].state = "deleted" => Indexed(outbox, k) = 0
=============================================================================
