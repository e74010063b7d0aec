------------------------------ MODULE Requests ------------------------------
(***************************************************************************)
(* Retries of one request under durable idempotency: the interceptors      *)
(* DurableDeduplicateUnary ("tx": claim, handler and completion in one     *)
(* transaction) and DurableReserveUnary ("reserve": claim committed, remote*)
(* effect, completion) of middleware/idempotency.go, over the stores of    *)
(* gormtx, entrepo and servicekit (memDurableStore), behind the quota      *)
(* interceptor, which server.New puts outside of them.                     *)
(*                                                                         *)
(* Every call presents the same (tenant, method, request_id), so there is  *)
(* one record.  A body stands for its fingerprint, a response for the call *)
(* whose effect produced it.  The handler of "reserve" mode calls a remote *)
(* system that is idempotent by request_id, as the interceptor requires.   *)
(***************************************************************************)
EXTENDS Naturals, FiniteSets

CONSTANTS
    Calls,        \* deliveries of the request: the first one and its retries
    NoCall,
    Bodies,       \* request bodies
    Modes,        \* subset of {"tx", "reserve"}
    Stores,       \* subset of {"gorm", "ent", "mem"}
    Limit,        \* the account's quota per window
    MaxExpiries,  \* bound: times a claim or a record expires
    MaxWindows    \* bound: quota windows

ASSUME RequestsAssumption ==
    /\ NoCall \notin Calls /\ IsFiniteSet(Calls) /\ Bodies # {}
    /\ Modes \subseteq {"tx", "reserve"} /\ Stores \subseteq {"gorm", "ent", "mem"}
    /\ {Limit, MaxExpiries} \subseteq Nat /\ MaxWindows \in Nat \ {0}

VARIABLES
    mode, store,  \* the deployment, fixed
    row,          \* the committed record
    lock,         \* the call whose open transaction has written the record
    pc, body,     \* pc[c], body[c]: where a call is, what it carries
    resp,         \* resp[c]: the response its handler returned
    remote,       \* the call whose effect the remote system has applied
    sweep,        \* a sweep has selected the record, and not deleted it yet
    applied,      \* history: calls whose local effect committed since the last expiry
    answers,      \* history: <<body, response>> answered since the last expiry
    orphaned,     \* history: an effect outlived its claim (mem store)
    swept,        \* history: a sweep deleted the live record since the last expiry
    strays,       \* history: calls that ran when their claim expired or was deleted
    expiries,
    window,       \* the meter's current window
    used,         \* used[w]: units counted in window w
    held,         \* held[c]: the window of the call's reservation, 0 for none
    charged       \* history: charged[w]: calls reserved in w that succeeded

record == <<row, lock, remote, sweep>>
hist   == <<applied, answers, orphaned, swept, strays>>
meter  == <<window, used, held, charged>>
vars   == <<mode, store, record, pc, body, resp, hist, expiries, meter>>

-----------------------------------------------------------------------------
(* The record. *)

Record == [status : {"none", "in_progress", "completed"}, fp : Bodies,
           resp : Calls \cup {NoCall}, expired : BOOLEAN]

NoRow == [status |-> "none", fp |-> CHOOSE b \in Bodies : TRUE, resp |-> NoCall, expired |-> FALSE]

Reservation(c) == [status |-> "in_progress", fp |-> body[c], resp |-> NoCall, expired |-> FALSE]

Absent == row.status = "none"

(* Lookup and Claim take an expired record for absent. *)
Live == ~Absent /\ ~row.expired

(* Mutant: Claim does not look at expires_at. *)
ReclaimableAlways == ~Absent
Reclaimable == ~Absent /\ row.expired

(* memDurableStore holds its mutex for the whole transaction. *)
MutexFree == store = "mem" => lock = NoCall

-----------------------------------------------------------------------------
(* The meter. *)

(* Mutant: the unit goes back to the window of the moment. *)
ReleaseCurrent(c) == [used EXCEPT ![window] = IF held[c] = 0 THEN @ ELSE @ - 1]

(* Release: the units go back to the bucket they were taken from. *)
Release(c) == IF held[c] = 0 THEN used ELSE [used EXCEPT ![held[c]] = @ - 1]

(* The end of a call in the quota interceptor: a success keeps its unit.    *)
(* The call's locals are gone with it.                                      *)
Ends(c, ok) ==
    /\ pc' = [pc EXCEPT ![c] = "done"]
    /\ body' = [body EXCEPT ![c] = NoRow.fp]
    /\ resp' = [resp EXCEPT ![c] = NoCall]
    /\ held' = [held EXCEPT ![c] = 0]
    /\ IF ok THEN /\ charged' = [charged EXCEPT ![held[c]] = @ + 1]
                  /\ UNCHANGED used
             ELSE used' = Release(c) /\ UNCHANGED charged
    /\ UNCHANGED window

NextWindow ==
    /\ window < MaxWindows
    /\ window' = window + 1
    /\ UNCHANGED <<mode, store, record, pc, body, resp, hist, expiries, used, held, charged>>

(* A call arrives; over the limit it goes no further.  Its body is what the *)
(* gate fingerprints.                                                       *)
Arrive(c, b) ==
    /\ pc[c] = "idle"
    /\ IF used[window] + 1 > Limit
         THEN pc' = [pc EXCEPT ![c] = "done"] /\ UNCHANGED <<body, meter>>
         ELSE /\ body' = [body EXCEPT ![c] = b]
              /\ pc' = [pc EXCEPT ![c] = "lookup"]
              /\ used' = [used EXCEPT ![window] = @ + 1]
              /\ held' = [held EXCEPT ![c] = window]
              /\ UNCHANGED <<window, charged>>
    /\ UNCHANGED <<mode, store, record, resp, hist, expiries>>

-----------------------------------------------------------------------------
(* Answers from the record. *)

(* replayCompleted; everything else found live is a conflict. *)
Replayable(c) == row.status = "completed" /\ row.fp = body[c]

Resolve(c) ==
    /\ Ends(c, Replayable(c))
    /\ answers' = IF Replayable(c) THEN answers \cup {<<body[c], row.resp>>} ELSE answers
    /\ UNCHANGED <<record, applied, orphaned, swept, strays>>

GoOn(c, to) ==
    /\ pc' = [pc EXCEPT ![c] = to]
    /\ UNCHANGED <<record, body, resp, hist, meter>>

(* fastReplay; a store error falls through to the claim. *)
FastReplay(c) ==
    /\ pc[c] = "lookup" /\ MutexFree
    /\ \/ Live /\ Resolve(c)
       \/ GoOn(c, "claim")
    /\ UNCHANGED <<mode, store, expiries>>

-----------------------------------------------------------------------------
(* Claim. *)

(* The record is the call's: in "tx" mode its transaction stays open, in    *)
(* "reserve" mode the reservation is committed.                             *)
Granted(c) ==
    /\ pc' = [pc EXCEPT ![c] = "handler"]
    /\ IF mode = "tx" THEN lock' = c /\ UNCHANGED row
                      ELSE row' = Reservation(c) /\ UNCHANGED lock
    /\ UNCHANGED <<remote, sweep, body, resp, hist, meter>>

Fails(c) == Ends(c, FALSE) /\ UNCHANGED <<record, hist>>

(* gorm inserts first: it waits for an open insert of the key, and reads on *)
(* a conflict.  ent reads first.  mem decides under its mutex.              *)
Claim(c) ==
    /\ pc[c] = "claim"
    /\ \/ /\ store = "gorm"
          /\ \/ Absent /\ lock = NoCall /\ Granted(c)
             \/ ~Absent /\ GoOn(c, "conflict")
       \/ /\ store = "ent"
          /\ \/ Live /\ Resolve(c)
             \/ Absent /\ GoOn(c, "insert")
             \/ ~Absent /\ ~Live /\ GoOn(c, "conflict")
       \/ /\ store = "mem" /\ lock = NoCall
          /\ \/ Live /\ Resolve(c)
             \/ ~Live /\ Granted(c)
    /\ UNCHANGED <<mode, store, expiries>>

(* ent's insert, after a read that found nothing: the unique key answers    *)
(* "in progress" for whoever came in between.                               *)
Insert(c) ==
    /\ pc[c] = "insert" /\ lock = NoCall
    /\ IF Absent THEN Granted(c) ELSE Fails(c)
    /\ UNCHANGED <<mode, store, expiries>>

(* The record a claim ran into: gone (an error), live, or expired, when a   *)
(* guarded UPDATE takes it over.                                            *)
Conflict(c) ==
    /\ pc[c] = "conflict"
    /\ \/ Absent /\ Fails(c)
       \/ ~Absent /\ ~Reclaimable /\ Resolve(c)
       \/ Reclaimable /\ lock = NoCall /\ Granted(c)
    /\ UNCHANGED <<mode, store, expiries>>

-----------------------------------------------------------------------------
(* The handler and what follows. *)

Running == {c \in Calls : pc[c] \in {"handler", "complete", "abandon"}}

(* Whoever runs has lost its claim. *)
ClaimLost == strays' = strays \cup Running

(* A remote effect is applied once; its response is the first one's. *)
Remotely(c) == IF remote = NoCall THEN c ELSE remote

HandlerOk(c) ==
    /\ pc[c] = "handler"
    /\ pc' = [pc EXCEPT ![c] = "complete"]
    /\ IF mode = "tx" THEN resp' = [resp EXCEPT ![c] = c] /\ UNCHANGED remote
                      ELSE remote' = Remotely(c) /\ resp' = [resp EXCEPT ![c] = remote']
    /\ UNCHANGED <<mode, store, row, lock, sweep, body, hist, expiries, meter>>

(* Mutant: an error leaves the transaction open. *)
HandlerFailsHolding(c) ==
    /\ pc[c] = "handler"
    /\ Ends(c, FALSE)
    /\ UNCHANGED <<mode, store, record, hist, expiries>>

(* An error (a deadline, an open breaker): "tx" rolls back, "reserve" goes  *)
(* on to release.  The remote effect may have happened.                     *)
HandlerFails(c) ==
    /\ pc[c] = "handler"
    /\ IF mode = "tx"
         THEN lock' = NoCall /\ Ends(c, FALSE) /\ UNCHANGED remote
         ELSE /\ pc' = [pc EXCEPT ![c] = "abandon"]
              /\ remote' \in {remote, Remotely(c)}
              /\ UNCHANGED <<lock, body, resp, meter>>
    /\ UNCHANGED <<mode, store, row, sweep, hist, expiries>>

(* The response is no protobuf, or too large.  The map of the mem store     *)
(* takes the claim back, not the effect.                                    *)
MarshalFails(c) ==
    /\ pc[c] = "complete"
    /\ IF mode = "tx"
         THEN /\ lock' = NoCall /\ Ends(c, FALSE)
              /\ orphaned' = (orphaned \/ store = "mem")
              /\ applied' = IF store = "mem" THEN applied \cup {c} ELSE applied
         ELSE /\ pc' = [pc EXCEPT ![c] = "abandon"]
              /\ UNCHANGED <<lock, body, resp, meter, orphaned, applied>>
    /\ UNCHANGED <<mode, store, row, remote, sweep, answers, swept, strays, expiries>>

(* Mutant: the DELETE is not guarded by the status. *)
AbandonedAny == NoRow

(* Abandon deletes a reservation, whoever holds it; it may fail.  A call    *)
(* that has lost its own takes it away from the one that took it over.      *)
Abandoned == IF row.status = "in_progress" THEN NoRow ELSE row

Abandon(c) ==
    /\ pc[c] = "abandon" /\ MutexFree
    /\ row' \in {row, Abandoned}
    /\ IF c \in strays /\ row' # row THEN ClaimLost ELSE UNCHANGED strays
    /\ Ends(c, FALSE)
    /\ UNCHANGED <<mode, store, lock, remote, sweep, applied, answers, orphaned, swept,
                   expiries>>

(* Mutant: the transaction of "tx" mode commits the claim before the        *)
(* response is stored.                                                      *)
CompletedLate(c) == [Reservation(c) EXCEPT !.resp = resp[c]]

(* Complete: the record "tx" mode commits, past its expires_at when the call*)
(* took longer than the TTL; in "reserve" mode the row changes where it is, *)
(* whoever claimed it.                                                      *)
Completed(c) ==
    IF mode = "tx" THEN [Reservation(c) EXCEPT !.status = "completed", !.resp = resp[c],
                                               !.expired = c \in strays]
                   ELSE [row EXCEPT !.status = "completed", !.resp = resp[c]]

Complete(c) ==
    /\ pc[c] = "complete" /\ (mode = "reserve" => MutexFree)
    /\ mode = "reserve" => ~Absent
    /\ row' = Completed(c)
    /\ lock' = IF mode = "tx" THEN NoCall ELSE lock
    /\ applied' = IF mode = "tx" /\ c \notin strays THEN applied \cup {c} ELSE applied
    /\ answers' = IF c \in strays THEN answers ELSE answers \cup {<<body[c], resp[c]>>}
    /\ Ends(c, TRUE)
    /\ UNCHANGED <<mode, store, remote, sweep, orphaned, swept, strays, expiries>>

(* Complete finds no row or fails: "tx" rolls back, "reserve" leaves the    *)
(* reservation.  (The map of the mem store does not fail.)                  *)
CompleteFails(c) ==
    /\ pc[c] = "complete"
    /\ store = "mem" => mode = "reserve" /\ Absent
    /\ lock' = IF mode = "tx" THEN NoCall ELSE lock
    /\ Ends(c, FALSE)
    /\ UNCHANGED <<mode, store, row, remote, sweep, hist, expiries>>

(* The pod dies: its transaction rolls back, a reservation stays.  What the *)
(* pod's meter held goes with it.                                           *)
Crash(c) ==
    /\ pc[c] \notin {"idle", "done"} /\ store # "mem"
    /\ lock' = IF lock = c THEN NoCall ELSE lock
    /\ Ends(c, FALSE)
    /\ UNCHANGED <<mode, store, row, remote, sweep, hist, expiries>>

-----------------------------------------------------------------------------
(* Expiry and the sweep. *)

(* Time passes the expires_at of the record, or of the claim in an open     *)
(* transaction: also while the call that holds it runs.                     *)
Expire ==
    /\ Live \/ (lock # NoCall /\ lock \notin strays)
    /\ expiries < MaxExpiries
    /\ row' = IF Live THEN [row EXCEPT !.expired = TRUE] ELSE row
    /\ ClaimLost
    /\ expiries' = expiries + 1
    /\ applied' = {} /\ answers' = {} /\ swept' = FALSE
    /\ UNCHANGED <<mode, store, lock, remote, sweep, pc, body, resp, orphaned, meter>>

(* GC: the subselect of what has expired, then the DELETE by key of what it *)
(* selected.  The DELETE waits for an open transaction on the row and does  *)
(* not look at expires_at again.                                            *)
GCSelect ==
    /\ store # "mem" /\ Reclaimable /\ ~sweep
    /\ sweep' = TRUE
    /\ UNCHANGED <<mode, store, row, lock, remote, pc, body, resp, hist, expiries, meter>>

(* What a sweep deletes: mem selects and deletes under its mutex. *)
Selected == IF store = "mem" THEN Reclaimable ELSE sweep

GCDelete ==
    /\ Selected /\ lock = NoCall
    /\ row' = NoRow
    /\ swept' = (swept \/ Live)
    /\ ClaimLost
    /\ sweep' = FALSE
    /\ UNCHANGED <<mode, store, lock, remote, pc, body, resp, applied, answers, orphaned,
                   expiries, meter>>

-----------------------------------------------------------------------------
Init ==
    /\ mode \in Modes /\ store \in Stores
    /\ row = NoRow /\ lock = NoCall /\ remote = NoCall /\ sweep = FALSE
    /\ pc = [c \in Calls |-> "idle"]
    /\ body = [c \in Calls |-> NoRow.fp]
    /\ resp = [c \in Calls |-> NoCall]
    /\ applied = {} /\ answers = {} /\ orphaned = FALSE /\ swept = FALSE /\ strays = {}
    /\ expiries = 0
    /\ window = 1 /\ used = [w \in 1..MaxWindows |-> 0]
    /\ held = [c \in Calls |-> 0] /\ charged = [w \in 1..MaxWindows |-> 0]

Step(c) ==
    \/ FastReplay(c) \/ Claim(c) \/ Insert(c) \/ Conflict(c)
    \/ HandlerOk(c) \/ HandlerFails(c) \/ MarshalFails(c)
    \/ Abandon(c) \/ Complete(c) \/ CompleteFails(c)

Next ==
    \/ \E c \in Calls : Step(c) \/ Crash(c) \/ \E b \in Bodies : Arrive(c, b)
    \/ NextWindow \/ Expire \/ GCSelect \/ GCDelete

Spec == Init /\ [][Next]_vars

(* Every call runs in its own goroutine, and the sweep in the host's.       *)
FairSpec == Spec /\ \A c \in Calls : WF_vars(Step(c))

-----------------------------------------------------------------------------
(* Properties. *)

Pcs == {"idle", "lookup", "claim", "insert", "conflict", "handler", "complete", "abandon", "done"}

TypeOK ==
    /\ mode \in Modes /\ store \in Stores
    /\ row \in Record /\ lock \in Calls \cup {NoCall} /\ remote \in Calls \cup {NoCall}
    /\ sweep \in BOOLEAN
    /\ pc \in [Calls -> Pcs]
    /\ body \in [Calls -> Bodies] /\ resp \in [Calls -> Calls \cup {NoCall}]
    /\ applied \subseteq Calls /\ answers \subseteq Bodies \X (Calls \cup {NoCall})
    /\ orphaned \in BOOLEAN /\ swept \in BOOLEAN /\ strays \subseteq Calls
    /\ expiries \in 0..MaxExpiries
    /\ window \in 1..MaxWindows /\ held \in [Calls -> 0..MaxWindows]
    /\ charged \in [1..MaxWindows -> Nat]

(* Exactly once: the effect a "tx" call committed is the one the record     *)
(* answers with, until it expires.  With two effects one of them would have *)
(* no response, and a retry would run the handler again.  Except where a    *)
(* sweep selected the expired record and deleted the one that replaced it:  *)
(* GC, gormtx/dedupstore.go:242-247.                                        *)
EffectHasItsResponse ==
    ~orphaned /\ ~swept => \A c \in applied : Live /\ row.status = "completed" /\ row.resp = c

(* "Replays the ORIGINAL response verbatim": all answers between two        *)
(* expiries are the same response, and to the same body.  A call that has   *)
(* lost its claim may complete or abandon the reservation of the one that   *)
(* took it over; what it tells its own caller is not counted, but it        *)
(* changes nothing that was answered.  Except after a sweep deleted the     *)
(* live record.                                                             *)
OneAnswer == ~swept => \A a, b \in answers : a = b

(* A duplicate runs beside the original only if the original's claim has    *)
(* expired under it, or was deleted by a sweep or by the late Abandon of a  *)
(* call that had lost its own (DurableReserveUnary).                        *)
RunsAlone == Cardinality(Running \ strays) <= 1

(* A call that failed consumed nothing, also when the window turned over    *)
(* while it ran, and the limit holds of every window.                       *)
QuotaExact ==
    \A w \in 1..MaxWindows :
        /\ used[w] = charged[w] + Cardinality({c \in Calls : held[c] = w})
        /\ used[w] <= Limit

(* Nobody waits for ever behind the record: each call, once there, returns. *)
(* (A call that has returned stays so: no call is under way, again and again.)*)
Answered == []<>(\A c \in Calls : pc[c] \in {"idle", "done"})

-----------------------------------------------------------------------------
(* Sentences of the comments that the code does not keep. *)

(* "correctness does not depend on it" (GC, middleware/idempotency.go:87):  *)
(* the record of a committed effect is there until it expires.              *)
GCIsOptional ==
    ~orphaned => \A c \in applied : Live /\ row.status = "completed" /\ row.resp = c

(* A duplicate that arrives while the original is in flight is "never a     *)
(* re-execution" (middleware/idempotency.go:149-150).                       *)
NeverReexecuted == Cardinality(Running) <= 1
=============================================================================
