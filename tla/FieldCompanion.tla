--------------------------- MODULE FieldCompanion ---------------------------
(***************************************************************************)
(* The field companion: FieldSafetyCompanionController with its queue in   *)
(* localStorage, HttpFieldCompanionGateway, and the delivery route of      *)
(* mobile-mvp-http.ts that answers it.                                     *)
(*                                                                         *)
(* Every method of the controller changes the state and saves it in one    *)
(* synchronous stretch and then flushes.  A flush awaits one delivery      *)
(* after the other, so the user's next call, and its flush, run in         *)
(* between.  A request may be lost, answered after the client gave up, or  *)
(* overtaken; the page may be reloaded and the server may die at any       *)
(* point.  What an operation does to the contact session is the subject of *)
(* ContactOrchestration; here it is applied, and answered by some receipt. *)
(***************************************************************************)
EXTENDS Naturals, Sequences, SequencesExt

CONSTANTS
    MaxOps,       \* bound: how many operations the user causes
    MaxUpsets,    \* bound: how often the network changes, an operator shows,
                  \* the page is reloaded, an operation expires or the
                  \* journey flushes
    MaxQueue,     \* FIELD_COMPANION_MAX_QUEUE
    MaxSends,  \* the server's limit on attemptCount
    Flushers,     \* calls of the controller that may be under way at a time
    Scopes,       \* what boot compares a stored state with: schema and privacy
                  \* policy version, tenant, case, session and simulation
    Receipts,     \* what a delivery is answered with: a disposition, or
                  \* COMPLETED for ACCEPTED in a completed session
    NoFlush       \* a call that is not flushing

Ops == 1 .. MaxOps
Queued == [op : Ops, attempts : 0 .. MaxSends + 1]

(* A flush under way, and the record of a delivery.                        *)
Flush == [todo : Seq(Queued), remaining : Seq(Queued), acked : SUBSET Ops, sent : BOOLEAN]
LedgerRow == [q : Queued, scope : Scopes, receipt : Receipts]

ASSUME FieldAssumption ==
    /\ MaxOps \in Nat \ {0}
    /\ MaxQueue \in Nat \ {0}
    /\ MaxSends \in Nat
    /\ MaxUpsets \in Nat
    /\ Receipts \subseteq {"ACCEPTED", "HUMAN_REVIEW", "OPERATOR_TAKEOVER", "COMPLETED"}
    /\ NoFlush \notin Flush \cup LedgerRow \cup Scopes

VARIABLES
    cur,        \* the controller's state
    stored,     \* what localStorage holds
    flush,      \* the flush each call is in
    registered, \* the gateway's registeredDeviceId is set
    created,    \* the number of operations so far; the last one's id
    expired,    \* operations past expiresAt
    wire,       \* requests on their way to or in the server
    reserved,   \* idempotency_reservations of the deliveries
    ledger,     \* idempotency_records of the deliveries
    applied,    \* how often an operation took effect on the session
    refused,    \* operations whose record did not match a later try
    upsets,     \* how many such events there were
    booted,     \* the scope the page was opened for
    made,       \* the scope of the page on which the user caused an operation
    abandoned   \* operations of a stored state that boot could not use

deviceVars == <<cur, stored, flush, registered, created, expired, upsets>>
serverVars == <<wire, reserved, ledger, applied, refused>>
scopeVars == <<booted, made, abandoned>>
fieldVars == <<deviceVars, serverVars, scopeVars>>

Networks == {"ONLINE", "DEGRADED", "OFFLINE"}
Phases == {"READY", "OFFLINE", "HUMAN_REVIEW", "OPERATOR_TAKEOVER", "COMPLETED"}

State == [scope : Scopes, network : Networks, consent : {"NOT_REQUESTED", "GRANTED", "DECLINED"},
          phase : Phases, prompt : BOOLEAN, takeover : BOOLEAN,
          pending : Seq(Queued), acked : SUBSET Ops]

(* The types of the controller's state, its stored copy, the flushes and   *)
(* the requests on the wire, as the schema check of boot reads them back.  *)
FieldTypeOK ==
    /\ {cur, stored} \subseteq State
    /\ flush \in [Flushers -> Flush \cup {NoFlush}]
    /\ registered \in BOOLEAN
    /\ created \in 0 .. MaxOps
    /\ upsets \in 0 .. MaxUpsets
    /\ {expired, reserved, refused, abandoned} \subseteq SUBSET Ops
    /\ wire \subseteq [by : Flushers \cup {NoFlush}, q : Queued, scope : Scopes,
                     at : {"sent", "held", "ERROR"} \cup Receipts]
    /\ ledger \in [Ops -> LedgerRow \cup {NoFlush}]
    /\ applied \in [Ops -> Nat]
    /\ booted \in Scopes /\ made \in [Ops -> Scopes \cup {NoFlush}]

OpsIn(queue) == {queue[i].op : i \in DOMAIN queue}
Recorded(o) == ledger[o] # NoFlush

phaseForNetwork(network, phase) ==
    IF phase \in {"OPERATOR_TAKEOVER", "HUMAN_REVIEW", "COMPLETED"} THEN phase
    ELSE IF network = "OFFLINE" THEN "OFFLINE" ELSE "READY"

initialState(scope) ==
    [scope |-> scope, network |-> "ONLINE", consent |-> "NOT_REQUESTED", phase |-> "READY",
     prompt |-> TRUE, takeover |-> FALSE, pending |-> <<>>, acked |-> {}]

FieldInit ==
    /\ booted \in Scopes
    /\ cur = initialState(booted)
    /\ stored = initialState(booted)
    /\ flush = [f \in Flushers |-> NoFlush]
    /\ registered = FALSE
    /\ created = 0
    /\ upsets = 0
    /\ wire = {}
    /\ expired = {}
    /\ reserved = {}
    /\ refused = {}
    /\ made = [o \in Ops |-> NoFlush]
    /\ abandoned = {}
    /\ ledger = [o \in Ops |-> NoFlush]
    /\ applied = [o \in Ops |-> 0]

-----------------------------------------------------------------------------
(* The controller                                                          *)

Upset == upsets < MaxUpsets /\ upsets' = upsets + 1

(* A flush begins with the queue and the acknowledgements of the moment.   *)
Flushing(state) ==
    [todo |-> state.pending, remaining |-> <<>>, acked |-> state.acked, sent |-> FALSE]

(* persist, and then flush unless the device is offline.                   *)
Settle(f, state) ==
    /\ flush[f] = NoFlush
    /\ cur' = state
    /\ stored' = state
    /\ flush' = [flush EXCEPT ![f] =
          IF state.network = "OFFLINE" THEN NoFlush ELSE Flushing(state)]

enqueue(state) ==
    [state EXCEPT !.pending = Append(@, [op |-> created + 1, attempts |-> 0])]

CanEnqueue == created < MaxOps /\ Len(cur.pending) < MaxQueue

Enqueue(f, state) ==
    /\ CanEnqueue
    /\ Settle(f, enqueue(state))
    /\ created' = created + 1
    /\ made' = [made EXCEPT ![created + 1] = booted]
    /\ UNCHANGED <<registered, expired, upsets, serverVars, booted, abandoned>>

setConsent(f, granted) ==
    Enqueue(f, [cur EXCEPT
        !.consent = IF granted THEN "GRANTED" ELSE "DECLINED",
        !.phase = IF granted THEN phaseForNetwork(cur.network, "READY")
                             ELSE "HUMAN_REVIEW",
        !.prompt = granted])

selectLanguage(f) ==
    /\ cur.consent = "GRANTED"
    /\ Enqueue(f, [cur EXCEPT !.prompt = TRUE])

respond(f, needsHelp) ==
    /\ cur.consent = "GRANTED"
    /\ cur.prompt
    /\ Enqueue(f, [cur EXCEPT
           !.phase = IF needsHelp THEN "HUMAN_REVIEW"
                     ELSE phaseForNetwork(cur.network, "READY")])

(* shareDeviceMetadata, and reconnect, which needs no consent but a        *)
(* network.                                                                *)
share(f) ==
    /\ cur.consent = "GRANTED" \/ cur.network # "OFFLINE"
    /\ Enqueue(f, cur)

updateDevice(f, network) ==
    /\ Settle(f, [cur EXCEPT !.network = network,
                             !.phase = phaseForNetwork(network, cur.phase)])
    /\ network # cur.network
    /\ Upset
    /\ UNCHANGED <<registered, created, expired, serverVars, scopeVars>>

(* receiveOperatorTakeover and complete: saved, not flushed.               *)
Shown(phase) ==
    /\ cur' = [cur EXCEPT !.phase = phase, !.prompt = FALSE,
                          !.takeover = @ \/ phase = "OPERATOR_TAKEOVER"]
    /\ stored' = cur'
    /\ Upset
    /\ UNCHANGED <<flush, registered, created, expired, serverVars, scopeVars>>

(* The report journey flushes by itself, after its other requests.         *)
FlushPending(f) ==
    /\ flush[f] = NoFlush
    /\ cur.network # "OFFLINE"
    /\ cur.pending # <<>>
    /\ flush' = [flush EXCEPT ![f] = Flushing(cur)]
    /\ Upset
    /\ UNCHANGED <<cur, stored, registered, created, expired, serverVars, scopeVars>>

(* ensureDeviceRegistration has its answer.                                *)
RegisterDevice ==
    /\ cur.consent = "GRANTED"
    /\ ~ registered
    /\ registered' = TRUE
    /\ UNCHANGED <<cur, stored, flush, created, expired, upsets, serverVars, scopeVars>>

(* A failed delivery stays in the queue, with one more attempt, and stops  *)
(* the flush on a degraded network.                                        *)
Failed(f) ==
    LET fl == flush[f]
        q == Head(fl.todo)
        again == [q EXCEPT !.attempts = IF @ > MaxSends THEN @ ELSE @ + 1]
    IN  flush' = [flush EXCEPT ![f] =
            [fl EXCEPT !.todo = IF cur.network = "DEGRADED" THEN <<>> ELSE Tail(@),
                       !.remaining = Append(@, again), !.sent = FALSE]]

(* flush takes the next operation: skipped, refused by the gateway, which  *)
(* needs a registered device, or sent.                                     *)
FlushNext(f) ==
    /\ flush[f] # NoFlush
    /\ ~ flush[f].sent
    /\ flush[f].todo # <<>>
    /\ LET q == Head(flush[f].todo) IN
       \/ /\ q.op \in expired \cup flush[f].acked
          /\ flush' = [flush EXCEPT ![f].todo = Tail(@)]
          /\ wire' = wire
       \/ /\ q.op \notin expired \cup flush[f].acked
          /\ ~ registered
          /\ Failed(f)
          /\ wire' = wire
       \/ /\ q.op \notin expired \cup flush[f].acked
          /\ registered
          /\ flush' = [flush EXCEPT ![f].sent = TRUE]
          /\ wire' = wire \cup {[by |-> f, q |-> q, scope |-> cur.scope, at |-> "sent"]}
    /\ UNCHANGED <<cur, stored, registered, created, expired, upsets,
                   reserved, ledger, applied, refused, scopeVars>>

applyReceipt(state, receipt) ==
    [state EXCEPT
       !.phase = IF receipt = "ACCEPTED" THEN phaseForNetwork(state.network, "READY")
                 ELSE receipt,
       !.takeover = @ \/ receipt = "OPERATOR_TAKEOVER"]

(* The answer to the delivery a flush is waiting for.                      *)
Answered(f, r) ==
    /\ flush[f] # NoFlush
    /\ flush[f].sent
    /\ r.by = f
    /\ r.at \in {"ERROR"} \cup Receipts
    /\ wire' = wire \ {r}
    /\ IF r.at = "ERROR"
         THEN Failed(f) /\ UNCHANGED cur
         ELSE /\ flush' = [flush EXCEPT ![f] =
                    [flush[f] EXCEPT !.todo = Tail(@), !.acked = @ \cup {r.q.op},
                                     !.sent = FALSE]]
              /\ cur' = applyReceipt(cur, r.at)
    /\ UNCHANGED <<stored, registered, created, expired, upsets,
                   reserved, ledger, applied, refused, scopeVars>>

(* The gateway's timeout, or the loss of the request or of its answer: the *)
(* request itself may still be on its way.                                 *)
Unanswered(f, r) ==
    /\ flush[f] # NoFlush
    /\ flush[f].sent
    /\ r.by = f
    /\ Failed(f)
    /\ wire' = (wire \ {r}) \cup
                 (IF r.at \in {"sent", "held"} THEN {[r EXCEPT !.by = NoFlush]} ELSE {})
    /\ UNCHANGED <<cur, stored, registered, created, expired, upsets,
                   reserved, ledger, applied, refused, scopeVars>>

(* A mutant: the queue is what failed, not what was added meanwhile.       *)
Merged_RemainingOnly(fl) == fl.remaining

(* The queue after a flush: what failed, and what else is in the queue by  *)
(* now, neither acknowledged in this flush nor expired.                    *)
Merged(fl) ==
    LET Dropped == OpsIn(fl.remaining) \cup fl.acked \cup expired
    IN  FoldLeft(LAMBDA queue, q : IF q.op \in Dropped THEN queue ELSE Append(queue, q),
                 fl.remaining, cur.pending)

FlushEnd(f) ==
    /\ flush[f] # NoFlush
    /\ flush[f].todo = <<>>
    /\ cur' = [cur EXCEPT !.pending = Merged(flush[f]), !.acked = flush[f].acked]
    /\ stored' = cur'
    /\ flush' = [flush EXCEPT ![f] = NoFlush]
    /\ UNCHANGED <<registered, created, expired, upsets, serverVars, scopeVars>>

(* A mutant: a stored state of another case or session is taken over.      *)
Unusable_AnyScope(scope) == Len(stored.pending) > MaxQueue

(* A stored state of another scope or with too long a queue.               *)
Unusable(scope) == stored.scope # scope \/ Len(stored.pending) > MaxQueue

(* The page is loaded again, for the same or another scope: the host names *)
(* another case or session, or a new version is installed, while the state *)
(* is stored by subject.  boot restores it, unless it is unusable or older *)
(* than the retention, when all it queues has expired too.  A state that   *)
(* this controller saved passes the check of the consent.                  *)
Reload(f) ==
    /\ \E scope \in Scopes, discard \in BOOLEAN :
         /\ Unusable(scope) => discard
         /\ discard => Unusable(scope) \/ OpsIn(stored.pending) \subseteq expired
         /\ booted' = scope
         /\ cur' = IF discard THEN initialState(scope)
                   ELSE [stored EXCEPT !.phase = phaseForNetwork(stored.network, @)]
         /\ abandoned' = IF Unusable(scope) THEN abandoned \cup OpsIn(stored.pending)
                         ELSE abandoned
    /\ stored' = cur'
    /\ flush' = [g \in Flushers |->
          IF g = f /\ cur'.network # "OFFLINE" THEN Flushing(cur') ELSE NoFlush]
    /\ registered' = FALSE
    /\ Upset
    /\ wire' = {[r EXCEPT !.by = NoFlush] : r \in {w \in wire : w.at \in {"sent", "held"}}}
    /\ UNCHANGED <<created, expired, made, reserved, ledger, applied, refused>>

(* Time passes.                                                            *)
Expire(o) ==
    /\ o \in (1 .. created) \ expired
    /\ expired' = expired \cup {o}
    /\ Upset
    /\ UNCHANGED <<cur, stored, flush, registered, created, serverVars, scopeVars>>

-----------------------------------------------------------------------------
(* The delivery route                                                      *)

At(r, step) == wire' = (wire \ {r}) \cup
                         (IF step \in {"ERROR"} \cup Receipts /\ r.by = NoFlush THEN {}
                          ELSE {[r EXCEPT !.at = step]})

(* validateOperation.                                                      *)
Valid(q) == q.op \notin expired /\ q.attempts =< MaxSends

(* The request is checked and reserves its key.                            *)
Receive(r) ==
    /\ r.at = "sent"
    /\ IF Valid(r.q) /\ r.q.op \notin reserved
         THEN reserved' = reserved \cup {r.q.op} /\ At(r, "held")
         ELSE UNCHANGED reserved /\ At(r, "ERROR")
    /\ UNCHANGED <<deviceVars, ledger, applied, refused, scopeVars>>

(* The fingerprint covers case, session and operation.                     *)
SameRequest(row, r) == row.q = r.q /\ row.scope = r.scope

(* idempotentOutcome: the recorded answer if the request is the recorded   *)
(* one; else the operation, its record and the release of the reservation. *)
(* A request that differs, or an operation that fails, leaves the          *)
(* reservation behind.                                                     *)
Conclude(r) ==
    /\ r.at = "held"
    /\ LET o == r.q.op IN
       \/ /\ Recorded(o)
          /\ SameRequest(ledger[o], r)
          /\ At(r, ledger[o].receipt)
          /\ reserved' = reserved \ {o}
          /\ UNCHANGED <<ledger, applied, refused>>
       \/ /\ Recorded(o)
          /\ ~ SameRequest(ledger[o], r)
          /\ At(r, "ERROR")
          /\ refused' = refused \cup {o}
          /\ UNCHANGED <<reserved, ledger, applied>>
       \/ /\ ~ Recorded(o)
          /\ \E receipt \in Receipts :
               /\ ledger' = [ledger EXCEPT ![o] = [q |-> r.q, scope |-> r.scope,
                                                receipt |-> receipt]]
               /\ At(r, receipt)
          /\ applied' = [applied EXCEPT ![o] = @ + 1]
          /\ reserved' = reserved \ {o}
          /\ UNCHANGED refused
       \/ /\ ~ Recorded(o)
          /\ At(r, "ERROR")
          /\ UNCHANGED <<reserved, ledger, applied, refused>>
    /\ UNCHANGED <<deviceVars, scopeVars>>

(* The server dies with the operation done or not, its record not written; *)
(* or the request is lost before it arrives.                               *)
Die(r) ==
    /\ r.at \in {"sent", "held"}
    /\ wire' = (wire \ {r}) \cup
                 (IF r.by = NoFlush THEN {} ELSE {[r EXCEPT !.at = "ERROR"]})
    /\ applied' \in {applied} \cup
         (IF r.at = "held" /\ ~ Recorded(r.q.op)
            THEN {[applied EXCEPT ![r.q.op] = @ + 1]} ELSE {})
    /\ UNCHANGED <<deviceVars, reserved, ledger, refused, scopeVars>>

-----------------------------------------------------------------------------
FieldNext ==
    \/ \E f \in Flushers :
         \/ \E b \in BOOLEAN : setConsent(f, b) \/ respond(f, b)
         \/ selectLanguage(f)
         \/ share(f)
         \/ \E n \in Networks : updateDevice(f, n)
         \/ FlushPending(f)
         \/ FlushNext(f)
         \/ \E r \in wire : Answered(f, r) \/ Unanswered(f, r)
         \/ FlushEnd(f)
         \/ Reload(f)
    \/ \E p \in {"OPERATOR_TAKEOVER", "COMPLETED"} : Shown(p)
    \/ RegisterDevice
    \/ \E o \in Ops : Expire(o)
    \/ \E r \in wire : Receive(r) \/ Conclude(r) \/ Die(r)

FieldSpec == FieldInit /\ [][FieldNext]_fieldVars

-----------------------------------------------------------------------------
(* Properties                                                              *)

(* An operation takes effect on the contact session at most once, although *)
(* two flushes may send it at the same time, the client retries after a    *)
(* timeout while the first request is still being served, and a server     *)
(* may die between the effect and its record.                              *)
AppliedOnce == \A o \in Ops : applied[o] =< 1

(* No operation the user caused is forgotten: as long as it is not         *)
(* expired, it is recorded by the server or still queued, both in memory   *)
(* and in localStorage, whatever was queued, delivered or reloaded during  *)
(* a flush.  There are two exceptions, both at boot, which discards a      *)
(* stored state as a whole: its queue grew over the limit, or the page is  *)
(* opened for another scope (tenant, case, session, simulation, version of *)
(* schema or policy), and then it drops operations that have not expired.  *)
NothingForgotten ==
    \A o \in (1 .. created) \ (expired \cup abandoned) :
        Recorded(o) \/ (o \in OpsIn(cur.pending) /\ o \in OpsIn(stored.pending))

(* What the user did on the page of one case and session is sent, and      *)
(* recorded, for no other, although pages of several scopes store their    *)
(* state and queue at the same place and requests outlive the page.        *)
SentInOwnScope ==
    /\ \A r \in wire : r.scope = made[r.q.op]
    /\ \A o \in Ops : Recorded(o) => ledger[o].scope = made[o]

(* Whenever no flush is under way, a reload would show what is shown now.  *)
SettledIsStored == (\A f \in Flushers : flush[f] = NoFlush) => cur = stored

(* What the user did takes effect once, in its own scope, and is not       *)
(* forgotten but when boot cannot use the stored state, through            *)
(* overlapping flushes, lost answers and reloads (flush, boot and the      *)
(* delivery route).                                                        *)
DeliveredAndKept ==
    /\ FieldTypeOK
    /\ AppliedOnce
    /\ NothingForgotten
    /\ SentInOwnScope
    /\ SettledIsStored

(* A retry of an operation the server has recorded is answered with what   *)
(* was recorded and not refused: reconciliation by operation identity.     *)
RetryIsReconciled == refused = {}

=============================================================================
