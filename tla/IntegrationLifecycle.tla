------------------------ MODULE IntegrationLifecycle ------------------------
(***************************************************************************)
(* PostgresIntegrationSandbox: the deliveries of ROS to partner systems,   *)
(* with prepare, send, cancel and handleCallback.  Each is one transaction *)
(* that locks the delivery's row, so each is one action; what is hard is   *)
(* the order in which they come, repeated, late, with timestamps of the    *)
(* caller's choosing, and from profiles that share ids or keys.            *)
(*                                                                         *)
(* The guard trigger of migration 0014 is not part of the actions: that it *)
(* never has to refuse what they write is the property GuardNeverRaises.   *)
(***************************************************************************)
EXTENDS Naturals, FiniteSets

CONSTANTS
    Profiles,     \* records [id, scope]: profileId; partner, purpose, tenant
    Operations,   \* logical operation ids
    DeliveryKeys, \* idempotency keys
    Bodies,       \* what else the request fingerprint covers
    CallbackIds,
    Reasons,      \* reasons of a cancellation or a callback
    MaxLifecycleTime, \* bound on timestamps
    Null          \* SQL NULL

Times == 0 .. MaxLifecycleTime

CallbackStates == {"ACKNOWLEDGED", "COMPLETED", "FAILED"}
TERMINAL_STATES == {"COMPLETED", "FAILED", "CANCELLED"}
DeliveryStates == {"PREPARED", "ACCEPTED", "CANCELLED"} \cup CallbackStates

(* The simulated provider's id is a digest of these two.                   *)
providerRequestId(profile, op) == <<profile.id, op>>

ProviderIds == {p.id : p \in Profiles} \X Operations

RowType ==
    [profile : Profiles, key : DeliveryKeys, body : Bodies, state : DeliveryStates,
     provider : ProviderIds \cup {Null}, attempts : Nat,
     preparedAt : Times, acceptedAt : Times \cup {Null},
     updatedAt : Times, reason : Reasons \cup {Null}]

ASSUME LifecycleAssumption ==
    /\ MaxLifecycleTime \in Nat
    /\ Null \notin Reasons
    /\ Null \notin Times
    /\ Null \notin ProviderIds
    /\ Null \notin RowType

VARIABLES
    deliveries,  \* integration_deliveries, by logical operation
    callbacks,   \* integration_delivery_callbacks
    receipts     \* the receipts send has returned

lifecycleVars == <<deliveries, callbacks, receipts>>

Prepared == {op \in Operations : deliveries[op] # Null}

LifecycleInit ==
    /\ deliveries = [op \in Operations |-> Null]
    /\ callbacks = {}
    /\ receipts = {}

-----------------------------------------------------------------------------
(* The rows INSERT ... ON CONFLICT DO NOTHING gives way to.                *)
Conflicting(profile, op, key) ==
    {o \in Prepared : \/ o = op
                      \/ /\ deliveries[o].profile.id = profile.id
                         /\ deliveries[o].key = key}

(* A repetition, or a conflict, changes nothing: it is answered with the   *)
(* stored row or refused.                                                  *)
Prepare(profile, op, key, body, at) ==
    /\ Conflicting(profile, op, key) = {}
    /\ deliveries' =
         [deliveries EXCEPT ![op] =
             [profile |-> profile, key |-> key, body |-> body,
              state |-> "PREPARED", provider |-> Null, attempts |-> 0,
              preparedAt |-> at, acceptedAt |-> Null, updatedAt |-> at,
              reason |-> Null]]
    /\ UNCHANGED <<callbacks, receipts>>

Receipt(op, row) ==
    [operation |-> op, provider |-> row.provider, acceptedAt |-> row.acceptedAt]

Accept(profile, op, at) ==
    deliveries' = [deliveries EXCEPT ![op].state = "ACCEPTED",
                                     ![op].provider =
                                         providerRequestId(profile, op),
                                     ![op].attempts = @ + 1,
                                     ![op].acceptedAt = at,
                                     ![op].updatedAt = at]

(* lockByOperation finds the row under the caller's whole profile.  A      *)
(* delivery with a provider request is answered with its receipt.          *)
Send(profile, op, at) ==
    /\ op \in Prepared
    /\ deliveries[op].profile = profile
    /\ IF deliveries[op].provider # Null THEN UNCHANGED deliveries
       ELSE /\ deliveries[op].state = "PREPARED"
            /\ deliveries[op].preparedAt =< at
            /\ Accept(profile, op, at)
    /\ receipts' = receipts \cup {Receipt(op, deliveries'[op])}
    /\ UNCHANGED callbacks

(* lockByProvider.                                                         *)
Locked(profile, provider) ==
    {op \in Prepared : /\ deliveries[op].profile = profile
                       /\ deliveries[op].provider = provider}

(* A mutant: a timestamp in the past is not refused.                       *)
Advance_AnyTime(op, state, reason, at) ==
    /\ deliveries[op].state \notin TERMINAL_STATES
    /\ deliveries' = [deliveries EXCEPT ![op].state = state,
                                        ![op].reason = reason,
                                        ![op].updatedAt = at]

(* A mutant: a failed delivery may still be changed.                       *)
Advance_AfterFailure(op, state, reason, at) ==
    /\ deliveries[op].state \notin {"COMPLETED", "CANCELLED"}
    /\ deliveries[op].updatedAt =< at
    /\ deliveries' = [deliveries EXCEPT ![op].state = state,
                                        ![op].reason = reason,
                                        ![op].updatedAt = at]

(* The update cancel and handleCallback share, with the refusals before it.*)
Advance(op, state, reason, at) ==
    /\ deliveries[op].state \notin TERMINAL_STATES
    /\ deliveries[op].updatedAt =< at
    /\ deliveries' = [deliveries EXCEPT ![op].state = state,
                                        ![op].reason = reason,
                                        ![op].updatedAt = at]

(* Cancelling a cancelled delivery changes nothing.                        *)
Cancel(profile, provider, reason, at) ==
    /\ \E op \in Locked(profile, provider) : Advance(op, "CANCELLED", reason, at)
    /\ UNCHANGED <<callbacks, receipts>>

CallbackRow(profile, op, input) ==
    [profile |-> profile.id, callback |-> input.callback, operation |-> op,
     fingerprint |-> <<input.provider, input.state, input.reason, input.at>>]

(* The record and the update commit together; a refused update takes the   *)
(* record back.  An id already recorded changes nothing: it is a           *)
(* repetition, or refused.                                                 *)
HandleCallback(profile, input) ==
    /\ \E op \in Locked(profile, input.provider) :
         /\ \A c \in callbacks : ~ /\ c.profile = profile.id
                                   /\ c.callback = input.callback
         /\ callbacks' = callbacks \cup {CallbackRow(profile, op, input)}
         /\ \/ /\ deliveries[op].state = input.state
               /\ UNCHANGED deliveries
            \/ /\ deliveries[op].state # input.state
               /\ Advance(op, input.state, input.reason, input.at)
    /\ UNCHANGED receipts

CallbackInputs ==
    [callback : CallbackIds, provider : ProviderIds, state : CallbackStates,
     reason : Reasons \cup {Null}, at : Times]

LifecycleNext ==
    \E p \in Profiles :
        \/ \E op \in Operations, k \in DeliveryKeys, b \in Bodies, t \in Times :
              Prepare(p, op, k, b, t)
        \/ \E op \in Operations, t \in Times : Send(p, op, t)
        \/ \E id \in ProviderIds, r \in Reasons, t \in Times :
              Cancel(p, id, r, t)
        \/ \E input \in CallbackInputs : HandleCallback(p, input)

LifecycleSpec == LifecycleInit /\ [][LifecycleNext]_lifecycleVars

-----------------------------------------------------------------------------
(* Properties                                                              *)

(* integration_deliveries_transport_shape and _time_order.                 *)
SatisfiesChecks(row) ==
    /\ \/ /\ row.state = "PREPARED"
          /\ row.provider = Null /\ row.acceptedAt = Null /\ row.attempts = 0
       \/ /\ row.state # "PREPARED"
          /\ row.provider # Null /\ row.acceptedAt # Null /\ row.attempts >= 1
    /\ row.preparedAt =< row.updatedAt
    /\ row.acceptedAt # Null => row.preparedAt =< row.acceptedAt

(* Types, and the table's CHECK constraints, which no operation runs into. *)
LifecycleTypeOK ==
    /\ deliveries \in [Operations -> RowType \cup {Null}]
    /\ \A op \in Prepared : SatisfiesChecks(deliveries[op])
    /\ callbacks \subseteq
         [profile : {p.id : p \in Profiles}, callback : CallbackIds,
          operation : Operations,
          fingerprint : ProviderIds \X CallbackStates
                          \X (Reasons \cup {Null}) \X Times]
    /\ receipts \subseteq [operation : Operations, provider : ProviderIds,
                           acceptedAt : Times]

(* enforce_integration_delivery_update: what the trigger lets pass.        *)
GuardAllows(old, new) ==
    /\ \A f \in {"profile", "key", "body", "preparedAt"} : new[f] = old[f]
    /\ old.provider # Null => new.provider = old.provider
    /\ old.acceptedAt # Null => new.acceptedAt = old.acceptedAt
    /\ old.attempts =< new.attempts
    /\ old.updatedAt =< new.updatedAt
    /\ new.state # old.state =>
         \/ old.state = "PREPARED" /\ new.state = "ACCEPTED"
         \/ old.state = "ACCEPTED" /\ new.state \in CallbackStates \cup {"CANCELLED"}
         \/ /\ old.state = "ACKNOWLEDGED"
            /\ new.state \in {"COMPLETED", "FAILED", "CANCELLED"}

(* Whatever passes the checks of send, cancel and handleCallback is an     *)
(* update the database's guard accepts: terminal states are final, time    *)
(* and attempts never run backwards, the projection never changes.  The    *)
(* guard is a second line of defence and never the first.                  *)
GuardNeverRaises ==
    [][\A op \in Operations :
          deliveries[op] # Null =>
              /\ deliveries'[op] # Null
              /\ GuardAllows(deliveries[op], deliveries'[op])]_lifecycleVars

(* "A process restart or later retry returns the original receipt": all    *)
(* receipts of an operation are one, and it was sent once.                 *)
OneReceipt ==
    /\ \A r, s \in receipts : r.operation = s.operation => r = s
    /\ \A r \in receipts : deliveries[r.operation].attempts = 1

(* One idempotency key of a profile stands for one delivery.               *)
OneDeliveryPerKey ==
    \A o, q \in Prepared :
        deliveries[o].profile.id = deliveries[q].profile.id
          /\ deliveries[o].key = deliveries[q].key => o = q

StateOf(c) == c.fingerprint[2]

(* What a partner is on record as having said is what the delivery says:   *)
(* no two outcomes are ever recorded, and a recorded outcome is the state. *)
(* A callback that came too late leaves no record.                         *)
OutcomeStands ==
    \A c \in callbacks :
        StateOf(c) \in TERMINAL_STATES =>
            deliveries[c.operation].state = StateOf(c)

(* A delivery is where a partner's word put it only on the word of the     *)
(* very profile it was prepared for, bound to its own provider request.    *)
StateIsWitnessed ==
    \A op \in Prepared :
        LET row == deliveries[op] IN
        row.state \in CallbackStates =>
            \E c \in callbacks :
                /\ c.operation = op
                /\ c.profile = row.profile.id
                /\ c.fingerprint = <<row.provider, row.state, row.reason,
                                     row.updatedAt>>

(* A key of a profile stands for one delivery, sent once under one         *)
(* receipt, with at most one outcome, and that outcome on record from the  *)
(* profile it was sent to, in whatever order retries, cancellations and    *)
(* callbacks come (PostgresIntegrationSandbox).                            *)
ExchangeIsSound ==
    /\ LifecycleTypeOK
    /\ OneReceipt
    /\ OneDeliveryPerKey
    /\ OutcomeStands
    /\ StateIsWitnessed
=============================================================================
