-------------------------- MODULE ExchangeProofs ----------------------------
(***************************************************************************)
(* Proofs about what is exchanged with the outside: replay protection for  *)
(* any callbacks, verifiers, windows and drift; deliveries for any         *)
(* profiles, operations, keys, bodies, callbacks and timestamps; and the   *)
(* evidence store, which keeps and serves what was judged and implements   *)
(* the custody of evidence.                                                *)
(***************************************************************************)
EXTENDS CallbackAuthentication, IntegrationLifecycle, EvidenceStore, TLAPS

-----------------------------------------------------------------------------
(* CallbackAuthentication                                                  *)

AuthType ==
    /\ authClock \in Nat
    /\ checking \in [Verifiers -> Callbacks \cup {NoCallback}]
    /\ accepted \in [Callbacks -> Nat]

(* An accepted callback is remembered until the database itself refuses    *)
(* another claim for it.                                                   *)
Remembered ==
    \A c \in Callbacks :
        accepted[c] > 0 => NonceRow(c) \in nonces \/ expiresAt(c) =< authClock

(* A callback under way was not from the future when it was checked.       *)
NotEarly ==
    \A v \in Verifiers :
        checking[v] # NoCallback =>
            checking[v].timestamp - MaxFutureSkew - Drift =< authClock

AuthInv == AuthType /\ AcceptedOnce /\ Remembered /\ NotEarly

(* A claim succeeds only for a callback never accepted before.             *)
LEMMA ClaimableIsNew ==
    ASSUME AuthInv, NEW c \in Callbacks, Claimable(c)
    PROVE  accepted[c] = 0
  <1>1. NonceRow(c) \notin nonces
    BY DEF Claimable, NonceRow
  <1>2. ~ (expiresAt(c) =< authClock)
    BY WindowAssumption DEF Claimable, AuthInv, AuthType, expiresAt
  <1> QED
    BY <1>1, <1>2 DEF AuthInv, AuthType, Remembered

(* Every step of the authentication keeps the invariant.                   *)
LEMMA AuthStep == AuthInv /\ [CallbackNext]_authVars => AuthInv'
  <1> SUFFICES ASSUME AuthInv, [CallbackNext]_authVars PROVE AuthInv'
    OBVIOUS
  <1>1. ASSUME NEW v \in Verifiers, NEW c \in Callbacks, CheckFresh(v, c)
        PROVE  AuthInv'
    <2>1. UNCHANGED <<authClock, nonces, accepted>>
          /\ checking' = [checking EXCEPT ![v] = c]
      BY <1>1 DEF CheckFresh
    <2>2. c.timestamp - MaxFutureSkew - Drift =< authClock
      BY <1>1, WindowAssumption DEF CheckFresh, Fresh, AuthInv, AuthType
    <2>3. AuthType' /\ AcceptedOnce'
      BY <2>1 DEF AuthInv, AuthType, AcceptedOnce
    <2>4. Remembered'
      BY <2>1 DEF AuthInv, Remembered, NonceRow, expiresAt
    <2>5. NotEarly'
      BY <2>1, <2>2 DEF AuthInv, AuthType, NotEarly
    <2> QED
      BY <2>3, <2>4, <2>5 DEF AuthInv
  <1>2. ASSUME NEW v \in Verifiers, Claim(v) \/ ClaimFails(v)
        PROVE  AuthInv'
    <2> DEFINE c == checking[v]
    <2>1. c \in Callbacks /\ authClock' = authClock
          /\ checking' = [checking EXCEPT ![v] = NoCallback]
      BY <1>2 DEF Claim, ClaimFails, AuthInv, AuthType
    <2>2. NotEarly'
      BY <2>1 DEF AuthInv, AuthType, NotEarly
    <2>3. CASE accepted' = accepted /\ nonces \subseteq nonces'
      <3>1. AuthType' /\ AcceptedOnce'
        BY <2>1, <2>3 DEF AuthInv, AuthType, AcceptedOnce
      <3>2. Remembered'
        BY <2>1, <2>3 DEF AuthInv, Remembered, NonceRow, expiresAt
      <3> QED
        BY <2>2, <3>1, <3>2 DEF AuthInv
    <2>4. CASE /\ Claimable(c)
               /\ nonces' = nonces \cup {NonceRow(c)}
               /\ accepted' = [accepted EXCEPT ![c] = @ + 1]
      <3>1. accepted[c] = 0
        BY <2>1, <2>4, ClaimableIsNew
      <3>2. AuthType' /\ AcceptedOnce'
        BY <2>1, <2>4, <3>1 DEF AuthInv, AuthType, AcceptedOnce
      <3>3. Remembered'
        BY <2>1, <2>4, <3>1
        DEF AuthInv, AuthType, Remembered, NonceRow, expiresAt
      <3> QED
        BY <2>2, <3>2, <3>3 DEF AuthInv
    <2> QED
      BY <1>2, <2>3, <2>4 DEF Claim, ClaimFails
  <1>3. ASSUME NEW n \in nonces, Prune(n) PROVE AuthInv'
    <2>1. UNCHANGED <<authClock, checking, accepted>> /\ nonces' = nonces \ {n}
          /\ n.expiresAt =< authClock
      BY <1>3 DEF Prune
    <2>2. AuthType' /\ AcceptedOnce' /\ NotEarly'
      BY <2>1 DEF AuthInv, AuthType, AcceptedOnce, NotEarly
    <2>3. ASSUME NEW c \in Callbacks, accepted[c] > 0
          PROVE  NonceRow(c) \in nonces' \/ expiresAt(c) =< authClock
      BY <2>1, <2>3 DEF AuthInv, Remembered, NonceRow
    <2>4. Remembered'
      BY <2>1, <2>3 DEF Remembered, NonceRow, expiresAt
    <2> QED
      BY <2>2, <2>4 DEF AuthInv
  <1>4. CASE AuthTick
    <2>1. authClock' = authClock + 1 /\ UNCHANGED <<nonces, checking, accepted>>
      BY <1>4 DEF AuthTick
    <2>2. AuthType' /\ AcceptedOnce'
      BY <2>1 DEF AuthInv, AuthType, AcceptedOnce
    <2>3. Remembered'
      BY <2>1, WindowAssumption
      DEF AuthInv, AuthType, Remembered, NonceRow, expiresAt
    <2>4. NotEarly'
      BY <2>1, WindowAssumption DEF AuthInv, AuthType, NotEarly
    <2> QED
      BY <2>2, <2>3, <2>4 DEF AuthInv
  <1>5. CASE UNCHANGED authVars
    BY <1>5 DEF authVars, AuthInv, AuthType, AcceptedOnce, Remembered,
                NotEarly, NonceRow, expiresAt
  <1> QED
    BY <1>1, <1>2, <1>3, <1>4, <1>5 DEF CallbackNext

LEMMA AuthInitially == CallbackInit => AuthInv
  BY DEF CallbackInit, AuthInv, AuthType, AcceptedOnce, Remembered, NotEarly

LEMMA AuthInductive == CallbackSpec => []AuthInv
  BY AuthInitially, AuthStep, PTL DEF CallbackSpec

(* No signed callback is let through twice, although check and claim are   *)
(* apart and expired nonces are pruned: the constraint that a claim must   *)
(* outlive the database's now() refuses whoever comes after the pruning.   *)
THEOREM NoReplay == CallbackSpec => []AcceptedOnce
  <1>1. AuthInv => AcceptedOnce
    BY DEF AuthInv
  <1> QED
    BY <1>1, AuthInductive, PTL

(* A callback is let through only within its window by the database clock.     *)
THEOREM TimelyAcceptance == CallbackSpec => AcceptedInTime
  <1>1. ASSUME AuthInv, [CallbackNext]_authVars, NEW c \in Callbacks,
               accepted'[c] # accepted[c]
        PROVE  /\ c.timestamp - MaxFutureSkew - Drift =< authClock
               /\ authClock < c.timestamp + MaxAge + MaxFutureSkew
    <2>1. PICK v \in Verifiers : Claim(v) /\ accepted' # accepted
      BY <1>1 DEF CallbackNext, CheckFresh, ClaimFails, Prune, AuthTick, authVars
    <2>2. checking[v] = c /\ Claimable(c)
      BY <1>1, <2>1 DEF Claim, AuthInv, AuthType
    <2> QED
      BY <1>1, <2>1, <2>2, WindowAssumption
      DEF Claim, Claimable, expiresAt, AuthInv, AuthType, NotEarly
  <1>2. AuthInv /\ [CallbackNext]_authVars =>
          [\A c \in Callbacks :
              accepted'[c] # accepted[c] =>
                  /\ c.timestamp - MaxFutureSkew - Drift =< authClock
                  /\ authClock < c.timestamp + MaxAge + MaxFutureSkew]_authVars
    BY <1>1
  <1> QED
    BY <1>2, AuthInductive, PTL DEF CallbackSpec, AcceptedInTime

-----------------------------------------------------------------------------
(* IntegrationLifecycle                                                    *)

(* A delivery that was not sent is as it was prepared; one that was is     *)
(* bound to the one request made for it.                                   *)
SentOnce ==
    \A op \in Prepared :
        /\ deliveries[op].provider = Null => deliveries[op].updatedAt = deliveries[op].preparedAt
        /\ deliveries[op].provider # Null =>
            /\ deliveries[op].provider = providerRequestId(deliveries[op].profile, op)
            /\ deliveries[op].attempts = 1

(* A receipt still says what the row says.                                 *)
ReceiptsStand ==
    \A r \in receipts :
        /\ r.operation \in Prepared
        /\ deliveries[r.operation].provider # Null
        /\ r = Receipt(r.operation, deliveries[r.operation])

(* Only a delivery that was sent is called back about.                     *)
CallbacksFollow ==
    \A c \in callbacks :
        /\ c.operation \in Prepared
        /\ deliveries[c.operation].state # "PREPARED"

LifecycleInv == ExchangeIsSound /\ SentOnce /\ ReceiptsStand /\ CallbacksFollow

(* What the update of cancel and handleCallback makes of a row.            *)
Advanced(old, new, s, r, t) ==
    /\ new.state = s /\ new.reason = r /\ new.updatedAt = t
    /\ new.profile = old.profile /\ new.key = old.key /\ new.body = old.body
    /\ new.provider = old.provider /\ new.attempts = old.attempts
    /\ new.preparedAt = old.preparedAt /\ new.acceptedAt = old.acceptedAt

(* What cancel and handleCallback write, whatever called them: the row of   *)
(* one delivery that was sent and has no outcome.                          *)
LEMMA AdvanceFacts ==
    ASSUME LifecycleInv, NEW op \in Prepared, deliveries[op].provider # Null,
           NEW s \in CallbackStates \cup {"CANCELLED"}, NEW r \in Reasons \cup {Null},
           NEW t \in Times, Advance(op, s, r, t)
    PROVE  /\ deliveries[op].state \in {"ACCEPTED", "ACKNOWLEDGED"}
           /\ deliveries[op].updatedAt =< t
           /\ Advanced(deliveries[op], deliveries'[op], s, r, t)
           /\ \A o \in Operations \ {op} : deliveries'[o] = deliveries[o]
           /\ \A o \in Prepared \ {op} : deliveries'[o] = deliveries[o]
           /\ deliveries' \in [Operations -> RowType \cup {Null}]
           /\ deliveries'[op] \in RowType /\ deliveries'[op] # Null
           /\ Prepared' = Prepared
           /\ SatisfiesChecks(deliveries'[op])
  <1>1. op \in Operations /\ deliveries[op] # Null /\ deliveries[op] \in RowType
    BY DEF Prepared, LifecycleInv, ExchangeIsSound, LifecycleTypeOK
  <1>2. SatisfiesChecks(deliveries[op])
    BY DEF LifecycleInv, ExchangeIsSound, LifecycleTypeOK
  <1> DEFINE new == [deliveries[op] EXCEPT !.state = s, !.reason = r, !.updatedAt = t]
  <1>3. deliveries' = [deliveries EXCEPT ![op] = new]
    BY <1>1 DEF Advance, LifecycleInv, ExchangeIsSound, LifecycleTypeOK
  <1>4. new \in RowType /\ new # Null
    BY <1>1, LifecycleAssumption DEF RowType, DeliveryStates
  <1>5. /\ deliveries'[op] = new
        /\ \A o \in Operations \ {op} : deliveries'[o] = deliveries[o]
        /\ deliveries' \in [Operations -> RowType \cup {Null}]
    BY <1>1, <1>3, <1>4 DEF LifecycleInv, ExchangeIsSound, LifecycleTypeOK
  <1>6. Prepared' = Prepared
    BY <1>1, <1>4, <1>5 DEF Prepared
  <1>7. deliveries[op].state \in {"ACCEPTED", "ACKNOWLEDGED"} /\ deliveries[op].updatedAt =< t
    BY <1>1, <1>2 DEF Advance, TERMINAL_STATES, SatisfiesChecks, RowType, DeliveryStates, CallbackStates
  <1>8. SatisfiesChecks(new)
    BY <1>1, <1>2, <1>7, LifecycleAssumption DEF SatisfiesChecks, RowType, CallbackStates, Times
  <1>9. Advanced(deliveries[op], new, s, r, t)
    BY <1>1 DEF Advanced, RowType
  <1>10. \A o \in Prepared \ {op} : deliveries'[o] = deliveries[o]
    BY <1>5 DEF Prepared
  <1> HIDE DEF new
  <1> QED
    BY <1>1, <1>4, <1>5, <1>6, <1>7, <1>8, <1>9, <1>10

(* One lemma per operation: it keeps the invariant.                        *)
LEMMA PrepareStep ==
    ASSUME LifecycleInv, NEW p \in Profiles, NEW op \in Operations, NEW k \in DeliveryKeys,
           NEW b \in Bodies, NEW t \in Times, Prepare(p, op, k, b, t)
    PROVE  LifecycleInv'
  <1> DEFINE new == [profile |-> p, key |-> k, body |-> b,
                     state |-> "PREPARED", provider |-> Null, attempts |-> 0,
                     preparedAt |-> t, acceptedAt |-> Null, updatedAt |-> t,
                     reason |-> Null]
  <1>1. /\ op \notin Prepared
        /\ \A o \in Prepared : ~ (deliveries[o].profile.id = p.id /\ deliveries[o].key = k)
    BY DEF Prepare, Conflicting
  <1>2. new \in RowType /\ new # Null
    BY LifecycleAssumption DEF RowType, DeliveryStates
  <1>3. /\ deliveries'[op] = new
        /\ \A o \in Operations \ {op} : deliveries'[o] = deliveries[o]
        /\ deliveries' \in [Operations -> RowType \cup {Null}]
        /\ callbacks' = callbacks /\ receipts' = receipts
    BY <1>2 DEF Prepare, LifecycleInv, ExchangeIsSound, LifecycleTypeOK
  <1>4. Prepared' = Prepared \cup {op} /\ \A o \in Prepared : deliveries'[o] = deliveries[o]
    BY <1>1, <1>2, <1>3 DEF Prepared
  <1> HIDE DEF new
  <1>5. /\ new.profile = p /\ new.key = k /\ new.state = "PREPARED" /\ new.provider = Null
        /\ new.attempts = 0 /\ new.preparedAt = t /\ new.acceptedAt = Null /\ new.updatedAt = t
    BY DEF new
  <1>6. LifecycleTypeOK'
    <2>1. SatisfiesChecks(new)
      BY <1>5 DEF SatisfiesChecks, Times
    <2> QED
      BY <1>3, <1>4, <2>1 DEF LifecycleInv, ExchangeIsSound, LifecycleTypeOK
  <1>7. OneReceipt' /\ ReceiptsStand'
    BY <1>3, <1>4 DEF LifecycleInv, ExchangeIsSound, OneReceipt, ReceiptsStand, Receipt
  <1>8. OneDeliveryPerKey'
    BY <1>1, <1>3, <1>4, <1>5 DEF LifecycleInv, ExchangeIsSound, OneDeliveryPerKey
  <1>9. OutcomeStands' /\ CallbacksFollow'
    BY <1>3, <1>4 DEF LifecycleInv, ExchangeIsSound, OutcomeStands, CallbacksFollow, StateOf
  <1>10. SentOnce'
    BY <1>3, <1>4, <1>5 DEF LifecycleInv, SentOnce
  <1>11. StateIsWitnessed'
    <2>1. new.state \notin CallbackStates
      BY <1>5 DEF CallbackStates
    <2> QED
      BY <1>3, <1>4, <2>1 DEF LifecycleInv, ExchangeIsSound, StateIsWitnessed
  <1> QED
    BY <1>6, <1>7, <1>8, <1>9, <1>10, <1>11 DEF LifecycleInv, ExchangeIsSound

(* A delivery that is sent (Send).                                         *)
LEMMA SendStep ==
    ASSUME LifecycleInv, NEW p \in Profiles, NEW op \in Operations, NEW t \in Times, Send(p, op, t)
    PROVE  LifecycleInv'
  <1>1. /\ op \in Prepared /\ deliveries[op] \in RowType /\ deliveries[op].profile = p
        /\ SatisfiesChecks(deliveries[op]) /\ callbacks' = callbacks
    BY DEF Send, Prepared, LifecycleInv, ExchangeIsSound, LifecycleTypeOK
  <1> DEFINE new == [deliveries[op] EXCEPT !.state = "ACCEPTED",
                        !.provider = providerRequestId(p, op), !.attempts = @ + 1,
                        !.acceptedAt = t, !.updatedAt = t]
  <1>2. CASE deliveries[op].provider # Null
    <2>1. deliveries' = deliveries /\ receipts' = receipts \cup {Receipt(op, deliveries[op])}
      BY <1>1, <1>2 DEF Send
    <2>2. Prepared' = Prepared
      BY <2>1 DEF Prepared
    <2>3. Receipt(op, deliveries[op]) \in [operation : Operations, provider : ProviderIds, acceptedAt : Times]
      BY <1>1, <1>2, <2>1 DEF Receipt, SatisfiesChecks, RowType
    <2>4. LifecycleTypeOK'
      BY <1>1, <2>1, <2>2, <2>3 DEF LifecycleInv, ExchangeIsSound, LifecycleTypeOK
    <2>5. ReceiptsStand'
      BY <1>1, <1>2, <2>1, <2>2 DEF LifecycleInv, ReceiptsStand, Receipt
    <2>6. OneReceipt'
      BY <2>1, <2>2, <2>5 DEF LifecycleInv, OneReceipt, ReceiptsStand, SentOnce
    <2> QED
      BY <1>1, <2>1, <2>2, <2>4, <2>5, <2>6
      DEF LifecycleInv, ExchangeIsSound, OneDeliveryPerKey, OutcomeStands, StateOf, StateIsWitnessed,
          SentOnce, CallbacksFollow
  <1>3. CASE deliveries[op].provider = Null
    <2>1. /\ deliveries[op].state = "PREPARED" /\ deliveries[op].preparedAt =< t
          /\ deliveries' = [deliveries EXCEPT ![op] = new]
          /\ receipts' = receipts \cup {Receipt(op, deliveries'[op])}
      BY <1>1, <1>3 DEF Send, Accept, LifecycleInv, ExchangeIsSound, LifecycleTypeOK
    <2>2. providerRequestId(p, op) \in ProviderIds
      BY DEF providerRequestId, ProviderIds
    <2>4. deliveries[op].attempts = 0
      BY <1>1, <2>1 DEF SatisfiesChecks
    <2>3. new \in RowType /\ new # Null
      <3>1. deliveries[op].attempts + 1 \in Nat
        BY <2>4
      <3> QED
        BY <1>1, <2>2, <3>1, LifecycleAssumption DEF RowType, DeliveryStates
    <2>5. /\ new.profile = p /\ new.key = deliveries[op].key /\ new.body = deliveries[op].body
          /\ new.state = "ACCEPTED"
          /\ new.provider = providerRequestId(p, op) /\ new.attempts = 1 /\ new.acceptedAt = t
          /\ new.updatedAt = t /\ new.preparedAt = deliveries[op].preparedAt
      BY <1>1, <2>4 DEF RowType
    <2>6. /\ deliveries'[op] = new
          /\ \A o \in Operations \ {op} : deliveries'[o] = deliveries[o]
          /\ deliveries' \in [Operations -> RowType \cup {Null}]
          /\ Prepared' = Prepared
      BY <1>1, <2>1, <2>3 DEF Prepared, LifecycleInv, ExchangeIsSound, LifecycleTypeOK
    <2> HIDE DEF new
    <2>7. LifecycleTypeOK'
      <3>1. SatisfiesChecks(new)
        BY <1>1, <2>1, <2>2, <2>5, LifecycleAssumption DEF SatisfiesChecks, RowType, Times
      <3>2. Receipt(op, new) \in [operation : Operations, provider : ProviderIds, acceptedAt : Times]
        BY <2>2, <2>5 DEF Receipt
      <3> QED
        BY <1>1, <2>1, <2>6, <3>1, <3>2 DEF LifecycleInv, ExchangeIsSound, LifecycleTypeOK, Prepared
    <2>8. ReceiptsStand'
      <3>1. \A r \in receipts : r.operation \in Prepared /\ r.operation # op
        BY <1>3 DEF LifecycleInv, ReceiptsStand
      <3>2. new.provider # Null
        BY <2>2, <2>5, LifecycleAssumption
      <3> QED
        BY <1>1, <2>1, <2>6, <3>1, <3>2 DEF LifecycleInv, ReceiptsStand, Receipt, Prepared
    <2>9. SentOnce'
      <3>1. \A o \in Prepared \ {op} : deliveries'[o] = deliveries[o]
        BY <2>6 DEF Prepared
      <3> QED
        BY <1>1, <2>2, <2>5, <2>6, <3>1, LifecycleAssumption DEF LifecycleInv, SentOnce
    <2>10. OneReceipt'
      BY <2>8, <2>9 DEF OneReceipt, ReceiptsStand, SentOnce
    <2>11. OneDeliveryPerKey'
      BY <1>1, <2>5, <2>6 DEF LifecycleInv, ExchangeIsSound, OneDeliveryPerKey, Prepared
    <2>12. OutcomeStands' /\ CallbacksFollow'
      BY <1>1, <2>1, <2>5, <2>6
      DEF LifecycleInv, ExchangeIsSound, OutcomeStands, CallbacksFollow, StateOf, Prepared
    <2>13. StateIsWitnessed'
      BY <1>1, <2>5, <2>6 DEF LifecycleInv, ExchangeIsSound, StateIsWitnessed, CallbackStates, Prepared
    <2> QED
      BY <2>7, <2>8, <2>9, <2>10, <2>11, <2>12, <2>13 DEF LifecycleInv, ExchangeIsSound
  <1> QED
    BY <1>2, <1>3

(* Cancelling and calling back disturb neither keys nor receipts.          *)
LEMMA AdvanceKeeps ==
    ASSUME LifecycleInv, NEW op \in Prepared, deliveries[op].provider # Null,
           NEW s \in CallbackStates \cup {"CANCELLED"}, NEW r \in Reasons \cup {Null},
           NEW t \in Times, Advance(op, s, r, t), receipts' = receipts
    PROVE  /\ deliveries'[op].state = s /\ deliveries'[op].reason = r
           /\ deliveries'[op].updatedAt = t
           /\ deliveries'[op].profile = deliveries[op].profile
           /\ deliveries'[op].provider = deliveries[op].provider
           /\ \A o \in Prepared' : SatisfiesChecks(deliveries'[o])
           /\ OneReceipt' /\ OneDeliveryPerKey' /\ SentOnce' /\ ReceiptsStand'
  <1>1. /\ Advanced(deliveries[op], deliveries'[op], s, r, t)
        /\ \A o \in Prepared \ {op} : deliveries'[o] = deliveries[o]
        /\ Prepared' = Prepared
        /\ SatisfiesChecks(deliveries'[op])
    BY AdvanceFacts
  <1>2. /\ deliveries'[op].state = s /\ deliveries'[op].reason = r
        /\ deliveries'[op].updatedAt = t
        /\ deliveries'[op].profile = deliveries[op].profile
        /\ deliveries'[op].key = deliveries[op].key
        /\ deliveries'[op].provider = deliveries[op].provider
        /\ deliveries'[op].attempts = deliveries[op].attempts
        /\ deliveries'[op].acceptedAt = deliveries[op].acceptedAt
    BY <1>1 DEF Advanced
  <1>3. \A o \in Prepared' : SatisfiesChecks(deliveries'[o])
    BY <1>1 DEF LifecycleInv, ExchangeIsSound, LifecycleTypeOK
  <1>4. OneDeliveryPerKey'
    BY <1>1, <1>2 DEF LifecycleInv, ExchangeIsSound, OneDeliveryPerKey
  <1>5. SentOnce'
    BY <1>1, <1>2 DEF LifecycleInv, SentOnce
  <1>6. ReceiptsStand'
    BY <1>1, <1>2 DEF LifecycleInv, ReceiptsStand, Receipt
  <1>7. OneReceipt'
    BY <1>5, <1>6 DEF OneReceipt, ReceiptsStand, SentOnce
  <1> QED
    BY <1>2, <1>3, <1>4, <1>5, <1>6, <1>7

(* A delivery that is cancelled (Cancel).                                  *)
LEMMA CancelStep ==
    ASSUME LifecycleInv, NEW p \in Profiles, NEW id \in ProviderIds, NEW r \in Reasons,
           NEW t \in Times, Cancel(p, id, r, t)
    PROVE  LifecycleInv'
  <1>1. PICK op \in Locked(p, id) : Advance(op, "CANCELLED", r, t)
    BY DEF Cancel
  <1>2. op \in Prepared /\ deliveries[op].provider # Null
    BY LifecycleAssumption DEF Locked
  <1>3. callbacks' = callbacks /\ receipts' = receipts
    BY DEF Cancel
  <1>4. /\ \A o \in Prepared \ {op} : deliveries'[o] = deliveries[o]
        /\ deliveries' \in [Operations -> RowType \cup {Null}]
        /\ Prepared' = Prepared
        /\ deliveries[op].state \in {"ACCEPTED", "ACKNOWLEDGED"}
    BY <1>1, <1>2, AdvanceFacts
  <1>5. /\ deliveries'[op].state = "CANCELLED"
        /\ \A o \in Prepared' : SatisfiesChecks(deliveries'[o])
        /\ OneReceipt' /\ OneDeliveryPerKey' /\ SentOnce' /\ ReceiptsStand'
    BY <1>1, <1>2, <1>3, AdvanceKeeps
  <1>6. LifecycleTypeOK'
    BY <1>3, <1>4, <1>5 DEF LifecycleInv, ExchangeIsSound, LifecycleTypeOK
  <1>7. OutcomeStands'
    BY <1>3, <1>4, <1>5
    DEF LifecycleInv, ExchangeIsSound, OutcomeStands, CallbacksFollow, TERMINAL_STATES, StateOf
  <1>8. CallbacksFollow'
    BY <1>3, <1>4, <1>5 DEF LifecycleInv, CallbacksFollow
  <1>9. StateIsWitnessed'
    <2>1. "CANCELLED" \notin CallbackStates
      BY DEF CallbackStates
    <2> QED
      BY <1>3, <1>4, <1>5, <2>1 DEF LifecycleInv, ExchangeIsSound, StateIsWitnessed
  <1> QED
    BY <1>5, <1>6, <1>7, <1>8, <1>9 DEF LifecycleInv, ExchangeIsSound

(* A callback that is applied (HandleCallback).                            *)
LEMMA CallbackStep ==
    ASSUME LifecycleInv, NEW p \in Profiles, NEW input \in CallbackInputs,
           HandleCallback(p, input)
    PROVE  LifecycleInv'
  <1>1. PICK op \in Locked(p, input.provider) :
            /\ callbacks' = callbacks \cup {CallbackRow(p, op, input)}
            /\ \/ deliveries[op].state = input.state /\ UNCHANGED deliveries
               \/ /\ deliveries[op].state # input.state
                  /\ Advance(op, input.state, input.reason, input.at)
    BY DEF HandleCallback
  <1>2. /\ op \in Prepared /\ op \in Operations /\ deliveries[op].provider # Null
        /\ deliveries[op].profile = p /\ deliveries[op].provider = input.provider
        /\ SatisfiesChecks(deliveries[op])
    BY LifecycleAssumption
    DEF Locked, Prepared, CallbackInputs, LifecycleInv, ExchangeIsSound, LifecycleTypeOK
  <1>3. receipts' = receipts /\ input.state \in CallbackStates /\ input.at \in Times
        /\ input.reason \in Reasons \cup {Null} /\ input.provider \in ProviderIds
        /\ input.callback \in CallbackIds
    BY DEF HandleCallback, CallbackInputs
  <1> DEFINE c == CallbackRow(p, op, input)
  <1>4. /\ c.profile = p.id /\ c.operation = op
        /\ c.fingerprint = <<input.provider, input.state, input.reason, input.at>>
        /\ StateOf(c) = input.state
    BY DEF CallbackRow, StateOf
  <1>5. c \in [profile : {q.id : q \in Profiles}, callback : CallbackIds,
               operation : Operations,
               fingerprint : ProviderIds \X CallbackStates
                               \X (Reasons \cup {Null}) \X Times]
    BY <1>2, <1>3 DEF CallbackRow
  <1> HIDE DEF c
  <1>6. CASE deliveries[op].state = input.state /\ UNCHANGED deliveries
    <2>1. Prepared' = Prepared
      BY <1>6 DEF Prepared
    <2>2. LifecycleTypeOK'
      BY <1>1, <1>3, <1>5, <1>6, <2>1 DEF LifecycleInv, ExchangeIsSound, LifecycleTypeOK, c
    <2>3. OutcomeStands' /\ CallbacksFollow'
      BY <1>1, <1>2, <1>3, <1>4, <1>6, <2>1
      DEF LifecycleInv, ExchangeIsSound, OutcomeStands, CallbacksFollow, SatisfiesChecks, c
    <2>4. StateIsWitnessed'
      BY <1>1, <1>6, <2>1 DEF LifecycleInv, ExchangeIsSound, StateIsWitnessed
    <2> QED
      BY <1>3, <1>6, <2>1, <2>2, <2>3, <2>4
      DEF LifecycleInv, ExchangeIsSound, OneReceipt, OneDeliveryPerKey, SentOnce, ReceiptsStand
  <1>7. CASE deliveries[op].state # input.state /\ Advance(op, input.state, input.reason, input.at)
    <2>1. /\ \A o \in Prepared \ {op} : deliveries'[o] = deliveries[o]
          /\ deliveries' \in [Operations -> RowType \cup {Null}]
          /\ Prepared' = Prepared
          /\ deliveries[op].state \in {"ACCEPTED", "ACKNOWLEDGED"}
      BY <1>2, <1>3, <1>7, AdvanceFacts
    <2>2. /\ deliveries'[op].state = input.state /\ deliveries'[op].reason = input.reason
          /\ deliveries'[op].updatedAt = input.at
          /\ deliveries'[op].profile = p /\ deliveries'[op].provider = input.provider
          /\ \A o \in Prepared' : SatisfiesChecks(deliveries'[o])
          /\ OneReceipt' /\ OneDeliveryPerKey' /\ SentOnce' /\ ReceiptsStand'
      BY <1>2, <1>3, <1>7, AdvanceKeeps
    <2>3. LifecycleTypeOK'
      BY <1>1, <1>3, <1>5, <2>1, <2>2 DEF LifecycleInv, ExchangeIsSound, LifecycleTypeOK, c
    <2>4. OutcomeStands'
      BY <1>1, <1>2, <1>4, <2>1, <2>2
      DEF LifecycleInv, ExchangeIsSound, OutcomeStands, CallbacksFollow, TERMINAL_STATES, c
    <2>5. CallbacksFollow'
      BY <1>1, <1>2, <1>3, <1>4, <2>1, <2>2
      DEF LifecycleInv, CallbacksFollow, CallbackStates, c
    <2>6. ASSUME NEW o \in Prepared', deliveries'[o].state \in CallbackStates
          PROVE  \E d \in callbacks' :
                    /\ d.operation = o
                    /\ d.profile = deliveries'[o].profile.id
                    /\ d.fingerprint = <<deliveries'[o].provider, deliveries'[o].state,
                                         deliveries'[o].reason, deliveries'[o].updatedAt>>
      <3>1. CASE o = op
        BY <1>1, <1>4, <2>2, <3>1 DEF c
      <3>2. CASE o # op
        BY <1>1, <2>1, <2>6, <3>2 DEF LifecycleInv, ExchangeIsSound, StateIsWitnessed
      <3> QED
        BY <3>1, <3>2
    <2>7. StateIsWitnessed'
      BY <2>6 DEF StateIsWitnessed
    <2> QED
      BY <2>2, <2>3, <2>4, <2>5, <2>7 DEF LifecycleInv, ExchangeIsSound
  <1> QED
    BY <1>1, <1>6, <1>7

LEMMA LifecycleInitially == LifecycleInit => LifecycleInv
  BY DEF LifecycleInit, LifecycleInv, ExchangeIsSound, LifecycleTypeOK, OneReceipt,
         OneDeliveryPerKey, OutcomeStands, StateIsWitnessed, SentOnce, ReceiptsStand,
         CallbacksFollow, Prepared

(* Every step of the lifecycle keeps the invariant.                        *)
LEMMA LifecycleStep == LifecycleInv /\ [LifecycleNext]_lifecycleVars => LifecycleInv'
  <1> SUFFICES ASSUME LifecycleInv, [LifecycleNext]_lifecycleVars PROVE LifecycleInv'
    OBVIOUS
  <1>1. CASE LifecycleNext
    BY <1>1, PrepareStep, SendStep, CancelStep, CallbackStep DEF LifecycleNext
  <1>2. CASE UNCHANGED lifecycleVars
    BY <1>2 DEF lifecycleVars, LifecycleInv, ExchangeIsSound, LifecycleTypeOK, OneReceipt,
                OneDeliveryPerKey, OutcomeStands, StateIsWitnessed, SentOnce, ReceiptsStand,
                CallbacksFollow, Prepared
  <1> QED
    BY <1>1, <1>2

LEMMA LifecycleInductive == LifecycleSpec => []LifecycleInv
  BY LifecycleInitially, LifecycleStep, PTL DEF LifecycleSpec

(* However prepare, send, cancel and callbacks come: a key of a profile    *)
(* stands for one delivery, all receipts of an operation are one, no two   *)
(* outcomes are ever on record, and a delivery is where a partner's word   *)
(* put it only on a callback from the profile it was prepared for.         *)
THEOREM SoundExchange == LifecycleSpec => []ExchangeIsSound
  <1>1. LifecycleInv => ExchangeIsSound
    BY DEF LifecycleInv
  <1> QED
    BY <1>1, LifecycleInductive, PTL

(* Whatever the checks of send, cancel and handleCallback let through, the *)
(* trigger of migration 0014 accepts.                                      *)
THEOREM GuardStaysQuiet == LifecycleSpec => GuardNeverRaises
  <1>1. ASSUME LifecycleInv, [LifecycleNext]_lifecycleVars, NEW op \in Operations,
               deliveries[op] # Null
        PROVE  deliveries'[op] # Null /\ GuardAllows(deliveries[op], deliveries'[op])
    <2>0. op \in Prepared /\ deliveries[op] \in RowType /\ SatisfiesChecks(deliveries[op])
      BY <1>1 DEF Prepared, LifecycleInv, ExchangeIsSound, LifecycleTypeOK
    <2>1. CASE deliveries'[op] = deliveries[op]
      BY <1>1, <2>0, <2>1 DEF GuardAllows, RowType, Times
    <2>2. ASSUME NEW p \in Profiles, NEW o \in Operations, NEW k \in DeliveryKeys,
                 NEW b \in Bodies, NEW t \in Times, Prepare(p, o, k, b, t)
          PROVE  deliveries'[op] = deliveries[op]
      BY <1>1, <2>0, <2>2 DEF Prepare, Conflicting, LifecycleInv, ExchangeIsSound, LifecycleTypeOK
    <2>3. ASSUME NEW p \in Profiles, NEW t \in Times, Send(p, op, t), deliveries'[op] # deliveries[op]
          PROVE  deliveries'[op] # Null /\ GuardAllows(deliveries[op], deliveries'[op])
      <3>1. /\ deliveries[op].provider = Null /\ deliveries[op].state = "PREPARED"
            /\ deliveries[op].preparedAt =< t
            /\ deliveries[op].acceptedAt = Null
            /\ deliveries'[op] = [deliveries[op] EXCEPT !.state = "ACCEPTED",
                        !.provider = providerRequestId(p, op), !.attempts = @ + 1,
                        !.acceptedAt = t, !.updatedAt = t]
        BY <2>0, <2>3, <1>1 DEF Send, Accept, LifecycleInv, ExchangeIsSound, LifecycleTypeOK,
                                SatisfiesChecks
      <3>2. deliveries[op].updatedAt =< t
        BY <1>1, <2>0, <3>1 DEF LifecycleInv, SentOnce
      <3>3. /\ \A f \in {"profile", "key", "body", "preparedAt"} : deliveries'[op][f] = deliveries[op][f]
            /\ deliveries'[op].state = "ACCEPTED" /\ deliveries'[op].updatedAt = t
            /\ deliveries'[op].attempts = deliveries[op].attempts + 1
        BY <2>0, <3>1 DEF RowType
      <3>4. deliveries[op].attempts =< deliveries'[op].attempts
        BY <2>0, <3>3 DEF RowType
      <3>5. deliveries'[op] # Null
        <4>1. providerRequestId(p, op) \in ProviderIds /\ deliveries[op].attempts + 1 \in Nat
          BY <2>0 DEF providerRequestId, ProviderIds, RowType
        <4>2. deliveries'[op] \in RowType
          BY <2>0, <3>1, <4>1 DEF RowType, DeliveryStates
        <4> QED
          BY <4>2, LifecycleAssumption
      <3> QED
        BY <3>1, <3>2, <3>3, <3>4, <3>5 DEF GuardAllows
    <2>5. ASSUME NEW s \in CallbackStates \cup {"CANCELLED"}, NEW r \in Reasons \cup {Null},
                 NEW t \in Times, NEW o \in Prepared, deliveries[o].provider # Null,
                 Advance(o, s, r, t), deliveries'[op] # deliveries[op]
          PROVE  deliveries'[op] # Null /\ GuardAllows(deliveries[op], deliveries'[op])
      <3>1. /\ \A q \in Prepared \ {o} : deliveries'[q] = deliveries[q]
            /\ Advanced(deliveries[o], deliveries'[o], s, r, t)
            /\ deliveries'[o] # Null
            /\ deliveries[o].state \in {"ACCEPTED", "ACKNOWLEDGED"}
            /\ deliveries[o].updatedAt =< t
        BY <1>1, <2>5, AdvanceFacts
      <3>2. o = op
        BY <2>0, <2>5, <3>1
      <3>3. deliveries[op].attempts =< deliveries'[op].attempts
        BY <2>0, <3>1, <3>2 DEF Advanced, RowType
      <3> QED
        BY <2>5, <3>1, <3>2, <3>3 DEF GuardAllows, Advanced, CallbackStates
    <2>6. ASSUME NEW p \in Profiles, NEW id \in ProviderIds, NEW r \in Reasons, NEW t \in Times,
                 Cancel(p, id, r, t), deliveries'[op] # deliveries[op]
          PROVE  deliveries'[op] # Null /\ GuardAllows(deliveries[op], deliveries'[op])
      <3>1. PICK o \in Locked(p, id) : Advance(o, "CANCELLED", r, t)
        BY <2>6 DEF Cancel
      <3>2. o \in Prepared /\ deliveries[o].provider # Null
        BY LifecycleAssumption DEF Locked
      <3> QED
        BY <2>5, <2>6, <3>1, <3>2
    <2>7. ASSUME NEW p \in Profiles, NEW input \in CallbackInputs,
                 HandleCallback(p, input), deliveries'[op] # deliveries[op]
          PROVE  deliveries'[op] # Null /\ GuardAllows(deliveries[op], deliveries'[op])
      <3>1. PICK o \in Locked(p, input.provider) : Advance(o, input.state, input.reason, input.at)
        BY <2>7 DEF HandleCallback
      <3>2. o \in Prepared /\ deliveries[o].provider # Null
        BY LifecycleAssumption DEF Locked, CallbackInputs
      <3>3. /\ input.state \in CallbackStates /\ input.reason \in Reasons \cup {Null}
            /\ input.at \in Times
        BY DEF CallbackInputs
      <3> QED
        BY <2>5, <2>7, <3>1, <3>2, <3>3
    <2>8. ASSUME NEW p \in Profiles, NEW o \in Operations \ {op}, NEW t \in Times, Send(p, o, t)
          PROVE  deliveries'[op] = deliveries[op]
      BY <1>1, <2>8 DEF Send, Accept, LifecycleInv, ExchangeIsSound, LifecycleTypeOK
    <2> QED
      BY <1>1, <2>1, <2>2, <2>3, <2>6, <2>7, <2>8 DEF LifecycleNext, lifecycleVars
  <1>2. LifecycleInv /\ [LifecycleNext]_lifecycleVars =>
          [\A op \in Operations :
              deliveries[op] # Null =>
                  /\ deliveries'[op] # Null
                  /\ GuardAllows(deliveries[op], deliveries'[op])]_lifecycleVars
    BY <1>1
  <1> QED
    BY <1>2, LifecycleInductive, PTL DEF LifecycleSpec, GuardNeverRaises

-----------------------------------------------------------------------------
(* EvidenceStore                                                           *)

(* The identity of a download, what a request and a URL look like.         *)
Accesses == Actors \X {"download"} \X Ids \X Keys

EvRequest ==
    [who : Actors, op : {"upload", "complete", "download"}, target : Ids \cup {"event"},
     key : Keys, input : [content : Contents, trace : Traces] \cup {Absent},
     at : {"held", "checked", "inspected", "infected", "judged", "done", "signed", "audited"},
     scan : {"CLEAN", "ERROR", "MALICIOUS"}, until : Nat, signer : Nat]

EvUrl == [id : Ids, access : Accesses, until : Nat, signer : Nat]

(* Well-formed tables; the row declares what its object holds.             *)
EvidenceType ==
    /\ evClock \in Nat
    /\ credential \in Nat
    /\ row \in [Ids -> EvRow \cup {Absent}]
    /\ object \in [Ids -> Contents \cup {Absent}]
    /\ copy \in [Ids -> Contents \cup {Absent}]
    /\ evAudit \in [Ids -> [AuditActions -> Nat]]
    /\ evReq \in [Requests -> EvRequest \cup {Absent}]

(* What a request under way has established, and still holds.              *)
Sound(q, rows, objects, copies, log) ==
    /\ q.op = "upload" => q.input \in [content : Contents, trace : Traces]
    /\ q.op # "upload" => q.target \in Ids /\ rows[q.target] # Absent
    /\ q.at \in {"checked", "inspected", "infected", "judged", "done"} => q.op = "complete"
    /\ q.at \in {"inspected", "infected", "judged"} =>
          objects[q.target] = rows[q.target].declared
    /\ q.at = "infected" => q.scan # "CLEAN"
    /\ q.at = "judged" /\ q.scan = "CLEAN" => objects[q.target] \in Harmless
    /\ q.at = "judged" /\ q.scan # "CLEAN" => copies[q.target] = rows[q.target].declared
    /\ q.at \in {"signed", "audited"} =>
          q.op = "download" /\ rows[q.target].status = "PRESERVED" /\ q.until < q.signer
    /\ q.at = "audited" => <<q.target, Scoped(q)>> \in log

(* A URL that was logged and outlives its own expiry.                      *)
Good(u, log) == u \in EvUrl /\ u.until < u.signer /\ <<u.id, u.access>> \in log

UrlsAreGood ==
    /\ \A x \in evRecord : x.url = {} \/ \E u \in EvUrl : x.url = {u} /\ Good(u, accessLog)
    /\ \A u \in urls : Good(u, accessLog)

(* An item: its object is what was declared, and its verdict is audited.   *)
Judged(i) ==
    /\ object[i] # Absent => row[i] # Absent /\ object[i] = row[i].declared
    /\ row[i] # Absent /\ row[i].status = "PRESERVED" =>
          object[i] = row[i].declared /\ object[i] \in Harmless
    /\ row[i] # Absent /\ row[i].status = "QUARANTINED" =>
          object[i] = row[i].declared /\ copy[i] = row[i].declared
    /\ evAudit[i]["preserved"] =
          (IF row[i] # Absent /\ row[i].status = "PRESERVED" THEN 1 ELSE 0)
    /\ evAudit[i]["quarantined"] =
          (IF row[i] # Absent /\ row[i].status = "QUARANTINED" THEN 1 ELSE 0)

RequestsAreSound ==
    \A r \in Requests : evReq[r] # Absent => Sound(evReq[r], row, object, copy, accessLog)

(* The inductive invariant.                                                *)
EvidenceInv ==
    /\ EvidenceType
    /\ \A i \in Ids : Judged(i)
    /\ RequestsAreSound
    /\ UrlsAreGood

(* What no step takes back.                                                *)
Grows ==
    /\ \A i \in Ids : row[i] # Absent =>
          /\ row'[i] # Absent
          /\ row'[i].declared = row[i].declared
          /\ row[i].status = "PRESERVED" => row'[i].status = "PRESERVED"
          /\ object[i] = row[i].declared => object'[i] = object[i]
          /\ copy[i] = row[i].declared => copy'[i] = copy[i]
    /\ accessLog \subseteq accessLog'

(* So what a request has established stays established.                    *)
LEMMA SoundStays ==
    ASSUME Grows, NEW q \in EvRequest, Sound(q, row, object, copy, accessLog)
    PROVE  Sound(q, row', object', copy', accessLog')
  <1>1. q.op # "upload" => q.target \in Ids /\ row[q.target] # Absent
    BY DEF Sound
  <1>2. q.at \in {"inspected", "infected", "judged", "signed", "audited"} => q.op # "upload"
    BY DEF Sound
  <1> QED
    BY <1>1, <1>2 DEF Grows, Sound

(* Then so do all requests, but the one that moves.                        *)
LEMMA RequestMoves ==
    ASSUME EvidenceInv, Grows, NEW r \in Requests, NEW new \in EvRequest \cup {Absent},
           evReq' = [evReq EXCEPT ![r] = new],
           new # Absent => Sound(new, row', object', copy', accessLog')
    PROVE  RequestsAreSound' /\ evReq' \in [Requests -> EvRequest \cup {Absent}]
  <1>1. evReq' \in [Requests -> EvRequest \cup {Absent}]
    BY DEF EvidenceInv, EvidenceType
  <1>2. ASSUME NEW q \in Requests, evReq'[q] # Absent
        PROVE  Sound(evReq'[q], row', object', copy', accessLog')
    <2>1. CASE q = r
      <3>1. evReq'[q] = new
        BY <2>1 DEF EvidenceInv, EvidenceType
      <3> QED
        BY <1>2, <3>1
    <2>2. CASE q # r
      <3>1. evReq'[q] = evReq[q] /\ evReq[q] \in EvRequest
        BY <1>2, <2>2 DEF EvidenceInv, EvidenceType
      <3>2. Sound(evReq[q], row, object, copy, accessLog)
        BY <1>2, <3>1 DEF EvidenceInv, RequestsAreSound
      <3> QED
        BY <3>1, <3>2, SoundStays
    <2> QED
      BY <2>1, <2>2
  <1> QED
    BY <1>1, <1>2 DEF RequestsAreSound

(* Likewise when none moves.                                               *)
LEMMA RequestsStay ==
    ASSUME EvidenceInv, Grows, evReq' = evReq
    PROVE  RequestsAreSound'
  <1>1. ASSUME NEW q \in Requests, evReq[q] # Absent
        PROVE  Sound(evReq[q], row', object', copy', accessLog')
    <2>1. evReq[q] \in EvRequest /\ Sound(evReq[q], row, object, copy, accessLog)
      BY <1>1 DEF EvidenceInv, EvidenceType, RequestsAreSound
    <2> QED
      BY <2>1, SoundStays
  <1> QED
    BY <1>1 DEF RequestsAreSound

(* URLs stay good while the log grows.                                     *)
LEMMA UrlsStay ==
    ASSUME EvidenceInv, accessLog \subseteq accessLog', evRecord' = evRecord, urls' = urls
    PROVE  UrlsAreGood'
  BY DEF EvidenceInv, UrlsAreGood, Good

(* A request is begun, or answered from a record.                          *)
LEMMA BeginStep ==
    ASSUME EvidenceInv, NEW r \in Requests, NEW p \in Actors, NEW key \in Keys,
           NEW op \in {"upload", "complete", "download"}, NEW target \in Ids \cup {"event"},
           NEW input \in [content : Contents, trace : Traces] \cup {Absent},
           op = "upload" => input \in [content : Contents, trace : Traces],
           op # "upload" => target \in Ids,
           Begin(r, p, op, target, key, input)
    PROVE  EvidenceInv'
  <1> DEFINE new == [who |-> p, op |-> op, target |-> target, key |-> key,
                     input |-> input, at |-> "held", scan |-> "CLEAN", until |-> 0, signer |-> 0]
  <1>1. new \in EvRequest
    BY DEF EvRequest
  <1>2. /\ UNCHANGED <<evClock, credential, row, object, copy, evAudit, evRecord, accessLog>>
        /\ op # "upload" => row[target] # Absent
        /\ \/ evReq' = [evReq EXCEPT ![r] = new] /\ UNCHANGED urls
           \/ evReq' = evReq /\ \E x \in evRecord : urls' = urls \cup x.url
    BY DEF Begin
  <1>3. Sound(new, row', object', copy', accessLog')
    BY <1>2 DEF Sound
  <1>4. Grows
    BY <1>2 DEF Grows
  <1> HIDE DEF new
  <1>5. RequestsAreSound' /\ evReq' \in [Requests -> EvRequest \cup {Absent}]
    BY <1>1, <1>2, <1>3, <1>4, RequestMoves, RequestsStay DEF EvidenceInv, EvidenceType
  <1>6. UrlsAreGood'
    BY <1>2 DEF EvidenceInv, UrlsAreGood
  <1>7. EvidenceType' /\ \A i \in Ids : Judged(i)'
    BY <1>2, <1>5 DEF EvidenceInv, EvidenceType, Judged
  <1> QED
    BY <1>5, <1>6, <1>7 DEF EvidenceInv

(* A step of a request that changes nothing but, perhaps, the copy.        *)
LEMMA RequestStep ==
    ASSUME EvidenceInv, NEW r \in Requests, Check(r) \/ inspect(r) \/ scan(r) \/ quarantine(r)
                                            \/ Sign(r) \/ Fail(r)
    PROVE  EvidenceInv'
  <1> DEFINE old == evReq[r]
             i == old.target
  <1>1. /\ old # Absent
        /\ UNCHANGED <<evClock, credential, row, object, evAudit, evRecord, accessLog, urls>>
        /\ quarantine(r) \/ copy' = copy
    BY DEF Check, inspect, scan, quarantine, Sign, Fail, At
  <1>2. old \in EvRequest /\ Sound(old, row, object, copy, accessLog)
    BY <1>1 DEF EvidenceInv, EvidenceType, RequestsAreSound
  <1>3. quarantine(r) => /\ i \in Ids /\ row[i] # Absent /\ object[i] = row[i].declared
                         /\ row[i] \in EvRow
                         /\ copy' = [copy EXCEPT ![i] = object[i]]
    BY <1>2 DEF quarantine, At, Sound, EvidenceInv, EvidenceType
  <1>4. copy' \in [Ids -> Contents \cup {Absent}]
    BY <1>1, <1>3 DEF EvidenceInv, EvidenceType
  <1>5. \A j \in Ids : row[j] # Absent /\ copy[j] = row[j].declared => copy'[j] = copy[j]
    BY <1>1, <1>3 DEF EvidenceInv, EvidenceType
  <1>6. Grows
    BY <1>1, <1>5 DEF Grows
  <1>7. \A j \in Ids : Judged(j)'
    BY <1>1, <1>5 DEF EvidenceInv, Judged
  <1>8. PICK new \in EvRequest \cup {Absent} :
          /\ evReq' = [evReq EXCEPT ![r] = new]
          /\ new # Absent => Sound(new, row', object', copy', accessLog')
    <2>1. CASE Fail(r)
      BY <2>1 DEF Fail, Leave
    <2>2. CASE Check(r)
      <3> DEFINE new == [old EXCEPT !.at = "checked"]
      <3>1. evReq' = [evReq EXCEPT ![r] = new] /\ old.op = "complete"
        BY <2>2 DEF Check, EvidenceInv, EvidenceType
      <3>2. new \in EvRequest
        BY <1>2 DEF EvRequest
      <3>3. Sound(new, row', object', copy', accessLog')
        BY <1>1, <1>2, <3>1 DEF Sound, EvRequest
      <3> QED
        BY <3>1, <3>2, <3>3
    <2>3. CASE inspect(r)
      <3> DEFINE new == [old EXCEPT !.at = "inspected"]
      <3>1. /\ evReq' = [evReq EXCEPT ![r] = new] /\ old.at = "checked"
            /\ object[i] = row[i].declared
        BY <2>3 DEF inspect, At, EvidenceInv, EvidenceType
      <3>2. new \in EvRequest
        BY <1>2 DEF EvRequest
      <3>3. Sound(new, row', object', copy', accessLog')
        BY <1>1, <1>2, <3>1 DEF Sound, EvRequest
      <3> QED
        BY <3>1, <3>2, <3>3
    <2>4. CASE scan(r)
      <3>1. PICK outcome \in Outcomes(object[i]) :
               evReq' = [evReq EXCEPT ![r].scan = outcome,
                           ![r].at = IF outcome = "CLEAN" THEN "judged" ELSE "infected"]
        BY <2>4 DEF scan
      <3>2. outcome \in {"CLEAN", "ERROR", "MALICIOUS"}
            /\ (outcome = "CLEAN" => object[i] \in Harmless)
        BY DEF Outcomes
      <3> DEFINE at == IF outcome = "CLEAN" THEN "judged" ELSE "infected"
                 new == [old EXCEPT !.scan = outcome, !.at = at]
      <3>3. evReq' = [evReq EXCEPT ![r] = new] /\ old.at = "inspected"
        BY <2>4, <3>1 DEF scan, At, EvidenceInv, EvidenceType
      <3>4. at \in {"judged", "infected"} /\ (at = "judged" <=> outcome = "CLEAN")
        OBVIOUS
      <3> HIDE DEF at
      <3>5. new \in EvRequest
        BY <1>2, <3>2, <3>4 DEF EvRequest
      <3>6. /\ new.at = at /\ new.scan = outcome /\ new.op = old.op /\ new.target = i
            /\ new.input = old.input
        BY <1>2 DEF EvRequest
      <3> HIDE DEF new
      <3>7. Sound(new, row', object', copy', accessLog')
        BY <1>1, <1>2, <3>2, <3>3, <3>4, <3>6 DEF Sound
      <3> QED
        BY <3>3, <3>5, <3>7
    <2>5. CASE quarantine(r)
      <3> DEFINE new == [old EXCEPT !.at = "judged"]
      <3>1. evReq' = [evReq EXCEPT ![r] = new] /\ old.at = "infected"
        BY <2>5 DEF quarantine, At, EvidenceInv, EvidenceType
      <3>2. new \in EvRequest
        BY <1>2 DEF EvRequest
      <3>3. copy'[i] = row[i].declared
        BY <1>3, <2>5 DEF EvidenceInv, EvidenceType
      <3>4. /\ new.at = "judged" /\ new.scan = old.scan /\ new.op = old.op /\ new.target = i
            /\ new.input = old.input
        BY <1>2 DEF EvRequest
      <3> HIDE DEF new
      <3>5. Sound(new, row', object', copy', accessLog')
        BY <1>1, <1>2, <1>3, <2>5, <3>1, <3>3, <3>4 DEF Sound
      <3> QED
        BY <3>1, <3>2, <3>5
    <2>6. CASE Sign(r)
      <3> DEFINE new == [old EXCEPT !.at = "signed", !.until = evClock + DownloadTtl,
                                    !.signer = credential]
      <3>1. /\ evReq' = [evReq EXCEPT ![r] = new] /\ old.op = "download"
            /\ row[i].status = "PRESERVED" /\ credential > (evClock + DownloadTtl) + Margin
        BY <2>6 DEF Sign, adapterFor, EvidenceInv, EvidenceType
      <3>2. evClock + DownloadTtl \in Nat /\ credential \in Nat
            /\ evClock + DownloadTtl < credential
        BY <3>1, EvidenceAssumption DEF EvidenceInv, EvidenceType
      <3>3. new \in EvRequest
        BY <1>2, <3>2 DEF EvRequest
      <3>4. /\ new.at = "signed" /\ new.until < new.signer /\ new.op = old.op /\ new.target = i
            /\ new.input = old.input
        BY <1>2, <3>2 DEF EvRequest
      <3> HIDE DEF new
      <3>5. Sound(new, row', object', copy', accessLog')
        BY <1>1, <1>2, <3>1, <3>4 DEF Sound
      <3> QED
        BY <3>1, <3>3, <3>5
    <2> QED
      BY <2>1, <2>2, <2>3, <2>4, <2>5, <2>6
  <1>9. RequestsAreSound' /\ evReq' \in [Requests -> EvRequest \cup {Absent}]
    BY <1>6, <1>8, RequestMoves
  <1>10. UrlsAreGood'
    BY <1>1, UrlsStay
  <1>11. EvidenceType'
    BY <1>1, <1>4, <1>9 DEF EvidenceInv, EvidenceType
  <1> QED
    BY <1>7, <1>9, <1>10, <1>11 DEF EvidenceInv

(* The facts about a request that moves.                                   *)
LEMMA RequestFacts ==
    ASSUME EvidenceInv, NEW r \in Requests, evReq[r] # Absent
    PROVE  evReq[r] \in EvRequest /\ Sound(evReq[r], row, object, copy, accessLog)
  BY DEF EvidenceInv, EvidenceType, RequestsAreSound

(* An answer ends the request and keeps the URLs good.                     *)
LEMMA AnswerStep ==
    ASSUME EvidenceInv, Grows, NEW r \in Requests, NEW url, Answer(r, url),
           url = {} \/ \E u \in EvUrl : url = {u} /\ Good(u, accessLog')
    PROVE  RequestsAreSound' /\ UrlsAreGood' /\ evReq' \in [Requests -> EvRequest \cup {Absent}]
  <1>1. RequestsAreSound' /\ evReq' \in [Requests -> EvRequest \cup {Absent}]
    BY RequestMoves DEF Answer, Leave
  <1>2. \A u : Good(u, accessLog) => Good(u, accessLog')
    BY DEF Good, Grows
  <1>3. \A u \in urls' : Good(u, accessLog')
    BY <1>2 DEF EvidenceInv, UrlsAreGood, Answer
  <1>4. \A x \in evRecord' : x.url = {} \/ \E u \in EvUrl : x.url = {u} /\ Good(u, accessLog')
    BY <1>2 DEF EvidenceInv, UrlsAreGood, Answer
  <1> QED
    BY <1>1, <1>3, <1>4 DEF UrlsAreGood

(* One more entry of an action in the audit of an item.                    *)
LEMMA LoggedOnce ==
    ASSUME EvidenceInv, NEW i \in Ids, NEW action \in AuditActions, Logged(i, action)
    PROVE  /\ evAudit' \in [Ids -> [AuditActions -> Nat]]
           /\ evAudit'[i][action] = evAudit[i][action] + 1
           /\ \A a \in AuditActions \ {action} : evAudit'[i][a] = evAudit[i][a]
           /\ \A j \in Ids \ {i} : evAudit'[j] = evAudit[j]
  <1>1. evAudit \in [Ids -> [AuditActions -> Nat]] /\ evAudit[i][action] + 1 \in Nat
    BY DEF EvidenceInv, EvidenceType
  <1> QED
    BY <1>1 DEF Logged

(* The intent: a row that is pending, with nothing in its object.          *)
LEMMA CreateStep ==
    ASSUME EvidenceInv, NEW r \in Requests, NEW i \in Ids, createUploadIntent(r, i)
    PROVE  EvidenceInv'
  <1> DEFINE new == [declared |-> evReq[r].input.content, status |-> "PENDING_UPLOAD",
                     expires |-> evClock + UploadTtl]
  <1>1. /\ row[i] = Absent /\ row' = [row EXCEPT ![i] = new] /\ Answer(r, {})
        /\ UNCHANGED <<evClock, credential, object, copy, accessLog>>
        /\ Logged(i, "upload_intent_created") /\ evReq[r] # Absent /\ evReq[r].op = "upload"
    BY DEF createUploadIntent, At
  <1>2. evReq[r].input.content \in Contents
    BY <1>1, RequestFacts DEF Sound
  <1>3. new \in EvRow /\ new # Absent /\ new.status = "PENDING_UPLOAD"
    BY <1>2, EvidenceAssumption DEF EvRow, EvidenceInv, EvidenceType
  <1> HIDE DEF new
  <1>4. row'[i] = new /\ \A j \in Ids \ {i} : row'[j] = row[j]
    BY <1>1 DEF EvidenceInv, EvidenceType
  <1>5. Grows
    BY <1>1, <1>4 DEF Grows
  <1>6. "upload_intent_created" \in AuditActions /\ {"preserved", "quarantined"} \subseteq AuditActions
    BY DEF AuditActions
  <1>7. /\ evAudit' \in [Ids -> [AuditActions -> Nat]]
        /\ \A j \in Ids : /\ evAudit'[j]["preserved"] = evAudit[j]["preserved"]
                          /\ evAudit'[j]["quarantined"] = evAudit[j]["quarantined"]
    BY <1>1, <1>6, LoggedOnce
  <1>8. ASSUME NEW j \in Ids
        PROVE  Judged(j)'
    <2>1. CASE j = i
      <3>1. object[i] = Absent /\ evAudit[i]["preserved"] = 0 /\ evAudit[i]["quarantined"] = 0
        BY <1>1 DEF EvidenceInv, Judged
      <3> QED
        BY <1>1, <1>3, <1>4, <1>7, <2>1, <3>1 DEF Judged
    <2>2. CASE j # i
      BY <1>1, <1>4, <1>7, <2>2 DEF EvidenceInv, Judged
    <2> QED
      BY <2>1, <2>2
  <1>9. RequestsAreSound' /\ UrlsAreGood' /\ evReq' \in [Requests -> EvRequest \cup {Absent}]
    BY <1>1, <1>5, AnswerStep
  <1>10. EvidenceType'
    BY <1>1, <1>3, <1>7, <1>9 DEF EvidenceInv, EvidenceType
  <1> QED
    BY <1>8, <1>9, <1>10 DEF EvidenceInv

(* The client writes what was declared, so nothing of what was written.    *)
LEMMA PutStep ==
    ASSUME EvidenceInv, NEW i \in Ids, NEW c \in Contents, Put(i, c)
    PROVE  EvidenceInv'
  <1>1. /\ row[i] # Absent /\ c = row[i].declared /\ object[i] # c
        /\ object' = [object EXCEPT ![i] = c]
        /\ UNCHANGED <<evClock, credential, row, copy, evAudit, evReq, evReserved, evRecord,
                       accessLog, urls>>
    BY DEF Put, Signed
  <1>2. object'[i] = c /\ \A j \in Ids \ {i} : object'[j] = object[j]
    BY <1>1 DEF EvidenceInv, EvidenceType
  <1>3. Grows
    BY <1>1, <1>2 DEF Grows
  <1>4. \A j \in Ids : Judged(j)'
    BY <1>1, <1>2 DEF EvidenceInv, Judged
  <1>5. EvidenceType'
    BY <1>1 DEF EvidenceInv, EvidenceType
  <1> QED
    BY <1>1, <1>3, <1>4, <1>5, RequestsStay, UrlsStay DEF EvidenceInv

(* The verdict: on an item that has none, by a request that judged what    *)
(* the item still holds.                                                   *)
LEMMA TransitionStep ==
    ASSUME EvidenceInv, NEW r \in Requests, transition(r)
    PROVE  EvidenceInv'
  <1> DEFINE old == evReq[r]
             i == old.target
             clean == old.scan = "CLEAN"
             verdict == IF clean THEN "PRESERVED" ELSE "QUARANTINED"
             action == IF clean THEN "preserved" ELSE "quarantined"
             new == [old EXCEPT !.at = "done"]
  <1>1. /\ old # Absent /\ old.at = "judged" /\ row[i].status = "PENDING_UPLOAD"
        /\ row' = [row EXCEPT ![i].status = verdict] /\ Logged(i, action)
        /\ UNCHANGED <<evClock, credential, object, copy, evReserved, evRecord, accessLog, urls>>
    BY DEF transition, At, Changeable
  <1>2. old \in EvRequest /\ Sound(old, row, object, copy, accessLog)
    BY <1>1, RequestFacts
  <1>3. i \in Ids /\ row[i] # Absent /\ object[i] = row[i].declared
        /\ (clean => object[i] \in Harmless) /\ (~ clean => copy[i] = row[i].declared)
    BY <1>1, <1>2 DEF Sound
  <1>4. row[i] \in EvRow
    BY <1>3 DEF EvidenceInv, EvidenceType
  <1>5. verdict \in {"PRESERVED", "QUARANTINED"} /\ (verdict = "PRESERVED" <=> clean)
    BY Zenon
  <1>6. /\ row'[i].status = verdict /\ row'[i].declared = row[i].declared
        /\ row'[i] \in EvRow /\ row'[i] # Absent
        /\ \A j \in Ids \ {i} : row'[j] = row[j]
        /\ row' \in [Ids -> EvRow \cup {Absent}]
    BY <1>1, <1>3, <1>4, <1>5, EvidenceAssumption DEF EvRow, EvidenceInv, EvidenceType
  <1>7. Grows
    BY <1>1, <1>6 DEF Grows
  <1>8. /\ action \in AuditActions
        /\ {"preserved", "quarantined"} \subseteq AuditActions
    BY DEF AuditActions
  <1>9. /\ evAudit' \in [Ids -> [AuditActions -> Nat]]
        /\ evAudit'[i][action] = evAudit[i][action] + 1
        /\ \A a \in AuditActions \ {action} : evAudit'[i][a] = evAudit[i][a]
        /\ \A j \in Ids \ {i} : evAudit'[j] = evAudit[j]
    BY <1>1, <1>3, <1>8, LoggedOnce
  <1>10. ASSUME NEW j \in Ids
         PROVE  Judged(j)'
    <2>1. CASE j = i
      <3>1. evAudit[i]["preserved"] = 0 /\ evAudit[i]["quarantined"] = 0
        BY <1>1, <1>3 DEF EvidenceInv, Judged
      <3>2. CASE clean
        BY <1>1, <1>3, <1>5, <1>6, <1>8, <1>9, <2>1, <3>1, <3>2 DEF Judged
      <3>3. CASE ~ clean
        BY <1>1, <1>3, <1>5, <1>6, <1>8, <1>9, <2>1, <3>1, <3>3 DEF Judged
      <3> QED
        BY <3>2, <3>3
    <2>2. CASE j # i
      BY <1>1, <1>6, <1>9, <2>2 DEF EvidenceInv, Judged
    <2> QED
      BY <2>1, <2>2
  <1>11. RequestsAreSound' /\ evReq' \in [Requests -> EvRequest \cup {Absent}]
    <2>1. evReq' = [evReq EXCEPT ![r] = new]
      BY DEF transition, EvidenceInv, EvidenceType
    <2>2. new \in EvRequest /\ new.at = "done" /\ new.op = old.op /\ new.target = i
      BY <1>2 DEF EvRequest
    <2> HIDE DEF new
    <2>3. Sound(new, row', object', copy', accessLog')
      BY <1>1, <1>2, <1>3, <1>6, <2>2 DEF Sound
    <2> QED
      BY <1>7, <2>1, <2>2, <2>3, RequestMoves
  <1>12. UrlsAreGood'
    BY <1>1, UrlsStay
  <1>13. EvidenceType'
    BY <1>1, <1>6, <1>9, <1>11 DEF EvidenceInv, EvidenceType
  <1> QED
    BY <1>10, <1>11, <1>12, <1>13 DEF EvidenceInv

(* The answer of a completion and of a download.                           *)
LEMMA AnsweredStep ==
    ASSUME EvidenceInv, NEW r \in Requests, Completed(r) \/ Downloadable(r)
    PROVE  EvidenceInv'
  <1>1. /\ evReq[r] # Absent
        /\ UNCHANGED <<evClock, credential, row, object, copy, evAudit, accessLog>>
    BY DEF Completed, Downloadable, At
  <1>2. Grows
    BY <1>1 DEF Grows
  <1>3. CASE Completed(r)
    BY <1>2, <1>3, AnswerStep, <1>1 DEF Completed, EvidenceInv, EvidenceType, Judged
  <1>4. CASE Downloadable(r)
    <2>1. evReq[r] \in EvRequest /\ Sound(evReq[r], row, object, copy, accessLog)
          /\ evReq[r].at = "audited"
      BY <1>1, <1>4, RequestFacts DEF Downloadable, At
    <2>2. Url(r) \in EvUrl /\ Good(Url(r), accessLog')
      <3>1. evReq[r].target \in Ids /\ evReq[r].op = "download"
        BY <2>1 DEF Sound
      <3>2. Scoped(evReq[r]) \in Accesses
        BY <2>1, <3>1 DEF Scoped, Accesses, EvRequest
      <3>3. Url(r) \in EvUrl
        BY <2>1, <3>1, <3>2 DEF Url, EvUrl, EvRequest
      <3> QED
        BY <1>1, <2>1, <3>3 DEF Good, Sound, Url
    <2>3. Answer(r, {Url(r)})
      BY <1>4 DEF Downloadable
    <2>4. RequestsAreSound' /\ UrlsAreGood' /\ evReq' \in [Requests -> EvRequest \cup {Absent}]
      BY <1>2, <2>2, <2>3, AnswerStep
    <2> QED
      BY <1>1, <2>4 DEF EvidenceInv, EvidenceType, Judged
  <1> QED
    BY <1>3, <1>4

(* The access is logged before the URL is answered.                        *)
LEMMA AuditStep ==
    ASSUME EvidenceInv, NEW r \in Requests, appendAccessAudit(r)
    PROVE  EvidenceInv'
  <1> DEFINE old == evReq[r]
             new == [old EXCEPT !.at = "audited"]
  <1>1. /\ old # Absent /\ old.at = "signed" /\ evReq' = [evReq EXCEPT ![r] = new]
        /\ Logged(old.target, "download_intent_created")
        /\ accessLog' = accessLog \cup {<<old.target, Scoped(old)>>}
        /\ UNCHANGED <<evClock, credential, row, object, copy, evRecord, urls>>
    BY DEF appendAccessAudit, At, EvidenceInv, EvidenceType
  <1>2. old \in EvRequest /\ Sound(old, row, object, copy, accessLog)
    BY <1>1, RequestFacts
  <1>3. old.op = "download" /\ old.target \in Ids
    BY <1>1, <1>2 DEF Sound
  <1>4. /\ new \in EvRequest /\ new.at = "audited" /\ new.op = old.op /\ new.target = old.target
        /\ new.until = old.until /\ new.signer = old.signer /\ Scoped(new) = Scoped(old)
    BY <1>2 DEF EvRequest, Scoped
  <1> HIDE DEF new
  <1>5. Grows
    BY <1>1 DEF Grows
  <1>6. Sound(new, row', object', copy', accessLog')
    BY <1>1, <1>2, <1>3, <1>4 DEF Sound
  <1>7. RequestsAreSound' /\ evReq' \in [Requests -> EvRequest \cup {Absent}]
    BY <1>1, <1>4, <1>5, <1>6, RequestMoves
  <1>8. {"download_intent_created", "preserved", "quarantined"} \subseteq AuditActions
    BY DEF AuditActions
  <1>9. /\ evAudit' \in [Ids -> [AuditActions -> Nat]]
        /\ \A j \in Ids : /\ evAudit'[j]["preserved"] = evAudit[j]["preserved"]
                          /\ evAudit'[j]["quarantined"] = evAudit[j]["quarantined"]
    BY <1>1, <1>3, <1>8, LoggedOnce
  <1>10. \A j \in Ids : Judged(j)'
    BY <1>1, <1>9 DEF EvidenceInv, Judged
  <1>11. UrlsAreGood'
    BY <1>1, UrlsStay
  <1>12. EvidenceType'
    BY <1>1, <1>7, <1>9 DEF EvidenceInv, EvidenceType
  <1> QED
    BY <1>7, <1>10, <1>11, <1>12 DEF EvidenceInv

(* Time passes, credentials rotate.                                        *)
LEMMA TimeStep ==
    ASSUME EvidenceInv, Rotate \/ EvTick
    PROVE  EvidenceInv'
  <1>1. UNCHANGED <<row, object, copy, evAudit, evReq, evRecord, accessLog, urls>>
    BY DEF Rotate, EvTick
  <1>2. evClock' \in Nat /\ credential' \in Nat
    BY EvidenceAssumption DEF Rotate, EvTick, EvidenceInv, EvidenceType
  <1> QED
    BY <1>1, <1>2 DEF EvidenceInv, EvidenceType, Judged, RequestsAreSound, UrlsAreGood

(* The store begins empty.                                                 *)
LEMMA EvidenceInitially == EvidenceInit => EvidenceInv
  <1> SUFFICES ASSUME EvidenceInit PROVE EvidenceInv
    OBVIOUS
  <1>1. EvidenceType
    BY EvidenceAssumption DEF EvidenceInit, EvidenceType
  <1>2. {"preserved", "quarantined"} \subseteq AuditActions
    BY DEF AuditActions
  <1> QED
    BY <1>1, <1>2 DEF EvidenceInit, EvidenceInv, Judged, RequestsAreSound, UrlsAreGood

(* The steps of a request that has begun, and what begins one.             *)
Begins(r) ==
    \E p \in Actors, k \in Keys :
       \/ \E x \in Inputs("upload") : Begin(r, p, "upload", "event", k, x)
       \/ \E i \in Ids, op \in {"complete", "download"} : Begin(r, p, op, i, k, Absent)

(* Whatever begins a request.                                              *)
LEMMA BeginsStep ==
    ASSUME EvidenceInv, NEW r \in Requests, Begins(r)
    PROVE  EvidenceInv'
  <1>1. PICK p \in Actors, k \in Keys :
          \/ \E x \in Inputs("upload") : Begin(r, p, "upload", "event", k, x)
          \/ \E i \in Ids, op \in {"complete", "download"} : Begin(r, p, op, i, k, Absent)
    BY DEF Begins
  <1>2. CASE \E x \in Inputs("upload") : Begin(r, p, "upload", "event", k, x)
    <2>1. PICK x \in [content : Contents, trace : Traces] : Begin(r, p, "upload", "event", k, x)
      BY <1>2 DEF Inputs
    <2> QED
      BY <2>1, BeginStep
  <1>3. CASE \E i \in Ids, op \in {"complete", "download"} : Begin(r, p, op, i, k, Absent)
    BY <1>3, BeginStep
  <1> QED
    BY <1>1, <1>2, <1>3

(* Every step preserves the invariant.                                     *)
LEMMA EvidenceStep == EvidenceInv /\ [EvidenceNext]_evVars => EvidenceInv'
  <1> SUFFICES ASSUME EvidenceInv, [EvidenceNext]_evVars PROVE EvidenceInv'
    OBVIOUS
  <1>1. CASE UNCHANGED evVars
    BY <1>1 DEF evVars, EvidenceInv, EvidenceType, Judged, RequestsAreSound, UrlsAreGood
  <1>2. ASSUME NEW r \in Requests,
               \/ Check(r) \/ inspect(r) \/ scan(r) \/ quarantine(r) \/ Sign(r) \/ Fail(r)
        PROVE  EvidenceInv'
    BY <1>2, RequestStep
  <1> QED
    BY <1>1, <1>2, BeginsStep, CreateStep, PutStep, TransitionStep, AnsweredStep, AuditStep,
       TimeStep
    DEF EvidenceNext, Begins

(* The invariant holds of every behaviour.                                 *)
LEMMA EvidenceInvHolds == EvidenceSpec => []EvidenceInv
  BY EvidenceInitially, EvidenceStep, PTL DEF EvidenceSpec

(* For any requests, contents and credentials: one verdict for an item, on *)
(* the object that is there, and URLs that outlive their own expiry        *)
(* (completeUpload, createDownload).                                       *)
THEOREM SafeEvidence == EvidenceSpec => []EvidenceIsSafe
  <1>1. ASSUME EvidenceInv
        PROVE  EvidenceIsSafe
    <2>1. PreservedIsScanned /\ OneVerdict /\ QuarantineKeeps
      BY <1>1 DEF EvidenceInv, Judged, PreservedIsScanned, OneVerdict, QuarantineKeeps
    <2>2. UrlOutlived
      <3> SUFFICES ASSUME NEW u \in urls, evClock =< u.until
                   PROVE  evClock < u.signer
        BY DEF UrlOutlived
      <3>1. u.until \in Nat /\ u.signer \in Nat /\ u.until < u.signer /\ evClock \in Nat
        BY <1>1 DEF EvidenceInv, UrlsAreGood, Good, EvUrl, EvidenceType
      <3> QED
        BY <3>1
    <2> QED
      BY <2>1, <2>2 DEF EvidenceIsSafe
  <1> QED
    BY <1>1, EvidenceInvHolds, PTL

----------------------------------------------------------------------------
(* The refinement of EvidenceCustody.  What the store has handed out.      *)

Served(handed) == {<<u.id, u.access>> : u \in handed}

(* A step that changes neither rows nor log, and hands out at most one URL *)
(* that was logged, is an access served or no step at all.                 *)
LEMMA ServesOrStutters ==
    ASSUME row' = row, accessLog' = accessLog, NEW url, urls' = urls \cup url,
           url = {} \/ \E u \in EvUrl : url = {u} /\ Good(u, accessLog)
    PROVE  [Custody!CustodyNext]_Custody!custodyVars
  <1>1. CASE url = {}
    BY <1>1 DEF Custody!custodyVars
  <1>2. CASE url # {}
    <2>1. PICK u \in EvUrl : url = {u} /\ Good(u, accessLog)
      BY <1>2
    <2>2. <<u.id, u.access>> \in accessLog /\ u.id \in Ids /\ u.access \in Accesses
      BY <2>1 DEF Good, EvUrl
    <2>3. Served(urls)' = Served(urls) \cup {<<u.id, u.access>>}
      BY <2>1 DEF Served
    <2>4. Custody!Serve(u.id, u.access)
      BY <2>2, <2>3 DEF Custody!Serve, Served
    <2> QED
      BY <2>2, <2>4 DEF Custody!CustodyNext, Accesses
  <1> QED
    BY <1>1, <1>2

(* An intent takes the item into custody.                                  *)
LEMMA CreationTakesIn ==
    ASSUME EvidenceInv, NEW r \in Requests, NEW i \in Ids, createUploadIntent(r, i)
    PROVE  Custody!CustodyNext
  <1> DEFINE new == [declared |-> evReq[r].input.content, status |-> "PENDING_UPLOAD",
                     expires |-> evClock + UploadTtl]
  <1>1. /\ row[i] = Absent /\ row' = [row EXCEPT ![i] = new] /\ accessLog' = accessLog
        /\ urls' = urls /\ evReq[r] # Absent /\ evReq[r].op = "upload"
    BY DEF createUploadIntent, At, Answer
  <1>2. PICK c \in Contents : c = evReq[r].input.content
    BY <1>1, RequestFacts DEF Sound
  <1>3. new # Absent /\ new.status = "PENDING_UPLOAD" /\ new.declared = c
    <2>1. new \in EvRow
      BY <1>2, EvidenceAssumption DEF EvRow, EvidenceInv, EvidenceType
    <2>2. new.status = "PENDING_UPLOAD" /\ new.declared = c
      BY <1>2
    <2> HIDE DEF new
    <2> QED
      BY <2>1, <2>2, EvidenceAssumption
  <1> HIDE DEF new
  <1>4. row'[i] = new /\ \A j \in Ids \ {i} : row'[j] = row[j]
    BY <1>1 DEF EvidenceInv, EvidenceType
  <1>5. Custody!TakeIn(i, c)
    <2> DEFINE holds(rows) == [j \in Ids |-> IF rows[j] = Absent THEN Absent ELSE rows[j].declared]
               verdict(rows) == [j \in Ids |-> IF rows[j] = Absent THEN Absent ELSE rows[j].status]
    <2>1. holds(row)[i] = Absent
      BY <1>1
    <2>2. holds(row') = [holds(row) EXCEPT ![i] = c]
      BY <1>3, <1>4
    <2>3. verdict(row') = [verdict(row) EXCEPT ![i] = "PENDING_UPLOAD"]
      BY <1>3, <1>4
    <2> QED
      BY <1>1, <2>1, <2>2, <2>3 DEF Custody!TakeIn
  <1>6. \E d \in Contents : Custody!TakeIn(i, d)
    BY <1>2, <1>5
  <1> QED
    BY <1>6 DEF Custody!CustodyNext

(* The verdict is the one of the custody.                                  *)
LEMMA TransitionJudges ==
    ASSUME EvidenceInv, NEW r \in Requests, transition(r)
    PROVE  Custody!CustodyNext
  <1> DEFINE old == evReq[r]
             i == old.target
             verdict == IF old.scan = "CLEAN" THEN "PRESERVED" ELSE "QUARANTINED"
  <1>1. /\ old # Absent /\ old.at = "judged" /\ row[i].status = "PENDING_UPLOAD"
        /\ row' = [row EXCEPT ![i].status = verdict] /\ accessLog' = accessLog /\ urls' = urls
    BY DEF transition, At, Changeable
  <1>2. /\ i \in Ids /\ row[i] # Absent /\ object[i] = row[i].declared
        /\ old.scan = "CLEAN" => object[i] \in Harmless
    BY <1>1, RequestFacts DEF Sound
  <1>3. PICK v \in {"PRESERVED", "QUARANTINED"} :
          v = verdict /\ (v = "PRESERVED" => row[i].declared \in Harmless)
    BY <1>2
  <1> HIDE DEF verdict
  <1>4. row[i] \in EvRow
    BY <1>2 DEF EvidenceInv, EvidenceType
  <1>5. /\ row'[i].status = v /\ row'[i].declared = row[i].declared /\ row'[i] # Absent
        /\ \A j \in Ids \ {i} : row'[j] = row[j]
    BY <1>1, <1>2, <1>3, <1>4, EvidenceAssumption DEF EvRow, EvidenceInv, EvidenceType
  <1>6. Custody!Judge(i, v)
    BY <1>1, <1>2, <1>3, <1>5 DEF Custody!Judge
  <1>7. \E w \in {"PRESERVED", "QUARANTINED"} : Custody!Judge(i, w)
    BY <1>3, <1>6
  <1> QED
    BY <1>2, <1>7 DEF Custody!CustodyNext

(* The audit notes the access.                                             *)
LEMMA AuditNotes ==
    ASSUME EvidenceInv, NEW r \in Requests, appendAccessAudit(r)
    PROVE  Custody!CustodyNext
  <1> DEFINE old == evReq[r]
  <1>1. /\ old # Absent /\ old.at = "signed" /\ row' = row /\ urls' = urls
        /\ accessLog' = accessLog \cup {<<old.target, Scoped(old)>>}
    BY DEF appendAccessAudit, At
  <1>2. old \in EvRequest /\ Sound(old, row, object, copy, accessLog)
    BY <1>1, RequestFacts
  <1>3. /\ old.op = "download" /\ old.target \in Ids /\ row[old.target] # Absent
        /\ row[old.target].status = "PRESERVED"
    BY <1>1, <1>2 DEF Sound
  <1>4. Scoped(old) \in Accesses
    BY <1>2, <1>3 DEF Scoped, Accesses, EvRequest
  <1>5. Custody!Note(old.target, Scoped(old))
    BY <1>1, <1>3 DEF Custody!Note
  <1> QED
    BY <1>3, <1>4, <1>5 DEF Custody!CustodyNext, Accesses

(* What is answered, also from a record, was noted.                        *)
LEMMA AnswersServe ==
    ASSUME EvidenceInv, NEW r \in Requests, Begins(r) \/ Completed(r) \/ Downloadable(r)
    PROVE  [Custody!CustodyNext]_Custody!custodyVars
  <1>1. CASE Begins(r)
    <2>1. PICK p \in Actors, k \in Keys :
            \/ \E x \in Inputs("upload") : Begin(r, p, "upload", "event", k, x)
            \/ \E i \in Ids, op \in {"complete", "download"} : Begin(r, p, op, i, k, Absent)
      BY <1>1 DEF Begins
    <2>2. PICK op, target, input : Begin(r, p, op, target, k, input)
      BY <2>1
    <2>3. /\ row' = row /\ accessLog' = accessLog
          /\ urls' = urls \/ \E x \in evRecord : urls' = urls \cup x.url
      BY <2>2 DEF Begin
    <2>4. CASE urls' = urls
      BY <2>3, <2>4 DEF Custody!custodyVars
    <2>5. CASE urls' # urls
      BY <2>3, <2>5, ServesOrStutters DEF EvidenceInv, UrlsAreGood
    <2> QED
      BY <2>4, <2>5
  <1>2. Completed(r) \/ Downloadable(r) => row' = row /\ accessLog' = accessLog
    BY DEF Completed, Downloadable
  <1>3. CASE Completed(r)
    BY <1>2, <1>3, ServesOrStutters DEF Completed, Answer
  <1>4. CASE Downloadable(r)
    <2>1. /\ evReq[r] \in EvRequest /\ Sound(evReq[r], row, object, copy, accessLog)
          /\ evReq[r].at = "audited"
      BY <1>4, RequestFacts DEF Downloadable, At
    <2>2. evReq[r].target \in Ids /\ evReq[r].op = "download"
      BY <2>1 DEF Sound
    <2>3. Scoped(evReq[r]) \in Accesses
      BY <2>1, <2>2 DEF Scoped, Accesses, EvRequest
    <2>4. Url(r) \in EvUrl
      BY <2>1, <2>2, <2>3 DEF Url, EvUrl, EvRequest
    <2>5. Good(Url(r), accessLog)
      BY <2>1, <2>4 DEF Good, Sound, Url
    <2> QED
      BY <1>2, <1>4, <2>4, <2>5, ServesOrStutters DEF Downloadable, Answer
  <1> QED
    BY <1>1, <1>3, <1>4

(* Every step of the store is one of its custody, or none.                 *)
LEMMA CustodyStep ==
    EvidenceInv /\ [EvidenceNext]_evVars => [Custody!CustodyNext]_Custody!custodyVars
  <1> SUFFICES ASSUME EvidenceInv, [EvidenceNext]_evVars
               PROVE  [Custody!CustodyNext]_Custody!custodyVars
    OBVIOUS
  <1>1. ASSUME UNCHANGED <<row, accessLog, urls>>
        PROVE  UNCHANGED Custody!custodyVars
    BY <1>1 DEF Custody!custodyVars
  <1>2. CASE UNCHANGED evVars
    BY <1>1, <1>2 DEF evVars
  <1>3. ASSUME NEW r \in Requests,
               \/ Check(r) \/ inspect(r) \/ scan(r) \/ quarantine(r) \/ Sign(r) \/ Fail(r)
        PROVE  UNCHANGED Custody!custodyVars
    BY <1>1, <1>3 DEF Check, inspect, scan, quarantine, Sign, Fail
  <1>4. ASSUME NEW i \in Ids, NEW c \in Contents, Put(i, c)
        PROVE  UNCHANGED Custody!custodyVars
    BY <1>1, <1>4 DEF Put
  <1>5. Rotate \/ EvTick => UNCHANGED Custody!custodyVars
    BY <1>1 DEF Rotate, EvTick
  <1> QED
    BY <1>2, <1>3, <1>4, <1>5, CreationTakesIn, TransitionJudges, AuditNotes, AnswersServe
    DEF EvidenceNext, Begins

(* For any constants, the store implements the custody of evidence:        *)
(* nothing harmful is preserved, no verdict changes, and no access is      *)
(* granted that is not in the audit log (createDownload).                  *)
THEOREM StoreImplementsCustody == EvidenceSpec => ImplementsCustody
  <1>1. EvidenceInit => Custody!CustodyInit
    BY DEF EvidenceInit, Custody!CustodyInit
  <1> QED
    BY <1>1, CustodyStep, EvidenceInvHolds, PTL
    DEF EvidenceSpec, ImplementsCustody, Custody!CustodySpec
=============================================================================
