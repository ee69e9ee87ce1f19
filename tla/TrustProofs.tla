------------------------------ MODULE TrustProofs ------------------------------
(***************************************************************************)
(* Proofs about what the other parts trust: the registry of devices and    *)
(* notices, the verification of tokens, the start and the shutdown of the  *)
(* processes and the review of the cloud staging.  Each section has the    *)
(* inductive invariant of one module, a lemma for every step or kind of    *)
(* step that preserves it, and the theorems that follow.                   *)
(***************************************************************************)
EXTENDS MobileRegistry, TokenVerification, ServiceRuntime, StagingReview,
        WellFoundedInduction, TLAPS

----------------------------------------------------------------------------
(* MobileRegistry                                                          *)

(* Well-formed tables.                                                     *)
RegistryType ==
    /\ regClock \in Nat
    /\ operation \in [Principals -> RegKey \cup {Missing}]
    /\ \A p \in Principals : operation[p] # Missing => operation[p].p = p
    /\ device \in [Devices -> DeviceRow \cup {Missing}]
    /\ handler \in [Handlers -> RegRequest \cup {Missing}]
    /\ regRecord \subseteq RegKey
    /\ notice \in [Principals \X Notices -> NoticeRow \cup {Missing}]
    /\ noticeAudit \in [Principals \X Notices -> Nat]

(* A notice is audited exactly when it was acknowledged.                   *)
AuditAgrees ==
    \A x \in Principals \X Notices :
        IF notice[x] # Missing /\ notice[x].ackedAt # Missing
        THEN noticeAudit[x] = 1 /\ notice[x].ackedAt >= notice[x].deliveredAt
        ELSE noticeAudit[x] = 0

(* The inductive invariant.                                                *)
RegistryInv == RegistryType /\ RegisteredOwns /\ AuditAgrees

(* The operation found or made is the principal's own.                     *)
LEMMA FindStep ==
    ASSUME RegistryInv, NEW h \in Handlers, NEW p \in Principals, NEW d \in Devices,
           NEW e \in Evidence, Find(h, p, d, e)
    PROVE  RegistryInv'
  <1> DEFINE k == resolveOperation(p, d, e)
  <1>1. k \in RegKey /\ k # Missing /\ k.p = p
    <2>1. CASE operation[p] # Missing /\ operation[p].d = d /\ operation[p].e = e
      BY <2>1 DEF resolveOperation, RegistryInv, RegistryType
    <2>2. CASE ~ (operation[p] # Missing /\ operation[p].d = d /\ operation[p].e = e)
      <3>1. (IF operation[p] # Missing /\ operation[p].n = 1 THEN 2 ELSE 1) \in {1, 2}
        OBVIOUS
      <3>2. k = [p |-> p, d |-> d, e |-> e,
                 n |-> IF operation[p] # Missing /\ operation[p].n = 1 THEN 2 ELSE 1]
        BY <2>2 DEF resolveOperation
      <3> QED
        BY <3>1, <3>2, RegistryAssumption DEF RegKey
    <2> QED
      BY <2>1, <2>2
  <1>2. operation' = [operation EXCEPT ![p] = k]
    BY DEF Find
  <1> HIDE DEF k
  <1>3. operation'[p] = k
    BY <1>2 DEF RegistryInv, RegistryType
  <1>4. [key |-> k, now |-> regClock, at |-> "found"] \in RegRequest
    BY <1>1 DEF RegRequest, RegistryInv, RegistryType
  <1>5. handler' \in [Handlers -> RegRequest \cup {Missing}]
    BY <1>3, <1>4 DEF Find, RegistryInv, RegistryType
  <1>6. UNCHANGED <<regClock, device, regReserved, regRecord, notice, noticeAudit>>
    BY DEF Find, noticeVars
  <1>7. RegistryType'
    BY <1>1, <1>2, <1>5, <1>6 DEF RegistryInv, RegistryType
  <1> QED
    BY <1>6, <1>7 DEF RegistryInv, RegisteredOwns, AuditAgrees

(* A handler that ends or goes on leaves the tables well-formed.           *)
LEMMA HandlerMoves ==
    ASSUME RegistryInv, NEW h \in Handlers, handler[h] # Missing,
           \/ Ends(h)
           \/ \E step \in {"held", "insert"} : Goes(h, step)
    PROVE  handler' \in [Handlers -> RegRequest \cup {Missing}]
  <1>1. CASE Ends(h)
    BY <1>1 DEF Ends, RegistryInv, RegistryType
  <1>2. ASSUME NEW step \in {"held", "insert"}, Goes(h, step)
        PROVE  handler' \in [Handlers -> RegRequest \cup {Missing}]
    <2>1. handler[h] \in RegRequest
      BY DEF RegistryInv, RegistryType
    <2>2. handler' = [handler EXCEPT ![h] = [handler[h] EXCEPT !.at = step]]
      BY <1>2 DEF Goes, RegistryInv, RegistryType
    <2>3. [handler[h] EXCEPT !.at = step] \in RegRequest
      BY <2>1 DEF RegRequest
    <2> QED
      BY <2>2, <2>3 DEF RegistryInv, RegistryType
  <1> QED
    BY <1>1, <1>2

(* A row stays, whatever happens to it; its owner too.                     *)
LEMMA RowWritten ==
    ASSUME RegistryInv, NEW d \in Devices, NEW row \in DeviceRow,
           device' = [device EXCEPT ![d] = row],
           device[d] # Missing => row.owner = device[d].owner
    PROVE  /\ device' \in [Devices -> DeviceRow \cup {Missing}]
           /\ device'[d] # Missing /\ device'[d] = row
           /\ \A k \in regRecord : device'[k.d] # Missing /\ device'[k.d].owner = k.p
  <1>1. device' \in [Devices -> DeviceRow \cup {Missing}] /\ device'[d] = row /\ row # Missing
    BY RegistryAssumption DEF RegistryInv, RegistryType
  <1>2. ASSUME NEW k \in regRecord
        PROVE  device'[k.d] # Missing /\ device'[k.d].owner = k.p
    <2>1. k.d \in Devices /\ device[k.d] # Missing /\ device[k.d].owner = k.p
      BY DEF RegistryInv, RegistryType, RegKey, RegisteredOwns
    <2>2. CASE k.d = d
      BY <1>1, <2>1, <2>2
    <2>3. CASE k.d # d
      BY <2>1, <2>3 DEF RegistryInv, RegistryType
    <2> QED
      BY <2>2, <2>3
  <1> QED
    BY <1>1, <1>2

(* The key is reserved.                                                    *)
LEMMA HoldStep ==
    ASSUME RegistryInv, NEW h \in Handlers, Hold(h)
    PROVE  RegistryInv'
  <1>1. handler' \in [Handlers -> RegRequest \cup {Missing}]
    BY HandlerMoves DEF Hold
  <1>2. UNCHANGED <<regClock, operation, device, regRecord, notice, noticeAudit>>
    BY DEF Hold, noticeVars
  <1> QED
    BY <1>1, <1>2 DEF RegistryInv, RegistryType, RegisteredOwns, AuditAgrees

(* A device that is there is activated, refused or lost by its owner.      *)
LEMMA SelectStep ==
    ASSUME RegistryInv, NEW h \in Handlers, Select(h)
    PROVE  RegistryInv'
  <1> DEFINE r == handler[h]
             row == device[r.key.d]
  <1>1. r # Missing /\ r \in RegRequest /\ r.key \in RegKey /\ r.key.d \in Devices
        /\ r.key.e \in Evidence /\ r.now \in Nat /\ r.key.p \in Principals
    BY DEF Select, RegistryInv, RegistryType, RegRequest, RegKey
  <1>2. UNCHANGED <<regClock, operation, notice, noticeAudit>>
    BY DEF Select, noticeVars
  <1>3. handler' \in [Handlers -> RegRequest \cup {Missing}]
    BY <1>1, HandlerMoves DEF Select, Record, Fails
  <1>4. CASE r.key \in regRecord
    <2>1. regRecord' = regRecord /\ device' = device
      BY <1>4 DEF Select, Record
    <2> QED
      BY <1>2, <1>3, <2>1 DEF RegistryInv, RegistryType, RegisteredOwns, AuditAgrees
  <1>5. CASE r.key \notin regRecord /\ UNCHANGED <<device, regRecord>>
    BY <1>2, <1>3, <1>5 DEF RegistryInv, RegistryType, RegisteredOwns, AuditAgrees
  <1>6. CASE /\ r.key \notin regRecord /\ row # Missing /\ row.owner = r.key.p
             /\ device' = [device EXCEPT ![r.key.d] = Renewed(row, r)] /\ Record(h)
    <2>1. row \in DeviceRow
      BY <1>1, <1>6 DEF RegistryInv, RegistryType
    <2>2. Renewed(row, r) \in DeviceRow /\ Renewed(row, r).owner = row.owner
      <3>1. CASE row.evidence = r.key.e
        BY <2>1, <3>1 DEF Renewed
      <3>2. CASE row.evidence # r.key.e
        <4>1. Renewed(row, r) = [row EXCEPT !.evidence = r.key.e, !.consentGrantedAt = r.now]
          BY <3>2 DEF Renewed
        <4> QED
          BY <1>1, <2>1, <4>1 DEF DeviceRow
      <3> QED
        BY <3>1, <3>2
    <2>3. /\ device' \in [Devices -> DeviceRow \cup {Missing}]
          /\ device'[r.key.d] # Missing /\ device'[r.key.d] = Renewed(row, r)
          /\ \A k \in regRecord : device'[k.d] # Missing /\ device'[k.d].owner = k.p
      BY <1>1, <1>6, <2>2, RowWritten
    <2>4. regRecord' = regRecord \cup {r.key}
      BY <1>6 DEF Record
    <2>5. RegisteredOwns'
      BY <1>6, <2>2, <2>3, <2>4 DEF RegisteredOwns
    <2>6. RegistryType'
      BY <1>1, <1>2, <1>3, <2>3, <2>4 DEF RegistryInv, RegistryType
    <2>7. AuditAgrees'
      BY <1>2 DEF RegistryInv, AuditAgrees
    <2> QED
      BY <2>5, <2>6, <2>7 DEF RegistryInv
  <1> QED
    BY <1>4, <1>5, <1>6 DEF Select, Fails

(* A new row is owned by the principal that inserts it.                    *)
LEMMA InsertStep ==
    ASSUME RegistryInv, NEW h \in Handlers, Insert(h)
    PROVE  RegistryInv'
  <1> DEFINE r == handler[h]
             row == [owner |-> r.key.p, evidence |-> r.key.e,
                     registeredAt |-> r.now, consentGrantedAt |-> r.now]
  <1>1. r # Missing /\ r \in RegRequest /\ r.key \in RegKey /\ r.key.d \in Devices
        /\ r.key.e \in Evidence /\ r.now \in Nat /\ r.key.p \in Principals
    BY DEF Insert, RegistryInv, RegistryType, RegRequest, RegKey
  <1>2. UNCHANGED <<regClock, operation, notice, noticeAudit>>
    BY DEF Insert, noticeVars
  <1>3. handler' \in [Handlers -> RegRequest \cup {Missing}]
    BY <1>1, HandlerMoves DEF Insert, Record, Fails
  <1>4. CASE UNCHANGED <<device, regRecord>>
    BY <1>2, <1>3, <1>4 DEF RegistryInv, RegistryType, RegisteredOwns, AuditAgrees
  <1>5. CASE device[r.key.d] = Missing /\ device' = [device EXCEPT ![r.key.d] = row] /\ Record(h)
    <2>1. row \in DeviceRow /\ row.owner = r.key.p
      BY <1>1 DEF DeviceRow
    <2> HIDE DEF row
    <2>2. /\ device' \in [Devices -> DeviceRow \cup {Missing}]
          /\ device'[r.key.d] # Missing /\ device'[r.key.d] = row
          /\ \A k \in regRecord : device'[k.d] # Missing /\ device'[k.d].owner = k.p
      BY <1>1, <1>5, <2>1, RowWritten
    <2>3. regRecord' = regRecord \cup {r.key}
      BY <1>5 DEF Record
    <2>4. RegisteredOwns'
      BY <2>1, <2>2, <2>3 DEF RegisteredOwns
    <2>5. RegistryType'
      BY <1>1, <1>2, <1>3, <2>2, <2>3 DEF RegistryInv, RegistryType
    <2>6. AuditAgrees'
      BY <1>2 DEF RegistryInv, AuditAgrees
    <2> QED
      BY <2>4, <2>5, <2>6 DEF RegistryInv
  <1> QED
    BY <1>4, <1>5 DEF Insert, Fails

(* A registration that fails leaves the tables alone.                      *)
LEMMA DropStep ==
    ASSUME RegistryInv, NEW h \in Handlers, Drop(h)
    PROVE  RegistryInv'
  <1>1. handler' \in [Handlers -> RegRequest \cup {Missing}]
    BY HandlerMoves DEF Drop, Fails
  <1>2. UNCHANGED <<regClock, operation, device, regRecord, notice, noticeAudit>>
    BY DEF Drop, Fails, noticeVars
  <1> QED
    BY <1>1, <1>2 DEF RegistryInv, RegistryType, RegisteredOwns, AuditAgrees

(* Delivery and acknowledgement, with its audit.                           *)
LEMMA NoticeStep ==
    ASSUME RegistryInv, NEW p \in Principals, NEW n \in Notices,
           Nearby(p, n) \/ \E now \in 0 .. regClock : Acknowledge(p, n, now)
    PROVE  RegistryInv'
  <1> DEFINE x == <<p, n>>
  <1>1. x \in Principals \X Notices
    OBVIOUS
  <1>2. UNCHANGED <<regClock, operation, device, handler, regReserved, regRecord>>
    BY DEF Nearby, Acknowledge, regVars
  <1> HIDE DEF x
  <1>3. CASE Nearby(p, n)
    <2>1. notice' = [notice EXCEPT ![x] =
            IF @ = Missing THEN [deliveredAt |-> regClock, ackedAt |-> Missing] ELSE @]
          /\ noticeAudit' = noticeAudit
      BY <1>3 DEF Nearby, x
    <2>2. [deliveredAt |-> regClock, ackedAt |-> Missing] \in NoticeRow
          /\ [deliveredAt |-> regClock, ackedAt |-> Missing].ackedAt = Missing
      BY DEF NoticeRow, RegistryInv, RegistryType
    <2>3. RegistryType'
      BY <1>1, <1>2, <2>1, <2>2 DEF RegistryInv, RegistryType
    <2>4. AuditAgrees'
      BY <1>1, <2>1, <2>2 DEF RegistryInv, RegistryType, AuditAgrees
    <2> QED
      BY <1>2, <2>3, <2>4 DEF RegistryInv, RegisteredOwns
  <1>4. ASSUME NEW now \in 0 .. regClock, Acknowledge(p, n, now)
        PROVE  RegistryInv'
    <2>1. /\ notice[x] # Missing /\ notice[x].ackedAt = Missing
          /\ now >= notice[x].deliveredAt
          /\ notice' = [notice EXCEPT ![x].ackedAt = now]
          /\ noticeAudit' = [noticeAudit EXCEPT ![x] = @ + 1]
      BY <1>4 DEF Acknowledge, x
    <2>2. notice[x] \in NoticeRow /\ noticeAudit[x] = 0 /\ now \in Nat
      BY <1>1, <2>1 DEF RegistryInv, RegistryType, AuditAgrees
    <2> DEFINE row == [notice[x] EXCEPT !.ackedAt = now]
    <2>3. row \in NoticeRow /\ row.ackedAt = now /\ row.deliveredAt = notice[x].deliveredAt
      BY <2>2 DEF NoticeRow
    <2>4. notice' = [notice EXCEPT ![x] = row] /\ noticeAudit' = [noticeAudit EXCEPT ![x] = 1]
      BY <1>1, <2>1, <2>2 DEF RegistryInv, RegistryType
    <2> HIDE DEF row
    <2>5. RegistryType'
      BY <1>1, <1>2, <2>3, <2>4 DEF RegistryInv, RegistryType
    <2>6. AuditAgrees'
      BY <1>1, <2>1, <2>2, <2>3, <2>4, RegistryAssumption DEF RegistryInv, RegistryType, AuditAgrees
    <2> QED
      BY <1>2, <2>5, <2>6 DEF RegistryInv, RegisteredOwns
  <1> QED
    BY <1>3, <1>4

(* The registry begins empty.                                              *)
LEMMA RegistryInitially == RegistryInit => RegistryInv
  BY DEF RegistryInit, RegistryInv, RegistryType, RegisteredOwns, AuditAgrees

(* Every step preserves the invariant.                                     *)
LEMMA RegistryStep == RegistryInv /\ [RegistryNext]_registryVars => RegistryInv'
  <1> SUFFICES ASSUME RegistryInv, [RegistryNext]_registryVars PROVE RegistryInv'
    OBVIOUS
  <1>1. CASE RegTick
    BY <1>1 DEF RegTick, regVars, noticeVars, RegistryInv, RegistryType, RegisteredOwns, AuditAgrees
  <1>2. CASE UNCHANGED registryVars
    BY <1>2 DEF registryVars, RegistryInv, RegistryType, RegisteredOwns, AuditAgrees
  <1> QED
    BY <1>1, <1>2, FindStep, HoldStep, SelectStep, InsertStep, DropStep, NoticeStep
    DEF RegistryNext

(* What the registry answered stays true, for any principals, devices and  *)
(* requests: whoever was told that a registration succeeded owns the       *)
(* device, and an acknowledgement is audited once.                         *)
THEOREM TrueRegistry == RegistrySpec => []RegistryIsTrue
  <1>1. RegistryInv => RegistryIsTrue
    <2> SUFFICES ASSUME RegistryInv PROVE AcknowledgedOnce
      BY DEF RegistryInv, RegistryIsTrue
    <2>1. ASSUME NEW x \in Principals \X Notices
          PROVE  /\ noticeAudit[x] =< 1
                 /\ noticeAudit[x] = 1 => notice[x].ackedAt >= notice[x].deliveredAt
      <3>1. CASE notice[x] # Missing /\ notice[x].ackedAt # Missing
        BY <3>1 DEF RegistryInv, AuditAgrees
      <3>2. CASE ~ (notice[x] # Missing /\ notice[x].ackedAt # Missing)
        BY <3>2 DEF RegistryInv, AuditAgrees
      <3> QED
        BY <3>1, <3>2
    <2> QED
      BY <2>1 DEF AcknowledgedOnce
  <1> QED
    BY <1>1, RegistryInitially, RegistryStep, PTL DEF RegistrySpec

----------------------------------------------------------------------------
(* TokenVerification                                                       *)

(* Well-formed clocks, keys, fetches and requests.                         *)
OidcType ==
    /\ oidcClock \in Nat /\ oidcClock > 0
    /\ published \subseteq Kids
    /\ withdrawn \in [Kids -> Nat]
    /\ cache \subseteq Kids
    /\ cacheUntil \in Nat
    /\ flight \in Fetch \cup {Nobody}
    /\ caller \in [Callers -> Request \cup {Nobody}]
    /\ grants \in [Tokens -> Nat]

(* Cached keys count from before the issuer could have withdrawn them.     *)
KeysAreDated ==
    /\ cacheUntil =< oidcClock + CacheTtl
    /\ \A k \in published : withdrawn[k] = 0
    /\ \A k \in cache : withdrawn[k] # 0 => cacheUntil =< withdrawn[k] + CacheTtl

(* A fetch ends in time, and what it was answered was published since it   *)
(* began.                                                                  *)
FetchIsTimely ==
    flight # Nobody =>
        /\ flight.now =< flight.began
        /\ flight.began =< oidcClock
        /\ oidcClock =< flight.began + FetchTimeout
        /\ flight.answer # Nobody =>
              \A k \in flight.answer : withdrawn[k] # 0 => flight.began =< withdrawn[k]

(* How long ago the clock was read when the request waits for a fetch.     *)
Slack(q) == IF q.stage = "stale" THEN 0 ELSE FetchTimeout

(* A request waits for at most two fetches, the second for an unknown key, *)
(* and whoever resumes finds keys that are new.                            *)
RequestsAreTimely ==
    \A c \in Callers : caller[c] # Nobody =>
        LET q == caller[c] IN
        /\ q.now =< oidcClock
        /\ q.settled = "no" => flight # Nobody /\ flight.began =< q.now + Slack(q)
        /\ q.settled # "no" => oidcClock =< q.now + Slack(q) + FetchTimeout
        /\ q.settled = "done" =>
              \A k \in cache : withdrawn[k] # 0 => oidcClock < withdrawn[k] + CacheTtl

(* Nothing was accepted in the future.                                     *)
GrantsArePast == \A t \in Tokens : grants[t] =< oidcClock

(* The inductive invariant.                                                *)
OidcInv ==
    /\ OidcType /\ KeysAreDated /\ FetchIsTimely /\ RequestsAreTimely
    /\ GrantsArePast /\ TrustLapses

(* No time passes, and keys and cache stay.                                *)
Idle == UNCHANGED <<oidcClock, published, withdrawn, cache, cacheUntil>>

(* The assumption, in the form the arithmetic needs.                       *)
LEMMA Durations ==
    /\ CacheTtl \in Nat /\ FetchTimeout \in Nat /\ Skew \in Nat /\ MaxTokenAge \in Nat
    /\ CacheTtl > 0 /\ FetchTimeout > 0 /\ FetchTimeout < CacheTtl
    /\ \A t \in Tokens : t.kid \in Kids /\ t.exp \in Nat /\ t.iat \in Nat
  BY OidcAssumption DEF SettingsAccepted

(* A token is granted within two fetches of the clock it is judged at,     *)
(* with a key that may still be trusted.                                   *)
LEMMA ConcludeStep ==
    ASSUME OidcInv, Idle, NEW c \in Callers, NEW t \in Tokens, NEW now \in Nat,
           Conclude(c, t, now), UNCHANGED flight,
           oidcClock =< now + 2 * FetchTimeout,
           t.kid \in cache /\ withdrawn[t.kid] # 0 => oidcClock < withdrawn[t.kid] + CacheTtl
    PROVE  OidcInv'
  <1>1. caller' = [caller EXCEPT ![c] = Nobody]
    BY DEF Conclude, Gone
  <1>2. \/ grants' = grants
        \/ /\ t.kid \in cache
           /\ t.exp > now - Skew
           /\ grants' = [grants EXCEPT ![t] = oidcClock]
    BY DEF Conclude, resolveTrustedIntegrationPrincipal
  <1>3. OidcType'
    BY <1>1, <1>2 DEF OidcInv, OidcType, Idle
  <1>4. KeysAreDated' /\ FetchIsTimely'
    BY DEF OidcInv, KeysAreDated, FetchIsTimely, Idle
  <1>5. RequestsAreTimely'
    BY <1>1 DEF OidcInv, OidcType, RequestsAreTimely, Slack, Idle
  <1>6. GrantsArePast' /\ TrustLapses'
    <2>1. CASE grants' = grants
      BY <2>1 DEF OidcInv, GrantsArePast, TrustLapses, WithdrawnIsForgotten,
           ExpiryIsMet, Idle
    <2>2. CASE t.kid \in cache /\ t.exp > now - Skew /\ grants' = [grants EXCEPT ![t] = oidcClock]
      <3>1. \A u \in Tokens : grants'[u] = IF u = t THEN oidcClock ELSE grants[u]
        BY <2>2 DEF OidcInv, OidcType
      <3>2. GrantsArePast'
        BY <3>1 DEF OidcInv, OidcType, GrantsArePast, Idle
      <3>3. WithdrawnIsForgotten'
        BY <2>2, <3>1 DEF OidcInv, TrustLapses, WithdrawnIsForgotten, Idle
      <3>4. oidcClock < t.exp + Skew + 2 * FetchTimeout
        BY <2>2, Durations DEF OidcInv, OidcType
      <3>5. ExpiryIsMet'
        BY <3>1, <3>4 DEF OidcInv, TrustLapses, ExpiryIsMet
      <3> QED
        BY <3>2, <3>3, <3>5 DEF TrustLapses
    <2> QED
      BY <1>2, <2>1, <2>2
  <1> QED
    BY <1>3, <1>4, <1>5, <1>6 DEF OidcInv

(* A request that finds its key missing or stale waits for a fetch that    *)
(* began, at the latest, now.                                              *)
LEMMA AwaitStep ==
    ASSUME OidcInv, Idle, NEW c \in Callers, NEW t \in Tokens, NEW now \in Nat,
           NEW stage \in {"stale", "unknown"},
           refresh(now), Awaits(c, t, now, stage), UNCHANGED grants, now =< oidcClock,
           IF stage = "stale" THEN now = oidcClock ELSE oidcClock =< now + FetchTimeout
    PROVE  OidcInv'
  <1> DEFINE q == [token |-> t, now |-> now, stage |-> stage, settled |-> "no"]
  <1>1. caller' = [caller EXCEPT ![c] = q] /\ q \in Request
    BY DEF Awaits, Request
  <1>2. q.now = now /\ q.settled = "no" /\ q.stage = stage
    OBVIOUS
  <1> HIDE DEF q
  <1>3. /\ flight' \in Fetch /\ flight' # Nobody
        /\ flight # Nobody => flight' = flight
        /\ FetchIsTimely'
        /\ flight'.began =< oidcClock
    <2>1. CASE flight # Nobody
      <3>1. flight' = flight
        BY <2>1 DEF refresh
      <3> QED
        BY <2>1, <3>1 DEF OidcInv, OidcType, FetchIsTimely, Idle
    <2>2. CASE flight = Nobody
      <3>1. flight' = [now |-> now, began |-> oidcClock, answer |-> Nobody]
        BY <2>2 DEF refresh
      <3>2. /\ flight' \in Fetch /\ flight'.now = now /\ flight'.began = oidcClock
            /\ flight'.answer = Nobody
        BY <3>1 DEF Fetch, OidcInv, OidcType
      <3>3. flight' # Nobody
        BY <3>2, OidcAssumption
      <3> QED
        BY <2>2, <3>2, <3>3, Durations DEF FetchIsTimely, Idle, OidcInv, OidcType
    <2> QED
      BY <2>1, <2>2
  <1>4. OidcType'
    BY <1>1, <1>3 DEF OidcInv, OidcType, Idle
  <1>5. KeysAreDated' /\ GrantsArePast' /\ TrustLapses'
    BY DEF OidcInv, KeysAreDated, GrantsArePast, TrustLapses, WithdrawnIsForgotten,
           ExpiryIsMet, Idle
  <1>6. flight'.began =< now + Slack(q)
    <2>1. flight'.began \in Nat
      BY <1>3 DEF Fetch
    <2> QED
      BY <1>2, <1>3, <2>1, Durations DEF Slack, OidcInv, OidcType
  <1>7. RequestsAreTimely'
    <2> SUFFICES ASSUME NEW d \in Callers, caller'[d] # Nobody
                 PROVE  /\ caller'[d].now =< oidcClock'
                        /\ caller'[d].settled = "no" =>
                              /\ flight' # Nobody
                              /\ flight'.began =< caller'[d].now + Slack(caller'[d])
                        /\ caller'[d].settled # "no" =>
                              oidcClock' =< caller'[d].now + Slack(caller'[d]) + FetchTimeout
                        /\ caller'[d].settled = "done" =>
                              \A k \in cache' : withdrawn'[k] # 0 =>
                                                   oidcClock' < withdrawn'[k] + CacheTtl
      BY DEF RequestsAreTimely, Slack
    <2>1. CASE d = c
      <3>1. caller'[d] = q
        BY <1>1, <2>1 DEF OidcInv, OidcType
      <3> QED
        BY <1>2, <1>3, <1>6, <3>1 DEF Idle
    <2>2. CASE d # c
      <3>1. caller'[d] = caller[d]
        BY <1>1, <2>2 DEF OidcInv, OidcType
      <3> QED
        BY <1>3, <3>1 DEF OidcInv, RequestsAreTimely, Idle
    <2> QED
      BY <2>1, <2>2
  <1> QED
    BY <1>3, <1>4, <1>5, <1>7 DEF OidcInv

(* A request that knows its key is judged, the others await a fetch.       *)
LEMMA LookUpStep ==
    ASSUME OidcInv, Idle, NEW c \in Callers, NEW t \in Tokens, NEW now \in Nat,
           LookUp(c, t, now), now =< oidcClock, oidcClock =< now + FetchTimeout,
           t.kid \in cache /\ withdrawn[t.kid] # 0 => oidcClock < withdrawn[t.kid] + CacheTtl
    PROVE  OidcInv'
  <1>1. CASE Conclude(c, t, now) /\ UNCHANGED flight
    <2>1. oidcClock =< now + 2 * FetchTimeout
      BY Durations DEF OidcInv, OidcType
    <2> QED
      BY <1>1, <2>1, ConcludeStep
  <1>2. CASE refresh(now) /\ Awaits(c, t, now, "unknown") /\ UNCHANGED grants
    BY <1>2, AwaitStep
  <1> QED
    BY <1>1, <1>2 DEF LookUp

(* A request reads the clock and looks its key up.                         *)
LEMMA ResolveStep ==
    ASSUME OidcInv, NEW c \in Callers, NEW t \in Tokens, Resolve(c, t)
    PROVE  OidcInv'
  <1>1. Idle /\ oidcClock \in Nat
    BY DEF Resolve, Idle, OidcInv, OidcType
  <1>2. CASE Stale(oidcClock)
    BY <1>1, <1>2, AwaitStep DEF Resolve
  <1>3. CASE ~ Stale(oidcClock)
    <2>1. t.kid \in cache /\ withdrawn[t.kid] # 0 => oidcClock < withdrawn[t.kid] + CacheTtl
      BY <1>3, Durations DEF Stale, OidcInv, OidcType, KeysAreDated
    <2>2. oidcClock =< oidcClock + FetchTimeout
      BY <1>1, Durations
    <2> QED
      BY <1>1, <1>3, <2>1, <2>2, LookUpStep DEF Resolve
  <1> QED
    BY <1>2, <1>3

(* A request resumes after the fetch it awaited.                           *)
LEMMA ResumeStep ==
    ASSUME OidcInv, NEW c \in Callers, Resume(c)
    PROVE  OidcInv'
  <1> DEFINE q == caller[c]
  <1>1. /\ q # Nobody /\ q \in Request /\ q.token \in Tokens /\ q.now \in Nat /\ q.settled # "no"
        /\ Idle
    BY DEF Resume, Due, OidcInv, OidcType, Request, Idle
  <1>2. /\ q.now =< oidcClock
        /\ oidcClock =< q.now + Slack(q) + FetchTimeout
        /\ q.settled = "done" =>
              \A k \in cache : withdrawn[k] # 0 => oidcClock < withdrawn[k] + CacheTtl
    BY <1>1 DEF OidcInv, RequestsAreTimely
  <1>3. CASE q.settled = "failed" /\ Gone(c) /\ UNCHANGED <<flight, lastTry, grants>>
    <2>1. caller' = [caller EXCEPT ![c] = Nobody]
      BY <1>3 DEF Gone
    <2>2. OidcType' /\ KeysAreDated' /\ FetchIsTimely' /\ GrantsArePast' /\ TrustLapses'
      BY <1>1, <1>3, <2>1
      DEF OidcInv, OidcType, KeysAreDated, FetchIsTimely, GrantsArePast, TrustLapses,
          WithdrawnIsForgotten, ExpiryIsMet, Idle
    <2>3. RequestsAreTimely'
      BY <1>1, <1>3, <2>1 DEF OidcInv, OidcType, RequestsAreTimely, Slack, Idle
    <2> QED
      BY <2>2, <2>3 DEF OidcInv
  <1>4. CASE q.settled = "done" /\ q.stage = "stale" /\ LookUp(c, q.token, q.now)
    <2>1. oidcClock =< q.now + FetchTimeout
      BY <1>1, <1>2, <1>4, Durations DEF Slack
    <2> QED
      BY <1>1, <1>2, <1>4, <2>1, LookUpStep
  <1>5. CASE q.settled = "done" /\ q.stage = "unknown" /\ Conclude(c, q.token, q.now)
             /\ UNCHANGED flight
    <2>1. oidcClock =< q.now + 2 * FetchTimeout
      BY <1>1, <1>2, <1>5, Durations DEF Slack, OidcInv, OidcType
    <2> QED
      BY <1>1, <1>2, <1>5, <2>1, ConcludeStep
  <1> QED
    BY <1>3, <1>4, <1>5 DEF Resume

(* The issuer answers with what it publishes.                              *)
LEMMA ServeStep ==
    ASSUME OidcInv, Serve
    PROVE  OidcInv'
  <1>1. flight \in Fetch /\ flight # Nobody
    BY DEF Serve, OidcInv, OidcType
  <1>2. /\ flight' \in Fetch /\ flight'.answer = published
        /\ flight'.now = flight.now /\ flight'.began = flight.began
    BY <1>1 DEF Serve, Fetch, OidcInv, OidcType
  <1>3. flight' # Nobody
    BY <1>2, OidcAssumption
  <1>4. OidcType' /\ KeysAreDated' /\ GrantsArePast' /\ TrustLapses'
    BY <1>2 DEF Serve, OidcInv, OidcType, KeysAreDated, GrantsArePast, TrustLapses,
                WithdrawnIsForgotten, ExpiryIsMet
  <1>5. FetchIsTimely'
    BY <1>1, <1>2, <1>3 DEF Serve, OidcInv, FetchIsTimely, KeysAreDated
  <1>6. RequestsAreTimely'
    BY <1>1, <1>2, <1>3 DEF Serve, OidcInv, RequestsAreTimely, Slack
  <1> QED
    BY <1>4, <1>5, <1>6 DEF OidcInv

(* Whoever waits is told at once, within the time of the fetch.            *)
LEMMA SettleStep ==
    ASSUME OidcInv, Due = {}, flight # Nobody, NEW how \in {"done", "failed"}, Settle(how),
           UNCHANGED <<oidcClock, withdrawn>>,
           how = "done" =>
              \A k \in cache' : withdrawn[k] # 0 => oidcClock < withdrawn[k] + CacheTtl
    PROVE  /\ caller' \in [Callers -> Request \cup {Nobody}] /\ flight' = Nobody
           /\ RequestsAreTimely'
  <1>1. flight' = Nobody
    BY DEF Settle
  <1>2. ASSUME NEW c \in Callers
        PROVE  \/ caller[c] = Nobody /\ caller'[c] = Nobody
               \/ /\ caller[c] \in Request /\ caller'[c] \in Request
                  /\ caller[c] # Nobody /\ caller[c].settled = "no"
                  /\ caller'[c].settled = how /\ caller'[c].now = caller[c].now
                  /\ caller'[c].stage = caller[c].stage
    <2>1. caller'[c] = IF caller[c] = Nobody THEN Nobody ELSE [caller[c] EXCEPT !.settled = how]
      BY DEF Settle
    <2>2. caller[c] \in Request \cup {Nobody}
      BY DEF OidcInv, OidcType
    <2>3. caller[c] # Nobody => caller[c].settled = "no"
      BY DEF Due
    <2> QED
      BY <2>1, <2>2, <2>3 DEF Request
  <1>3. caller' \in [Callers -> Request \cup {Nobody}]
    BY <1>2 DEF Settle
  <1>4. ASSUME NEW c \in Callers, caller'[c] # Nobody
        PROVE  /\ caller'[c].now =< oidcClock' /\ caller'[c].settled # "no"
               /\ oidcClock' =< caller'[c].now + Slack(caller'[c]) + FetchTimeout
               /\ caller'[c].settled = "done" =>
                     \A k \in cache' : withdrawn'[k] # 0 => oidcClock' < withdrawn'[k] + CacheTtl
    <2>1. /\ caller[c] # Nobody /\ caller[c].settled = "no" /\ caller[c] \in Request
          /\ caller'[c].settled = how /\ caller'[c].now = caller[c].now
          /\ caller'[c].stage = caller[c].stage
      BY <1>2, <1>4
    <2>2. /\ caller[c].now =< oidcClock
          /\ flight.began =< caller[c].now + Slack(caller[c])
      BY <2>1 DEF OidcInv, RequestsAreTimely
    <2>3. oidcClock =< flight.began + FetchTimeout /\ flight.began \in Nat /\ oidcClock \in Nat
      BY DEF OidcInv, OidcType, FetchIsTimely, Fetch
    <2>4. Slack(caller'[c]) = Slack(caller[c]) /\ Slack(caller[c]) \in Nat /\ caller[c].now \in Nat
      BY <2>1, Durations DEF Slack, Request
    <2>5. oidcClock =< caller[c].now + Slack(caller[c]) + FetchTimeout
      BY <2>2, <2>3, <2>4, Durations
    <2> QED
      BY <2>1, <2>2, <2>4, <2>5
  <1>5. RequestsAreTimely'
    BY <1>4 DEF RequestsAreTimely, Slack
  <1> QED
    BY <1>1, <1>3, <1>5

(* The cache takes the answer; whoever awaited it is settled.              *)
LEMMA RefreshStep ==
    ASSUME OidcInv, performRefresh
    PROVE  OidcInv'
  <1>1. /\ flight # Nobody /\ flight \in Fetch /\ flight.answer # Nobody
        /\ flight.answer \subseteq Kids /\ flight.now \in Nat /\ flight.began \in Nat
        /\ cache' \subseteq flight.answer /\ cacheUntil' = flight.now + CacheTtl
        /\ UNCHANGED <<oidcClock, published, withdrawn, grants>>
    BY DEF performRefresh, parseJwks, OidcInv, OidcType, Fetch
  <1>2. /\ flight.now =< flight.began /\ flight.began =< oidcClock
        /\ oidcClock =< flight.began + FetchTimeout
        /\ \A k \in cache' :
              withdrawn[k] \in Nat /\ (withdrawn[k] # 0 => flight.began =< withdrawn[k])
    BY <1>1 DEF OidcInv, OidcType, FetchIsTimely
  <1>3. \A k \in cache' : withdrawn[k] # 0 => oidcClock < withdrawn[k] + CacheTtl
    BY <1>1, <1>2, Durations DEF OidcInv, OidcType
  <1>4. /\ caller' \in [Callers -> Request \cup {Nobody}] /\ flight' = Nobody
        /\ RequestsAreTimely'
    BY <1>1, <1>3, SettleStep DEF performRefresh
  <1>5. OidcType'
    BY <1>1, <1>4, Durations DEF OidcInv, OidcType
  <1>6. KeysAreDated'
    BY <1>1, <1>2, Durations DEF OidcInv, OidcType, KeysAreDated
  <1>7. FetchIsTimely' /\ GrantsArePast' /\ TrustLapses'
    BY <1>1, <1>4 DEF OidcInv, FetchIsTimely, GrantsArePast, TrustLapses, WithdrawnIsForgotten,
                      ExpiryIsMet
  <1> QED
    BY <1>4, <1>5, <1>6, <1>7 DEF OidcInv

(* A fetch fails or runs out of time.                                      *)
LEMMA RefreshFailsStep ==
    ASSUME OidcInv, RefreshFails
    PROVE  OidcInv'
  <1>1. /\ caller' \in [Callers -> Request \cup {Nobody}] /\ flight' = Nobody
        /\ RequestsAreTimely'
    BY SettleStep DEF RefreshFails
  <1> QED
    BY <1>1 DEF RefreshFails, OidcInv, OidcType, KeysAreDated, FetchIsTimely, GrantsArePast,
                TrustLapses, WithdrawnIsForgotten, ExpiryIsMet

(* The issuer withdraws keys now, so what is cached was published before.  *)
LEMMA RotateStep ==
    ASSUME OidcInv, NEW old \in Kids, NEW new \in Kids, RotateKeys(old, new)
    PROVE  OidcInv'
  <1>1. /\ old \in published /\ new # old /\ withdrawn[new] = 0
        /\ published' = (published \ {old}) \cup {new}
        /\ withdrawn' = [withdrawn EXCEPT ![old] = oidcClock]
        /\ UNCHANGED <<oidcClock, cache, cacheUntil, flight, caller, grants>>
    BY DEF RotateKeys
  <1>2. \A k \in Kids : withdrawn'[k] = IF k = old THEN oidcClock ELSE withdrawn[k]
    BY <1>1 DEF OidcInv, OidcType
  <1>3. OidcType'
    BY <1>1 DEF OidcInv, OidcType
  <1>4. KeysAreDated'
    BY <1>1, <1>2 DEF OidcInv, OidcType, KeysAreDated
  <1>5. FetchIsTimely'
    <2>1. flight # Nobody /\ flight.answer # Nobody => flight.answer \subseteq Kids
      BY DEF OidcInv, OidcType, Fetch
    <2> QED
      BY <1>1, <1>2, <2>1 DEF OidcInv, FetchIsTimely
  <1>6. RequestsAreTimely'
    <2>1. \A c \in Callers : caller[c] # Nobody => caller[c].settled = "no"
      BY DEF RotateKeys, Due
    <2> QED
      BY <1>1, <2>1 DEF OidcInv, RequestsAreTimely, Slack
  <1>7. GrantsArePast' /\ ExpiryIsMet'
    BY <1>1 DEF OidcInv, GrantsArePast, TrustLapses, ExpiryIsMet
  <1>8. WithdrawnIsForgotten'
    <2> SUFFICES ASSUME NEW t \in Tokens, withdrawn'[t.kid] # 0
                 PROVE  grants[t] < withdrawn'[t.kid] + CacheTtl
      BY <1>1 DEF WithdrawnIsForgotten
    <2>1. t.kid \in Kids /\ grants[t] =< oidcClock /\ grants[t] \in Nat /\ oidcClock \in Nat
      BY Durations DEF OidcInv, OidcType, GrantsArePast
    <2>2. CASE t.kid = old
      BY <1>2, <2>1, <2>2, Durations
    <2>3. CASE t.kid # old
      BY <1>2, <2>1, <2>3 DEF OidcInv, TrustLapses, WithdrawnIsForgotten
    <2> QED
      BY <2>2, <2>3
  <1> QED
    BY <1>3, <1>4, <1>5, <1>6, <1>7, <1>8 DEF OidcInv, TrustLapses

(* Time passes while no deadline does.                                     *)
LEMMA OidcTickStep ==
    ASSUME OidcInv, OidcTick
    PROVE  OidcInv'
  <1>1. /\ oidcClock' = oidcClock + 1 /\ oidcClock \in Nat
        /\ flight # Nobody => oidcClock < flight.began + FetchTimeout
        /\ UNCHANGED <<published, withdrawn, cache, cacheUntil, flight, caller, grants>>
        /\ \A c \in Callers : caller[c] # Nobody => caller[c].settled = "no"
    BY DEF OidcTick, Due, OidcInv, OidcType
  <1>2. OidcType' /\ KeysAreDated' /\ GrantsArePast' /\ TrustLapses'
    BY <1>1, Durations DEF OidcInv, OidcType, KeysAreDated, GrantsArePast, TrustLapses,
                WithdrawnIsForgotten, ExpiryIsMet
  <1>3. FetchIsTimely'
    <2>1. flight # Nobody => flight.began \in Nat
      BY DEF OidcInv, OidcType, Fetch
    <2> QED
      BY <1>1, <2>1, Durations DEF OidcInv, FetchIsTimely
  <1>4. RequestsAreTimely'
    <2>1. \A c \in Callers : caller[c] # Nobody => caller[c].now \in Nat
      BY DEF OidcInv, OidcType, Request
    <2> QED
      BY <1>1, <2>1 DEF OidcInv, RequestsAreTimely, Slack
  <1> QED
    BY <1>2, <1>3, <1>4 DEF OidcInv

(* The verifier begins with nothing cached.                                *)
LEMMA OidcInitially == OidcInit => OidcInv
  BY Durations DEF OidcInit, OidcInv, OidcType, KeysAreDated, FetchIsTimely, RequestsAreTimely,
    GrantsArePast, TrustLapses, WithdrawnIsForgotten, ExpiryIsMet

(* Every step preserves the invariant.                                     *)
LEMMA OidcStep == OidcInv /\ [OidcNext]_oidcVars => OidcInv'
  <1> SUFFICES ASSUME OidcInv, [OidcNext]_oidcVars PROVE OidcInv'
    OBVIOUS
  <1>1. CASE UNCHANGED oidcVars
    BY <1>1 DEF oidcVars, OidcInv, OidcType, KeysAreDated, FetchIsTimely, RequestsAreTimely, Slack,
                GrantsArePast, TrustLapses, WithdrawnIsForgotten, ExpiryIsMet
  <1> QED
    BY <1>1, ResolveStep, ResumeStep, ServeStep, RefreshStep, RefreshFailsStep, RotateStep,
       OidcTickStep
    DEF OidcNext

(* For any keys, tokens and durations: neither a withdrawn key nor an      *)
(* expired token is accepted for longer than cache, skew and fetches       *)
(* account for (resolveRs256PublicKey).                                    *)
THEOREM TrustDoesLapse == OidcSpec => []TrustLapses
  <1>1. OidcInv => TrustLapses
    BY DEF OidcInv
  <1> QED
    BY <1>1, OidcInitially, OidcStep, PTL DEF OidcSpec

----------------------------------------------------------------------------
(* ServiceRuntime                                                          *)

(* The stages of the migrations, and those of the end of shutdown.         *)
Starting == {"locking", "migrating", "body"}
Stopped == {"stopping", "closing", "ended"}

(* What a process has of its release: all of it once it is done migrating, *)
(* before that all it has passed.                                          *)
Migrated(row, applied) ==
    /\ row.pc = "locking" => row.at = 0
    /\ row.pc = "body" => row.at \in DOMAIN row.files /\ applied[row.at] = Vacant
    /\ \A n \in DOMAIN row.files :
          \/ row.pc \notin Starting
          \/ row.pc = "migrating" /\ n =< row.at
          \/ row.pc = "body" /\ n < row.at
          => applied[n] = row.files[n]

(* How far its shutdown is.                                                *)
Orderly(row) ==
    /\ row.pc \in Stopped => row.requests = 0
    /\ row.closing <=> row.pc \in {"closing", "ended"}
    /\ row.closing => row.failed \/ \A w \in Workers : row.workers[w] = "done"
    /\ row.closing => row.link \in {"shut", "queued"}
    /\ row.pc = "ended" => row.link = "shut"

(* Who migrates has the advisory lock.                                     *)
Holds(p, row, holder) == row.pc \in {"migrating", "body"} => holder = p

(* Well-formed processes and ledger.                                       *)
RuntimeType ==
    /\ ledger = [n \in Names |-> ledger[n]]
    /\ procs \in [Processes -> Process \cup {Vacant}]

(* The inductive invariant.                                                *)
RuntimeInv ==
    /\ RuntimeType
    /\ \A p \in Processes : procs[p] # Vacant =>
          Migrated(procs[p], ledger) /\ Orderly(procs[p]) /\ Holds(p, procs[p], lock)

(* No process is the absent holder of the lock.                            *)
LEMMA VacantIsNobody == \A p \in Processes : p # Vacant
  BY RuntimeAssumption

(* Min of a set of names is its least element.                             *)
LEMMA LeastName ==
    ASSUME NEW S, S \subseteq Nat, S # {}
    PROVE  Min(S) \in S /\ \A n \in S : Min(S) =< n
  <1>1. IsWellFoundedOn(OpToRel(<, Nat), Nat)
    BY NatLessThanWellFounded, Zenon
  <1>2. PICK x \in S : \A y \in S : ~ (<<y, x>> \in OpToRel(<, Nat))
    BY <1>1, WFMin, Zenon
  <1>3. \A y \in S : ~ (y < x)
    BY <1>2, Zenon DEF OpToRel
  <1>4. \A y \in S : x =< y
    BY <1>3
  <1> QED
    BY <1>4 DEF Min

(* A step of one process that leaves the ledger alone and the lock of the  *)
(* others.                                                                 *)
LEMMA ProcessStep ==
    ASSUME RuntimeInv, NEW p \in Processes, NEW new \in Process,
           procs' = [procs EXCEPT ![p] = new], ledger' = ledger,
           Migrated(new, ledger), Orderly(new), Holds(p, new, lock'),
           lock' = lock \/ lock = p \/ lock = Vacant
    PROVE  RuntimeInv'
  <1>1. RuntimeType'
    BY DEF RuntimeInv, RuntimeType
  <1>2. ASSUME NEW q \in Processes, procs'[q] # Vacant
        PROVE  Migrated(procs'[q], ledger') /\ Orderly(procs'[q]) /\ Holds(q, procs'[q], lock')
    <2>1. CASE q = p
      <3>1. procs'[q] = new
        BY <2>1 DEF RuntimeInv, RuntimeType
      <3> QED
        BY <2>1, <3>1
    <2>2. CASE q # p
      <3>1. procs'[q] = procs[q]
        BY <2>2 DEF RuntimeInv, RuntimeType
      <3>2. Migrated(procs[q], ledger) /\ Orderly(procs[q]) /\ Holds(q, procs[q], lock)
        BY <1>2, <3>1 DEF RuntimeInv
      <3>3. Holds(q, procs[q], lock')
        BY <2>2, <3>2, VacantIsNobody DEF Holds
      <3> QED
        BY <3>1, <3>2, <3>3
    <2> QED
      BY <2>1, <2>2
  <1> QED
    BY <1>1, <1>2 DEF RuntimeInv

(* The end of a process: its lock goes with it.                            *)
LEMMA EndStep ==
    ASSUME RuntimeInv, NEW p \in Processes, ProcessEnds(p)
    PROVE  RuntimeInv'
  <1>1. RuntimeType'
    BY DEF RuntimeInv, RuntimeType, ProcessEnds
  <1>2. ASSUME NEW q \in Processes, procs'[q] # Vacant
        PROVE  Migrated(procs'[q], ledger') /\ Orderly(procs'[q]) /\ Holds(q, procs'[q], lock')
    <2>1. q # p /\ procs'[q] = procs[q]
      BY <1>2 DEF RuntimeInv, RuntimeType, ProcessEnds
    <2>2. Migrated(procs[q], ledger) /\ Orderly(procs[q]) /\ Holds(q, procs[q], lock)
      BY <1>2, <2>1 DEF RuntimeInv
    <2> QED
      BY <2>1, <2>2 DEF Holds, ProcessEnds
  <1> QED
    BY <1>1, <1>2 DEF RuntimeInv

(* What is known of a running process.                                     *)
LEMMA ProcessFacts ==
    ASSUME RuntimeInv, NEW p \in Processes, procs[p] # Vacant
    PROVE  /\ procs[p] \in Process /\ procs[p].files \in Releases
           /\ DOMAIN procs[p].files \subseteq Names /\ DOMAIN procs[p].files \subseteq Nat \ {0}
           /\ \A n \in DOMAIN procs[p].files : procs[p].files[n] # Vacant
           /\ Migrated(procs[p], ledger) /\ Orderly(procs[p]) /\ Holds(p, procs[p], lock)
  <1>1. procs[p] \in Process /\ procs[p].files \in Releases
    BY DEF RuntimeInv, RuntimeType, Process
  <1> QED
    BY <1>1, RuntimeAssumption DEF RuntimeInv, Names

(* A process begins with nothing done.                                     *)
LEMMA BootStep ==
    ASSUME RuntimeInv, NEW p \in Processes, boot(p)
    PROVE  RuntimeInv'
  <1>1. PICK files \in Releases :
          procs' = [procs EXCEPT ![p] =
             [pc |-> "locking", files |-> files, at |-> 0, link |-> "shut",
              closing |-> FALSE, requests |-> 0, aborted |-> FALSE,
              failed |-> FALSE, workers |-> [w \in Workers |-> "off"]]]
    BY DEF boot
  <1> DEFINE new == [pc |-> "locking", files |-> files, at |-> 0, link |-> "shut",
                     closing |-> FALSE, requests |-> 0, aborted |-> FALSE,
                     failed |-> FALSE, workers |-> [w \in Workers |-> "off"]]
  <1>2. new \in Process
    BY DEF Process, Stages
  <1>3. new.pc = "locking" /\ new.at = 0 /\ new.closing = FALSE
    OBVIOUS
  <1>4. ledger' = ledger /\ lock' = lock /\ procs' = [procs EXCEPT ![p] = new]
    BY <1>1 DEF boot
  <1> HIDE DEF new
  <1>5. Migrated(new, ledger)
    BY <1>3 DEF Migrated, Starting
  <1>6. Orderly(new)
    <2>1. new.pc \notin {"stopping", "closing", "ended"}
      BY <1>3
    <2> QED
      BY <1>3, <2>1 DEF Orderly, Stopped
  <1>7. Holds(p, new, lock')
    BY <1>3 DEF Holds
  <1> QED
    BY <1>2, <1>4, <1>5, <1>6, <1>7, ProcessStep

(* The lock is taken, files are examined in order, the lock is released.   *)
LEMMA MigrateStep ==
    ASSUME RuntimeInv, NEW p \in Processes,
           lockMigrations(p) \/ examine(p) \/ unlockMigrations(p)
    PROVE  RuntimeInv'
  <1> DEFINE old == procs[p]
  <1>1. old # Vacant /\ ledger' = ledger
    BY DEF lockMigrations, examine, unlockMigrations, InStage
  <1>2. /\ old \in Process /\ old.files \in Releases
        /\ DOMAIN old.files \subseteq Names /\ DOMAIN old.files \subseteq Nat \ {0}
        /\ Migrated(old, ledger) /\ Orderly(old) /\ Holds(p, old, lock)
    BY <1>1, ProcessFacts
  <1>3. CASE lockMigrations(p)
    <2> DEFINE new == [old EXCEPT !.pc = "migrating"]
    <2>1. old.pc = "locking" /\ lock = Vacant /\ lock' = p /\ procs' = [procs EXCEPT ![p] = new]
      BY <1>3 DEF lockMigrations, InStage, Enter, RuntimeInv, RuntimeType
    <2>2. new \in Process
      BY <1>2 DEF Process, Stages
    <2>3. Migrated(new, ledger) /\ Orderly(new) /\ Holds(p, new, lock')
      <3>1. Migrated(new, ledger)
        BY <1>2, <2>1 DEF Migrated, Process, Starting
      <3>2. Orderly(new)
        BY <1>2, <2>1 DEF Orderly, Process, Stopped
      <3> QED
        BY <2>1, <3>1, <3>2 DEF Holds
    <2> HIDE DEF new
    <2> QED
      BY <1>1, <2>1, <2>2, <2>3, ProcessStep
  <1>4. CASE unlockMigrations(p)
    <2> DEFINE new == [old EXCEPT !.pc = "probing"]
    <2>1. /\ old.pc = "migrating" /\ lock' = IF lock = p THEN Vacant ELSE lock
          /\ Remaining(p) = {} /\ procs' = [procs EXCEPT ![p] = new]
      BY <1>4 DEF unlockMigrations, InStage, Enter, RuntimeInv, RuntimeType
    <2>2. new \in Process
      BY <1>2 DEF Process, Stages
    <2>3. Migrated(new, ledger)
      <3>1. \A n \in DOMAIN old.files : n =< old.at
        BY <1>2, <2>1 DEF Remaining, Process
      <3> QED
        BY <1>2, <2>1, <3>1 DEF Migrated, Process, Starting
    <2>4. Orderly(new)
      BY <1>2, <2>1 DEF Orderly, Process, Stopped
    <2>5. Holds(p, new, lock')
      BY <1>2 DEF Holds, Process
    <2> HIDE DEF new
    <2> QED
      BY <1>1, <2>1, <2>2, <2>3, <2>4, <2>5, ProcessStep
  <1>5. CASE examine(p)
    <2> DEFINE n == Min(Remaining(p))
               skipped == [old EXCEPT !.at = n]
               begun == [old EXCEPT !.at = n, !.pc = "body"]
    <2>1. /\ old.pc = "migrating" /\ lock' = lock /\ Remaining(p) # {}
          /\ \/ ledger[n] = old.files[n] /\ procs' = [procs EXCEPT ![p] = skipped]
             \/ ledger[n] = Vacant /\ procs' = [procs EXCEPT ![p] = begun]
      BY <1>5 DEF examine, InStage, Applied, RuntimeInv, RuntimeType
    <2>2. /\ n \in DOMAIN old.files /\ n > old.at /\ n \in Nat
          /\ \A m \in DOMAIN old.files : m > old.at => n =< m
      BY <1>2, <2>1, LeastName DEF Remaining
    <2> HIDE DEF n
    <2>3. skipped \in Process /\ begun \in Process
      BY <1>2, <2>2 DEF Process, Stages
    <2>4. ledger[n] = old.files[n] => Migrated(skipped, ledger)
      BY <1>2, <2>1, <2>2 DEF Migrated, Process, Starting
    <2>5. ledger[n] = Vacant => Migrated(begun, ledger)
      BY <1>2, <2>1, <2>2 DEF Migrated, Process, Starting
    <2>6. Orderly(skipped) /\ Orderly(begun)
      BY <1>2, <2>1 DEF Orderly, Process, Stopped
    <2>7. Holds(p, skipped, lock') /\ Holds(p, begun, lock')
      BY <1>2, <2>1 DEF Holds, Process
    <2> HIDE DEF skipped, begun
    <2> QED
      BY <1>1, <2>1, <2>3, <2>4, <2>5, <2>6, <2>7, ProcessStep
  <1> QED
    BY <1>3, <1>4, <1>5

(* The only step that writes the ledger: what it held stays.               *)
LEMMA CommitStep ==
    ASSUME RuntimeInv, NEW p \in Processes, commitMigration(p)
    PROVE  RuntimeInv'
  <1> DEFINE old == procs[p]
             new == [old EXCEPT !.pc = "migrating"]
             m == old.at
  <1>1. /\ old # Vacant /\ old.pc = "body" /\ ledger[m] = Vacant /\ lock' = lock
        /\ ledger' = [ledger EXCEPT ![m] = old.files[m]]
        /\ procs' = [procs EXCEPT ![p] = new]
    BY DEF commitMigration, InStage, Enter, RuntimeInv, RuntimeType
  <1>2. /\ old \in Process /\ old.files \in Releases
        /\ DOMAIN old.files \subseteq Names /\ DOMAIN old.files \subseteq Nat \ {0}
        /\ Migrated(old, ledger) /\ Orderly(old) /\ Holds(p, old, lock)
    BY <1>1, ProcessFacts
  <1>3. m \in DOMAIN old.files /\ m \in Names /\ lock = p
    BY <1>1, <1>2 DEF Migrated, Holds
  <1>4. \A n \in Names : ledger'[n] = IF n = m THEN old.files[m] ELSE ledger[n]
    BY <1>1 DEF RuntimeInv, RuntimeType
  <1>5. new \in Process
    BY <1>2 DEF Process, Stages
  <1>6. RuntimeType'
    BY <1>1, <1>5 DEF RuntimeInv, RuntimeType
  <1>7. Migrated(new, ledger') /\ Orderly(new) /\ Holds(p, new, lock')
    <2>1. Migrated(new, ledger')
      BY <1>1, <1>2, <1>3, <1>4 DEF Migrated, Process, Starting
    <2>2. Orderly(new)
      BY <1>1, <1>2 DEF Orderly, Process, Stopped
    <2> QED
      BY <1>1, <1>3, <2>1, <2>2 DEF Holds
  <1> HIDE DEF new
  <1>8. ASSUME NEW q \in Processes, procs'[q] # Vacant
        PROVE  Migrated(procs'[q], ledger') /\ Orderly(procs'[q]) /\ Holds(q, procs'[q], lock')
    <2>1. CASE q = p
      BY <1>1, <1>7, <2>1 DEF RuntimeInv, RuntimeType
    <2>2. CASE q # p
      <3>1. procs'[q] = procs[q] /\ procs[q] # Vacant
        BY <1>1, <1>8, <2>2 DEF RuntimeInv, RuntimeType
      <3>2. /\ DOMAIN procs[q].files \subseteq Names
            /\ \A n \in DOMAIN procs[q].files : procs[q].files[n] # Vacant
            /\ Migrated(procs[q], ledger) /\ Orderly(procs[q]) /\ Holds(q, procs[q], lock)
        BY <3>1, ProcessFacts
      <3>3. procs[q].pc # "body"
        BY <1>3, <2>2, <3>2 DEF Holds
      <3>4. Migrated(procs[q], ledger')
        BY <1>1, <1>3, <1>4, <3>2, <3>3 DEF Migrated
      <3> QED
        BY <1>1, <3>1, <3>2, <3>4
    <2> QED
      BY <2>1, <2>2
  <1> QED
    BY <1>6, <1>8 DEF RuntimeInv

(* A step outside the migrations.                                          *)
LEMMA RowStep ==
    ASSUME RuntimeInv, NEW p \in Processes, procs[p] # Vacant, NEW new \in Process,
           procs' = [procs EXCEPT ![p] = new], ledger' = ledger, lock' = lock,
           new.files = procs[p].files, new.at = procs[p].at,
           new.pc = procs[p].pc \/ {new.pc, procs[p].pc} \cap Starting = {},
           Orderly(new)
    PROVE  RuntimeInv'
  <1>1. Migrated(procs[p], ledger) /\ Holds(p, procs[p], lock)
    BY ProcessFacts
  <1>2. Migrated(new, ledger)
    BY <1>1 DEF Migrated, Starting
  <1>3. Holds(p, new, lock')
    BY <1>1 DEF Holds, Starting
  <1> QED
    BY <1>2, <1>3, ProcessStep

(* The steps that change the stage of a process, or its requests.          *)
StageStep(p) ==
    \/ verifyReadiness(p) \/ redisVerified(p) \/ listen(p) \/ request(p) \/ respond(p)
    \/ shutdown(p) \/ serverClosed(p) \/ close(p) \/ closed(p)

(* The stages after the migrations, to the end of shutdown.                *)
LEMMA StageKeeps ==
    ASSUME RuntimeInv, NEW p \in Processes, StageStep(p)
    PROVE  RuntimeInv'
  <1> DEFINE old == procs[p]
  <1>1. old # Vacant /\ ledger' = ledger /\ lock' = lock
    BY DEF StageStep, verifyReadiness, redisVerified, listen, request, respond, shutdown,
           serverClosed, close, closed, InStage
  <1>2. old \in Process /\ Orderly(old)
    BY <1>1, ProcessFacts
  <1>3. ASSUME NEW pc \in Stages,
               <<old.pc, pc>> \in {<<"probing", "linking">>, <<"linking", "warming">>,
                                    <<"listening", "draining">>},
               Enter(p, pc)
        PROVE  RuntimeInv'
    <2> DEFINE new == [old EXCEPT !.pc = pc]
    <2>1. new \in Process /\ procs' = [procs EXCEPT ![p] = new]
      BY <1>2, <1>3 DEF Process, Enter, RuntimeInv, RuntimeType
    <2>2. new.files = old.files /\ new.at = old.at /\ {new.pc, old.pc} \cap Starting = {}
      BY <1>2, <1>3 DEF Process, Starting
    <2>3. Orderly(new)
      BY <1>2, <1>3 DEF Orderly, Process, Stopped
    <2> HIDE DEF new
    <2> QED
      BY <1>1, <2>1, <2>2, <2>3, RowStep
  <1>4. CASE verifyReadiness(p) \/ redisVerified(p) \/ shutdown(p)
    BY <1>3, <1>4 DEF verifyReadiness, redisVerified, shutdown, InStage, Stages
  <1>5. CASE listen(p)
    <2> DEFINE new == [old EXCEPT !.pc = "listening", !.workers = [w \in Workers |-> "idle"]]
    <2>1. procs' = [procs EXCEPT ![p] = new] /\ old.pc = "warming"
      BY <1>5 DEF listen, InStage, RuntimeInv, RuntimeType
    <2>2. new \in Process
      BY <1>2 DEF Process, Stages, Running
    <2>3. new.files = old.files /\ new.at = old.at /\ {new.pc, old.pc} \cap Starting = {}
      BY <1>2, <2>1 DEF Process, Starting
    <2>4. Orderly(new)
      BY <1>2, <2>1 DEF Orderly, Process, Stopped
    <2> HIDE DEF new
    <2> QED
      BY <1>1, <2>1, <2>2, <2>3, <2>4, RowStep
  <1>6. CASE request(p) \/ respond(p)
    <2>1. PICK count \in Nat : /\ procs' = [procs EXCEPT ![p].requests = count]
                               /\ old.pc \notin Stopped
      <3>1. old.requests \in Nat
        BY <1>2 DEF Process
      <3>2. CASE request(p)
        <4>1. old.requests + 1 \in Nat
          BY <3>1
        <4> QED
          BY <3>2, <4>1 DEF request, InStage, RuntimeInv, RuntimeType, Stopped
      <3>3. CASE respond(p)
        <4>1. old.requests - 1 \in Nat
          BY <3>1, <3>3 DEF respond
        <4> QED
          <5>1. old.pc \notin Stopped
            BY <1>2, <3>3 DEF respond, Orderly
          <5>2. procs' = [procs EXCEPT ![p].requests = old.requests - 1]
            BY <3>3 DEF respond
          <5> QED
            BY <4>1, <5>1, <5>2
      <3> QED
        BY <1>6, <3>2, <3>3
    <2> DEFINE new == [old EXCEPT !.requests = count]
    <2>2. new \in Process /\ procs' = [procs EXCEPT ![p] = new]
      BY <1>2, <2>1 DEF Process, RuntimeInv, RuntimeType
    <2>3. new.files = old.files /\ new.at = old.at /\ new.pc = old.pc
      BY <1>2 DEF Process
    <2>4. Orderly(new)
      BY <1>2, <2>1 DEF Orderly, Process
    <2> HIDE DEF new
    <2> QED
      BY <1>1, <2>2, <2>3, <2>4, RowStep
  <1>7. CASE serverClosed(p)
    <2> DEFINE new == [old EXCEPT !.pc = "stopping", !.aborted = TRUE]
    <2>1. procs' = [procs EXCEPT ![p] = new] /\ old.pc = "draining" /\ old.requests = 0
      BY <1>7 DEF serverClosed, InStage, RuntimeInv, RuntimeType
    <2>2. new \in Process
      BY <1>2 DEF Process, Stages
    <2>3. new.files = old.files /\ new.at = old.at /\ {new.pc, old.pc} \cap Starting = {}
      BY <1>2, <2>1 DEF Process, Starting
    <2>4. Orderly(new)
      BY <1>2, <2>1 DEF Orderly, Process, Stopped
    <2> HIDE DEF new
    <2> QED
      BY <1>1, <2>1, <2>2, <2>3, <2>4, RowStep
  <1>8. CASE close(p)
    <2> DEFINE new == [old EXCEPT !.pc = "closing", !.closing = TRUE,
                                  !.link = LinkAfterClose(old.link)]
    <2>1. procs' = [procs EXCEPT ![p] = new] /\ old.pc = "stopping" /\ Settled(p)
      BY <1>8 DEF close, InStage, RuntimeInv, RuntimeType
    <2>2. LinkAfterClose(old.link) \in {"shut", "queued"}
      BY <1>2 DEF LinkAfterClose, IsOpen, Process
    <2>3. new \in Process
      BY <1>2, <2>2 DEF Process, Stages
    <2>4. new.files = old.files /\ new.at = old.at /\ {new.pc, old.pc} \cap Starting = {}
      BY <1>2, <2>1 DEF Process, Starting
    <2>5. Orderly(new)
      <3>1. /\ new.pc = "closing" /\ new.closing /\ new.requests = old.requests
            /\ new.failed = old.failed /\ new.workers = old.workers
            /\ new.link \in {"shut", "queued"}
        BY <1>2, <2>2 DEF Process
      <3>2. old.requests = 0
        BY <1>2, <2>1 DEF Orderly, Stopped
      <3> HIDE DEF new
      <3> QED
        BY <2>1, <3>1, <3>2 DEF Orderly, Stopped, Settled
    <2> HIDE DEF new
    <2> QED
      BY <1>1, <2>1, <2>3, <2>4, <2>5, RowStep
  <1>9. CASE closed(p)
    <2> DEFINE new == [old EXCEPT !.pc = "ended"]
    <2>1. /\ procs' = [procs EXCEPT ![p] = new] /\ old.pc = "closing"
          /\ old.link \notin {"queued", "connecting"}
      BY <1>9 DEF closed, InStage, Enter, RuntimeInv, RuntimeType
    <2>2. new \in Process
      BY <1>2 DEF Process, Stages
    <2>3. new.files = old.files /\ new.at = old.at /\ {new.pc, old.pc} \cap Starting = {}
      BY <1>2, <2>1 DEF Process, Starting
    <2>4. Orderly(new)
      BY <1>2, <2>1 DEF Orderly, Process, Stopped
    <2> HIDE DEF new
    <2> QED
      BY <1>1, <2>1, <2>2, <2>3, <2>4, RowStep
  <1> QED
    BY <1>4, <1>5, <1>6, <1>7, <1>8, <1>9 DEF StageStep

(* The Redis client.  Nothing opens it once it is closing.                 *)
LEMMA LinkKeeps ==
    ASSUME RuntimeInv, NEW p \in Processes, startConnect(p) \/ attempt(p) \/ linkChanges(p)
    PROVE  RuntimeInv'
  <1> DEFINE old == procs[p]
  <1>1. old # Vacant /\ ledger' = ledger /\ lock' = lock
    BY DEF startConnect, attempt, linkChanges, Using, Link
  <1>2. old \in Process /\ Orderly(old)
    BY <1>1, ProcessFacts
  <1>3. PICK link \in {"shut", "queued", "connecting", "ready", "lost"} :
          /\ procs' = [procs EXCEPT ![p].link = link]
          /\ old.closing => link = "shut" /\ old.link # "shut"
    <2>1. CASE startConnect(p)
      BY <2>1 DEF startConnect, Link
    <2>2. CASE attempt(p)
      <3>1. procs' = [procs EXCEPT ![p].link = IF old.closing THEN "shut" ELSE "connecting"]
        BY <2>2 DEF attempt, Link
      <3>2. old.link = "queued"
        BY <2>2 DEF attempt
      <3>3. CASE old.closing
        BY <3>1, <3>2, <3>3
      <3>4. CASE ~ old.closing
        BY <3>1, <3>4
      <3> QED
        BY <3>3, <3>4
    <2>3. CASE linkChanges(p)
      <3>1. ~ old.closing
        BY <1>2, <2>3 DEF linkChanges, Orderly
      <3> QED
        <4>1. PICK change \in {<<"connecting", "ready">>, <<"connecting", "shut">>,
                                <<"ready", "lost">>, <<"lost", "ready">>, <<"lost", "shut">>} :
                Link(p, change[2])
          BY <2>3 DEF linkChanges
        <4>2. change[2] \in {"shut", "queued", "connecting", "ready", "lost"}
          OBVIOUS
        <4> QED
          BY <3>1, <4>1, <4>2 DEF Link
    <2> QED
      BY <2>1, <2>2, <2>3
  <1> DEFINE new == [old EXCEPT !.link = link]
  <1>4. new \in Process /\ procs' = [procs EXCEPT ![p] = new]
    BY <1>2, <1>3 DEF Process, RuntimeInv, RuntimeType
  <1>5. new.files = old.files /\ new.at = old.at /\ new.pc = old.pc
    BY <1>2 DEF Process
  <1>6. Orderly(new)
    <2>1. /\ new.requests = old.requests /\ new.closing = old.closing /\ new.failed = old.failed
          /\ new.workers = old.workers /\ new.link = link
      BY <1>2 DEF Process
    <2> HIDE DEF new
    <2> QED
      BY <1>2, <1>3, <1>5, <2>1 DEF Orderly
  <1> HIDE DEF new
  <1> QED
    BY <1>1, <1>4, <1>5, <1>6, RowStep

(* A worker's step that is not its failure, with what it does to the link. *)
Stepped(p, w, link) ==
    /\ procs[p] # Vacant
    /\ procs[p].workers[w] # "done"
    /\ \E to \in Running \cup {"done"} :
          procs' = [procs EXCEPT ![p].workers[w] = to, ![p].link = link]
    /\ UNCHANGED <<ledger, lock>>

(* Such a step never happens to workers that are done.                     *)
LEMMA WorkKeeps ==
    ASSUME RuntimeInv, NEW p \in Processes, NEW w \in Workers,
           NEW link \in {procs[p].link, "shut"}, Stepped(p, w, link)
    PROVE  RuntimeInv'
  <1> DEFINE old == procs[p]
  <1>1. old # Vacant /\ ledger' = ledger /\ lock' = lock /\ old.workers[w] # "done"
    BY DEF Stepped
  <1>2. old \in Process /\ Orderly(old)
    BY <1>1, ProcessFacts
  <1>3. PICK to \in Running \cup {"done"} :
          procs' = [procs EXCEPT ![p].workers[w] = to, ![p].link = link]
    BY DEF Stepped
  <1> DEFINE new == [old EXCEPT !.workers = [old.workers EXCEPT ![w] = to], !.link = link]
  <1>4. new \in Process /\ procs' = [procs EXCEPT ![p] = new]
    BY <1>2, <1>3 DEF Process, RuntimeInv, RuntimeType
  <1>5. new.files = old.files /\ new.at = old.at /\ new.pc = old.pc
    BY <1>2 DEF Process
  <1>6. /\ new.requests = old.requests /\ new.closing = old.closing /\ new.failed = old.failed
        /\ new.link \in {old.link, "shut"}
    BY <1>2 DEF Process
  <1> HIDE DEF new
  <1>7. Orderly(new)
    BY <1>1, <1>2, <1>5, <1>6 DEF Orderly
  <1> QED
    BY <1>1, <1>4, <1>5, <1>7, RowStep

(* A worker's failure stops the process.                                   *)
LEMMA FailureKeeps ==
    ASSUME RuntimeInv, NEW p \in Processes, procs[p] # Vacant, NEW w \in Workers,
           WorkerFails(p, w)
    PROVE  RuntimeInv'
  <1> DEFINE old == procs[p]
             pc == IF old.pc = "listening" THEN "draining" ELSE old.pc
             new == [old EXCEPT !.workers = [old.workers EXCEPT ![w] = "failed"],
                                !.failed = TRUE, !.pc = pc]
  <1>1. ledger' = ledger /\ lock' = lock
    BY DEF WorkerFails
  <1>2. old \in Process /\ Orderly(old)
    BY ProcessFacts
  <1>3. procs' = [procs EXCEPT ![p] = new]
    BY <1>2 DEF WorkerFails, RuntimeInv, RuntimeType, Process
  <1>4. pc \in Stages
    BY <1>2 DEF Process, Stages
  <1>5. pc = old.pc \/ (pc = "draining" /\ old.pc = "listening")
    OBVIOUS
  <1> HIDE DEF pc
  <1>6. new \in Process
    BY <1>2, <1>4 DEF Process
  <1>7. /\ new.files = old.files /\ new.at = old.at /\ new.pc = pc /\ new.failed = TRUE
        /\ new.requests = old.requests /\ new.closing = old.closing /\ new.link = old.link
    BY <1>2 DEF Process
  <1> HIDE DEF new
  <1>8. Orderly(new)
    BY <1>2, <1>5, <1>7 DEF Orderly, Stopped
  <1>9. new.pc = old.pc \/ {new.pc, old.pc} \cap Starting = {}
    BY <1>5, <1>7 DEF Starting
  <1> QED
    BY <1>1, <1>3, <1>6, <1>7, <1>8, <1>9, RowStep

(* What Work does is such a step.                                          *)
LEMMA WorkIsStepped ==
    ASSUME RuntimeInv, NEW p \in Processes, NEW w \in Workers, NEW from \in Running,
           NEW to \in Running \cup {"done"}, Work(p, w, from, to)
    PROVE  RuntimeInv'
  <1>1. procs[p] # Vacant /\ procs[p].workers[w] = from
    BY DEF Work
  <1>2. procs[p] \in Process
    BY <1>1, ProcessFacts
  <1>3. procs' = [procs EXCEPT ![p].workers[w] = to, ![p].link = procs[p].link]
    BY <1>2 DEF Work, RuntimeInv, RuntimeType, Process
  <1>4. Stepped(p, w, procs[p].link)
    BY <1>1, <1>3 DEF Stepped, Work, Running
  <1> QED
    BY <1>4, WorkKeeps

(* Workers and the Redis client.                                           *)
LEMMA WorkNextKeeps ==
    ASSUME RuntimeInv, NEW p \in Processes, WorkNext(p)
    PROVE  RuntimeInv'
  <1> USE DEF Running
  <1>1. "outbox" \in Workers
    BY DEF Workers
  <1>2. CASE startConnect(p) \/ attempt(p) \/ linkChanges(p)
    BY <1>2, LinkKeeps
  <1>3. CASE verified(p)
    <2> DEFINE to == IF procs[p].aborted THEN "done" ELSE "busy"
    <2>1. Work(p, "outbox", "probing", to) /\ to \in Running \cup {"done"}
      BY <1>3 DEF verified
    <2> QED
      BY <1>1, <2>1, WorkIsStepped
  <1>4. CASE unverified(p)
    <2> DEFINE to == IF procs[p].aborted THEN "done" ELSE "fallback"
    <2>1. Work(p, "outbox", "probing", to) /\ to \in Running \cup {"done"}
      BY <1>4 DEF unverified
    <2> QED
      BY <1>1, <2>1, WorkIsStepped
  <1>5. CASE postgresAnswers(p)
    BY <1>1, <1>5, WorkIsStepped DEF postgresAnswers
  <1>6. CASE \E w \in Workers : cycle(p, w)
    <2>1. PICK w \in Workers : cycle(p, w)
      BY <1>6
    <2> DEFINE to == CASE procs[p].aborted -> "done" [] w = "outbox" -> "probing" [] OTHER -> "busy"
    <2>2. Work(p, w, "idle", to) /\ to \in Running \cup {"done"}
      BY <2>1 DEF cycle
    <2> QED
      BY <2>2, WorkIsStepped
  <1>7. CASE \E w \in Workers : cycleEnds(p, w)
    BY <1>7, WorkIsStepped DEF cycleEnds
  <1>8. CASE \E w \in Workers : cycleFails(p, w)
    <2>1. PICK w \in Workers : cycleFails(p, w)
      BY <1>8
    <2>2. CASE WorkerFails(p, w)
      BY <2>1, <2>2, FailureKeeps DEF cycleFails
    <2>3. CASE ~ WorkerFails(p, w)
      <3>1. PICK link \in {procs[p].link,
                           IF IsOpen(procs[p].link) THEN "shut" ELSE procs[p].link} :
              /\ procs' = [procs EXCEPT ![p].workers[w] = "done", ![p].link = link]
              /\ UNCHANGED <<ledger, lock, starts>>
        BY <2>1, <2>3 DEF cycleFails
      <3>2. link \in {procs[p].link, "shut"}
        BY <3>1
      <3>3. Stepped(p, w, link)
        BY <2>1, <2>3, <3>1 DEF Stepped, cycleFails
      <3> QED
        BY <3>2, <3>3, WorkKeeps
    <2> QED
      BY <2>2, <2>3
  <1> QED
    BY <1>2, <1>3, <1>4, <1>5, <1>6, <1>7, <1>8 DEF WorkNext

(* RuntimeInv is inductive.                                                *)
LEMMA RuntimeInvHolds == RuntimeSpec => []RuntimeInv
  <1>1. ASSUME RuntimeInit
        PROVE  RuntimeInv
    BY <1>1 DEF RuntimeInit, RuntimeInv, RuntimeType
  <1>2. ASSUME RuntimeInv, RuntimeNext
        PROVE  RuntimeInv'
    <2>1. PICK p \in Processes : StartupNext(p) \/ WorkNext(p) \/ StopNext(p)
      BY <1>2 DEF RuntimeNext
    <2>2. CASE WorkNext(p)
      BY <1>2, <2>2, WorkNextKeeps
    <2>3. CASE StopNext(p)
      BY <1>2, <2>3, StageKeeps DEF StopNext, StageStep
    <2>4. CASE StartupNext(p)
      <3>1. CASE boot(p)
        BY <1>2, <3>1, BootStep
      <3>2. CASE lockMigrations(p) \/ examine(p) \/ unlockMigrations(p)
        BY <1>2, <3>2, MigrateStep
      <3>3. CASE commitMigration(p)
        BY <1>2, <3>3, CommitStep
      <3>4. CASE verifyReadiness(p) \/ redisVerified(p) \/ listen(p)
        BY <1>2, <3>4, StageKeeps DEF StageStep
      <3>5. CASE bootFails(p) \/ crash(p)
        BY <1>2, <3>5, EndStep DEF bootFails, crash
      <3> QED
        BY <2>4, <3>1, <3>2, <3>3, <3>4, <3>5 DEF StartupNext
    <2> QED
      BY <2>1, <2>2, <2>3, <2>4
  <1>3. ASSUME RuntimeInv, UNCHANGED runtimeVars
        PROVE  RuntimeInv'
    BY <1>3 DEF runtimeVars, RuntimeInv, RuntimeType
  <1> QED
    BY <1>1, <1>2, <1>3, PTL DEF RuntimeSpec

(* For any releases, processes and restarts: a process runs the body of a  *)
(* migration alone and before anybody has applied it, and takes requests   *)
(* and runs workers only when every migration of its release is applied as *)
(* that release has it (runPostgresMigrations, bootstrapRoadEventRuntime). *)
THEOREM DeploymentStaysSafe == RuntimeSpec => []DeploymentIsSafe
  <1>1. ASSUME RuntimeInv
        PROVE  DeploymentIsSafe
    <2>1. BodyIsNew
      BY <1>1 DEF RuntimeInv, BodyIsNew, InStage, Migrated, Holds
    <2>2. ServingIsMigrated
      BY <1>1 DEF RuntimeInv, ServingIsMigrated, Migrated, Starting
    <2> QED
      BY <2>1, <2>2 DEF DeploymentIsSafe
  <1> QED
    BY <1>1, RuntimeInvHolds, PTL

(* For any number of processes and requests: resources are closed only     *)
(* when no request is in flight and every worker has returned or one has   *)
(* failed, and the Redis client stays closed (main,                        *)
(* NodeRedisStreamClient.close).                                           *)
THEOREM CleanShutdown == RuntimeSpec => []ShutdownIsClean
  <1>1. ASSUME RuntimeInv
        PROVE  ShutdownIsClean
    <2>1. ClosedWhenQuiet
      BY <1>1 DEF RuntimeInv, ClosedWhenQuiet, Orderly, Stopped
    <2>2. ClosedStaysClosed
      BY <1>1 DEF RuntimeInv, ClosedStaysClosed, InStage, Orderly
    <2> QED
      BY <2>1, <2>2 DEF ShutdownIsClean
  <1> QED
    BY <1>1, RuntimeInvHolds, PTL

----------------------------------------------------------------------------
(* StagingReview                                                           *)

(* The phases of a run, those in which it may still plan and those in      *)
(* which it remembers the plan it hashed.                                  *)
Phases == {"reading", "checkout", "digesting", "vars", "copying", "planning", "planned",
           "manifest", "plan", "showing", "shown", "hashing", "verifying"}

Early == {"reading", "checkout", "digesting", "vars", "copying", "planning"}
Late == {"showing", "shown", "hashing", "verifying"}

(* The bytes of a file that may not have been read.                        *)
Bytes == Nat \cup {NoFile}

(* What a run remembers.                                                   *)
Run == [phase : Phases, review : BOOLEAN, manifest : Bytes, manifestDigest : Bytes,
        vars : Bytes, iac : Bytes, before : Plan \cup {NoFile}, shown : Plan \cup {NoFile},
        todo : SUBSET EvidenceFiles, files : [EvidenceFiles -> Bytes],
        atPackage : [EvidenceFiles -> Nat] \cup {NoFile}]

(* What a run has hashed is not newer than the inputs, and what it has     *)
(* compared again has not changed since.                                   *)
Dated(run, now) ==
    /\ run.phase \notin {"hashing", "verifying"} => run.todo = EvidenceFiles
    /\ run.phase \in {"copying", "planning", "planned"} =>
          run.vars \in Nat /\ run.vars =< now["tfvars"]
    /\ run.phase = "hashing" =>
          /\ ~ run.review
          /\ \A e \in EvidenceFiles \ run.todo : run.files[e] \in Nat /\ run.files[e] =< now[e]
    /\ run.phase = "verifying" /\ ~ run.review =>
          /\ run.atPackage \in [EvidenceFiles -> Nat]
          /\ \A e \in EvidenceFiles :
                /\ run.files[e] \in Nat
                /\ run.files[e] =< run.atPackage[e]
                /\ run.atPackage[e] =< now[e]
                /\ e \notin run.todo => run.files[e] = run.atPackage[e]

(* The plan of a run that has one, and the tfvars it was made of.          *)
Bound(r, run, now, plan) ==
    /\ run.phase \in {"planned", "manifest"} \cup Late => plan # NoFile
    /\ run.phase = "planned" /\ plan.by = r =>
          run.vars =< plan.vars /\ plan.vars =< now["tfvars"]
    /\ run.phase \in {"manifest", "plan"} /\ ~ run.review /\ plan # NoFile /\ plan.by = r =>
          plan.vars = run.vars
    /\ run.phase \in Late /\ ~ run.review /\ run.before.by = r =>
          run.before.vars = run.vars

(* A plan that was shown is the one hashed before, unless the file is no   *)
(* longer the one hashed before.                                           *)
Shown(run, plan) ==
    /\ run.phase \in Late => run.before \in Plan
    /\ run.phase = "shown" /\ run.shown # run.before => plan # run.before
    /\ run.phase \in {"hashing", "verifying"} => run.shown = run.before

(* Who can still plan: nobody whose plan was seen.                         *)
MayPlan(r, all) == all[r] # NoFile /\ all[r].phase \in Early

(* The runs that wrote the plans seen so far are past planning: the names  *)
(* of all outputs were free when they began.                               *)
Spent ==
    /\ outputs["plan"] # NoFile => outputs["plan"] \in Plan /\ ~ MayPlan(outputs["plan"].by, runs)
    /\ \A r \in Runners : runs[r] # NoFile /\ runs[r].phase \in Late =>
          ~ MayPlan(runs[r].before.by, runs)

(* Well-formed inputs, outputs and runs.                                   *)
StagingType ==
    /\ inputs \in [InputFiles -> Nat]
    /\ outputs = [o \in Outputs |-> outputs[o]]
    /\ runs \in [Runners -> Run \cup {NoFile}]

(* What was written is as a verified run knew it.                          *)
ReportsAreGrounded ==
    /\ outputs["decision"] # NoFile /\ outputs["decision"].ready =>
          outputs["decision"].plan.harmless
    /\ outputs["package"] # NoFile => outputs["package"].manifest \in Bytes
    /\ outputs["package"] # NoFile => outputs["package"].files \in [EvidenceFiles -> Bytes]
    /\ PackageIsSnapshot
    /\ InputsAreBound
    /\ ReportsAreOneRun

(* What holds of every run.                                                *)
Kept(r, run, now, plan) == Dated(run, now) /\ Bound(r, run, now, plan) /\ Shown(run, plan)

(* The inductive invariant.                                                *)
StagingInv ==
    /\ StagingType
    /\ Spent
    /\ \A r \in Runners : runs[r] # NoFile => Kept(r, runs[r], inputs, outputs["plan"])
    /\ ReportsAreGrounded

(* What is known of a run.                                                 *)
LEMMA RunFacts ==
    ASSUME StagingInv, NEW r \in Runners, runs[r] # NoFile
    PROVE  /\ runs[r] \in Run
           /\ Dated(runs[r], inputs) /\ Bound(r, runs[r], inputs, outputs["plan"])
           /\ Shown(runs[r], outputs["plan"])
  BY DEF StagingInv, StagingType, Kept

(* A step of one run that writes no file.                                  *)
LEMMA RunMoves ==
    ASSUME StagingInv, NEW r \in Runners, NEW new \in Run,
           runs' = [runs EXCEPT ![r] = new], UNCHANGED <<inputs, outputs>>,
           Dated(new, inputs), Bound(r, new, inputs, outputs["plan"]), Shown(new, outputs["plan"]),
           new.phase \in Early => MayPlan(r, runs) \/ outputs["plan"] = NoFile,
           new.phase \in Late => ~ MayPlan(new.before.by, runs)
    PROVE  StagingInv'
  <1>1. StagingType'
    BY DEF StagingInv, StagingType
  <1>2. runs'[r] = new /\ \A q \in Runners \ {r} : runs'[q] = runs[q]
    BY DEF StagingInv, StagingType
  <1>3. ASSUME NEW q \in Runners, runs'[q] # NoFile
        PROVE  Kept(q, runs'[q], inputs', outputs'["plan"])
    <2>1. CASE q = r
      BY <1>2, <2>1 DEF Kept
    <2>2. CASE q # r
      BY <1>2, <1>3, <2>2 DEF StagingInv
    <2> QED
      BY <2>1, <2>2
  <1>4. ASSUME NEW q \in Runners, outputs["plan"] # NoFile, MayPlan(q, runs')
        PROVE  MayPlan(q, runs)
    <2>1. CASE q = r
      BY <1>2, <1>4, <2>1 DEF MayPlan
    <2>2. CASE q # r
      BY <1>2, <1>4, <2>2 DEF MayPlan
    <2> QED
      BY <2>1, <2>2
  <1>5. Spent'
    <2>1. outputs["plan"] # NoFile =>
             outputs["plan"] \in Plan /\ ~ MayPlan(outputs["plan"].by, runs')
      BY <1>4 DEF StagingInv, Spent, Plan
    <2>2. ASSUME NEW q \in Runners, runs'[q] # NoFile, runs'[q].phase \in Late
          PROVE  ~ MayPlan(runs'[q].before.by, runs')
      <3>1. /\ outputs["plan"] # NoFile /\ runs'[q].before \in Plan
        BY <1>3, <2>2 DEF Kept, Bound, Shown
      <3>2. ~ MayPlan(runs'[q].before.by, runs)
        <4>1. CASE q = r
          BY <1>2, <2>2, <4>1
        <4>2. CASE q # r
          BY <1>2, <2>2, <4>2 DEF StagingInv, Spent
        <4> QED
          BY <4>1, <4>2
      <3>3. runs'[q].before.by \in Runners
        BY <3>1 DEF Plan
      <3> DEFINE x == runs'[q].before.by
      <3>4. MayPlan(x, runs') => MayPlan(x, runs)
        BY <1>4, <3>1, <3>3
      <3> QED
        BY <3>2, <3>4
    <2> QED
      BY <2>1, <2>2 DEF Spent
  <1>6. ReportsAreGrounded'
    BY DEF StagingInv, ReportsAreGrounded, PackageIsSnapshot, InputsAreBound,
           ReportsAreOneRun, Written
  <1> QED
    BY <1>1, <1>3, <1>5, <1>6 DEF StagingInv

(* A run begins while the names are free, or reviews a package.            *)
LEMMA Beginnings ==
    ASSUME StagingInv, NEW r \in Runners, BeginPlanOnly(r) \/ BeginReview(r)
    PROVE  StagingInv'
  <1>1. UNCHANGED <<inputs, outputs>>
    BY DEF BeginPlanOnly, BeginReview
  <1>2. Blank \in Run /\ Blank.phase = "reading" /\ Blank.todo = EvidenceFiles
    BY DEF Blank, Run, Phases, Bytes
  <1>3. CASE BeginPlanOnly(r)
    <2>1. runs' = [runs EXCEPT ![r] = Blank] /\ outputs["plan"] = NoFile
      BY <1>3 DEF BeginPlanOnly, ensureOutputNamesAvailable, Outputs
    <2>2. Dated(Blank, inputs) /\ Bound(r, Blank, inputs, outputs["plan"])
          /\ Shown(Blank, outputs["plan"])
      BY <1>2 DEF Dated, Bound, Shown, Late
    <2> QED
      BY <1>1, <1>2, <2>1, <2>2, RunMoves DEF Late
  <1>4. CASE BeginReview(r)
    <2> DEFINE new == [Blank EXCEPT !.phase = "plan", !.review = TRUE,
                                    !.manifest = outputs["package"].manifest,
                                    !.files = outputs["package"].files]
    <2>1. runs' = [runs EXCEPT ![r] = new] /\ outputs["package"] # NoFile
      BY <1>4 DEF BeginReview, Written, Reports
    <2>2. /\ outputs["package"].manifest \in Bytes
          /\ outputs["package"].files \in [EvidenceFiles -> Bytes]
      BY <2>1 DEF StagingInv, ReportsAreGrounded
    <2>3. new \in Run /\ new.phase = "plan" /\ new.review /\ new.todo = EvidenceFiles
      BY <1>2, <2>2 DEF Run, Phases
    <2> HIDE DEF new
    <2>4. /\ Dated(new, inputs) /\ Bound(r, new, inputs, outputs["plan"])
          /\ Shown(new, outputs["plan"])
      BY <2>3 DEF Dated, Bound, Shown, Late
    <2> QED
      BY <1>1, <2>1, <2>3, <2>4, RunMoves DEF Late, Early
  <1> QED
    BY <1>3, <1>4

(* Up to the plan: the run is one of those that may plan.                  *)
LEMMA EarlySteps ==
    ASSUME StagingInv, NEW r \in Runners,
           \/ readManifest(r) \/ ensureCleanExactGitHead(r) \/ digestManifest(r)
           \/ digestVars(r) \/ copyTrackedStagingIac(r)
    PROVE  StagingInv'
  <1> DEFINE old == runs[r]
  <1>1. /\ old # NoFile /\ old.phase \in Early \ {"planning"} /\ UNCHANGED <<inputs, outputs>>
        /\ \A f \in InputFiles : inputs[f] \in Nat
        /\ {"manifest", "tfvars", "checkout"} \subseteq InputFiles
    BY DEF readManifest, ensureCleanExactGitHead, digestManifest, digestVars,
           copyTrackedStagingIac, InPhase, Early, InputFiles, StagingInv, StagingType
  <1>2. old \in Run /\ Dated(old, inputs) /\ old.todo = EvidenceFiles
    BY <1>1, RunFacts DEF Dated, Early
  <1>3. PICK new \in Run :
          /\ runs' = [runs EXCEPT ![r] = new]
          /\ new.phase \in Early /\ new.todo = EvidenceFiles
          /\ new.phase \in {"copying", "planning"} =>
                new.vars \in Nat /\ new.vars =< inputs["tfvars"]
    <2> DEFINE Good(new) ==
          /\ runs' = [runs EXCEPT ![r] = new]
          /\ new.phase \in Early /\ new.todo = EvidenceFiles
          /\ new.phase \in {"copying", "planning"} =>
                new.vars \in Nat /\ new.vars =< inputs["tfvars"]
    <2>1. CASE readManifest(r)
      <3> DEFINE new == [old EXCEPT !.manifest = inputs["manifest"], !.phase = "checkout"]
      <3>1. runs' = [runs EXCEPT ![r] = new]
        BY <2>1 DEF readManifest, Proceed, StagingInv, StagingType
      <3>2. new \in Run /\ new.phase = "checkout" /\ new.todo = old.todo
        BY <1>1, <1>2 DEF Run, Phases, Bytes
      <3> QED
        BY <1>2, <3>1, <3>2 DEF Early
    <2>2. CASE ensureCleanExactGitHead(r)
      <3> DEFINE new == [old EXCEPT !.phase = "digesting"]
      <3>1. runs' = [runs EXCEPT ![r] = new]
        BY <2>2 DEF ensureCleanExactGitHead, StagingInv, StagingType
      <3>2. new \in Run /\ new.phase = "digesting" /\ new.todo = old.todo
        BY <1>1, <1>2 DEF Run, Phases, Bytes
      <3> QED
        BY <1>2, <3>1, <3>2 DEF Early
    <2>3. CASE digestManifest(r)
      <3> DEFINE new == [old EXCEPT !.manifestDigest = inputs["manifest"], !.phase = "vars"]
      <3>1. runs' = [runs EXCEPT ![r] = new]
        BY <2>3 DEF digestManifest, Proceed, StagingInv, StagingType
      <3>2. new \in Run /\ new.phase = "vars" /\ new.todo = old.todo
        BY <1>1, <1>2 DEF Run, Phases, Bytes
      <3> QED
        BY <1>2, <3>1, <3>2 DEF Early
    <2>4. CASE digestVars(r)
      <3> DEFINE new == [old EXCEPT !.vars = inputs["tfvars"], !.phase = "copying"]
      <3>1. runs' = [runs EXCEPT ![r] = new]
        BY <2>4 DEF digestVars, Proceed, StagingInv, StagingType
      <3>2. /\ new \in Run /\ new.phase = "copying" /\ new.todo = old.todo
            /\ new.vars = inputs["tfvars"]
        BY <1>1, <1>2 DEF Run, Phases, Bytes
      <3>3. new.vars \in Nat /\ new.vars =< inputs["tfvars"]
        BY <1>1, <3>2
      <3> QED
        BY <1>2, <3>1, <3>2, <3>3 DEF Early
    <2>5. CASE copyTrackedStagingIac(r)
      <3> DEFINE new == [old EXCEPT !.iac = inputs["checkout"], !.phase = "planning"]
      <3>1. runs' = [runs EXCEPT ![r] = new] /\ old.phase = "copying"
        BY <2>5 DEF copyTrackedStagingIac, InPhase, Proceed, StagingInv, StagingType
      <3>2. new \in Run /\ new.phase = "planning" /\ new.todo = old.todo /\ new.vars = old.vars
        BY <1>1, <1>2 DEF Run, Phases, Bytes
      <3> QED
        BY <1>2, <3>1, <3>2 DEF Early, Dated
    <2> QED
      BY <2>1, <2>2, <2>3, <2>4, <2>5
  <1>4. Dated(new, inputs) /\ Bound(r, new, inputs, outputs["plan"]) /\ Shown(new, outputs["plan"])
    BY <1>3 DEF Dated, Bound, Shown, Early, Late
  <1>5. MayPlan(r, runs)
    BY <1>1 DEF MayPlan
  <1> QED
    BY <1>1, <1>3, <1>4, <1>5, RunMoves DEF Early, Late

(* From the plan to the report: no run that gets further plans again.      *)
LEMMA LaterSteps ==
    ASSUME StagingInv, NEW r \in Runners,
           \/ checkVars(r) \/ checkManifest(r) \/ digestPlan(r) \/ terraformShow(r)
           \/ planUnchanged(r) \/ composePackage(r)
           \/ \E e \in EvidenceFiles : hashEvidence(r, e) \/ verifyEvidence(r, e)
    PROVE  StagingInv'
  <1> DEFINE old == runs[r]
             plan == outputs["plan"]
  <1>1. /\ old # NoFile /\ UNCHANGED <<inputs, outputs>>
        /\ \A f \in InputFiles : inputs[f] \in Nat
        /\ EvidenceFiles \cup {"tfvars"} \subseteq InputFiles
    BY DEF checkVars, checkManifest, digestPlan, terraformShow, planUnchanged, composePackage,
           hashEvidence, verifyEvidence, InPhase, InputFiles, StagingInv, StagingType
  <1>2. old \in Run /\ Dated(old, inputs) /\ Bound(r, old, inputs, plan) /\ Shown(old, plan)
    BY <1>1, RunFacts
  <1>3. plan # NoFile => plan \in Plan /\ ~ MayPlan(plan.by, runs)
    BY DEF StagingInv, Spent
  <1>4. old.phase \in Late => ~ MayPlan(old.before.by, runs)
    BY <1>1 DEF StagingInv, Spent
  <1>5. ASSUME NEW new \in Run, runs' = [runs EXCEPT ![r] = new],
               Dated(new, inputs), Bound(r, new, inputs, plan), Shown(new, plan),
               new.phase \notin Early, new.phase \in Late => ~ MayPlan(new.before.by, runs)
        PROVE  StagingInv'
    BY <1>1, <1>5, RunMoves
  <1>6. CASE checkVars(r)
    <2> DEFINE new == [old EXCEPT !.phase = "manifest"]
    <2>1. runs' = [runs EXCEPT ![r] = new] /\ old.phase = "planned" /\ inputs["tfvars"] = old.vars
      BY <1>6 DEF checkVars, VarsUnchanged, InPhase, StagingInv, StagingType
    <2>2. /\ new \in Run /\ new.phase = "manifest" /\ new.vars = old.vars /\ new.todo = old.todo
      BY <1>2 DEF Run, Phases
    <2> HIDE DEF new
    <2>3. Dated(new, inputs) /\ Shown(new, plan)
      BY <1>2, <2>1, <2>2 DEF Dated, Shown, Late
    <2>4. Bound(r, new, inputs, plan)
      <3>1. plan # NoFile
        BY <1>2, <2>1 DEF Bound
      <3>2. plan.vars \in Nat /\ inputs["tfvars"] \in Nat
        BY <1>1, <1>3, <3>1 DEF Plan
      <3>3. plan.by = r => plan.vars = old.vars
        BY <1>2, <2>1, <3>2 DEF Bound
      <3> QED
        BY <2>2, <3>1, <3>3 DEF Bound, Late
    <2> QED
      BY <1>5, <2>1, <2>2, <2>3, <2>4 DEF Early, Late
  <1>7. CASE checkManifest(r)
    <2> DEFINE new == [old EXCEPT !.phase = "plan"]
    <2>1. runs' = [runs EXCEPT ![r] = new] /\ old.phase = "manifest"
      BY <1>7 DEF checkManifest, InPhase, StagingInv, StagingType
    <2>2. /\ new \in Run /\ new.phase = "plan" /\ new.vars = old.vars /\ new.review = old.review
          /\ new.todo = old.todo
      BY <1>2 DEF Run, Phases
    <2> HIDE DEF new
    <2>3. Dated(new, inputs) /\ Shown(new, plan)
      BY <1>2, <2>1, <2>2 DEF Dated, Shown, Late
    <2>4. Bound(r, new, inputs, plan)
      BY <1>2, <2>1, <2>2 DEF Bound, Late
    <2> QED
      BY <1>5, <2>1, <2>2, <2>3, <2>4 DEF Early, Late
  <1>8. CASE digestPlan(r)
    <2> DEFINE new == [old EXCEPT !.before = plan, !.phase = "showing"]
    <2>1. runs' = [runs EXCEPT ![r] = new] /\ old.phase = "plan" /\ plan # NoFile
      BY <1>8 DEF digestPlan, InPhase, Proceed, StagingInv, StagingType
    <2>2. /\ new \in Run /\ new.phase = "showing" /\ new.vars = old.vars
          /\ new.review = old.review /\ new.before = plan /\ new.todo = old.todo
      BY <1>2, <1>3, <2>1 DEF Run, Phases
    <2> HIDE DEF new
    <2>3. Dated(new, inputs) /\ Shown(new, plan)
      BY <1>2, <1>3, <2>1, <2>2 DEF Dated, Shown, Late
    <2>4. Bound(r, new, inputs, plan)
      BY <1>2, <2>1, <2>2 DEF Bound, Late
    <2> QED
      BY <1>3, <1>5, <2>1, <2>2, <2>3, <2>4 DEF Early, Late
  <1>9. CASE terraformShow(r)
    <2> DEFINE new == [old EXCEPT !.shown = plan, !.phase = "shown"]
    <2>1. runs' = [runs EXCEPT ![r] = new] /\ old.phase = "showing"
      BY <1>9 DEF terraformShow, InPhase, Proceed, StagingInv, StagingType
    <2>2. plan # NoFile
      BY <1>2, <2>1 DEF Bound, Late
    <2>3. /\ new \in Run /\ new.phase = "shown" /\ new.vars = old.vars
          /\ new.review = old.review /\ new.before = old.before /\ new.shown = plan
          /\ new.todo = old.todo
      BY <1>2, <1>3, <2>2 DEF Run, Phases
    <2> HIDE DEF new
    <2>4. Dated(new, inputs) /\ Shown(new, plan)
      BY <1>2, <2>1, <2>3 DEF Dated, Shown, Late
    <2>5. Bound(r, new, inputs, plan)
      BY <1>2, <2>1, <2>3 DEF Bound, Late
    <2> QED
      BY <1>4, <1>5, <2>1, <2>3, <2>4, <2>5 DEF Early, Late
  <1>10. CASE planUnchanged(r)
    <2> DEFINE next == IF old.review THEN "verifying" ELSE "hashing"
               new == [old EXCEPT !.phase = next]
    <2>1. runs' = [runs EXCEPT ![r] = new] /\ old.phase = "shown" /\ plan = old.before
      BY <1>10 DEF planUnchanged, InPhase, StagingInv, StagingType
    <2>2. next \in {"hashing", "verifying"} /\ (next = "verifying" <=> old.review)
      OBVIOUS
    <2> HIDE DEF next
    <2>3. /\ new \in Run /\ new.phase = next /\ new.vars = old.vars /\ new.todo = old.todo
          /\ new.review = old.review /\ new.before = old.before /\ new.shown = old.shown
      BY <1>2, <2>2 DEF Run, Phases
    <2> HIDE DEF new
    <2>4. Dated(new, inputs)
      BY <1>2, <2>1, <2>2, <2>3 DEF Dated
    <2>5. Shown(new, plan)
      BY <1>2, <2>1, <2>2, <2>3 DEF Shown, Late
    <2>6. Bound(r, new, inputs, plan)
      BY <1>2, <2>1, <2>2, <2>3 DEF Bound, Late
    <2> QED
      BY <1>4, <1>5, <2>1, <2>2, <2>3, <2>4, <2>5, <2>6 DEF Early, Late
  <1>11. CASE composePackage(r)
    <2> DEFINE at == [e \in EvidenceFiles |-> inputs[e]]
               new == [old EXCEPT !.phase = "verifying", !.todo = EvidenceFiles, !.atPackage = at]
    <2>1. runs' = [runs EXCEPT ![r] = new] /\ old.phase = "hashing" /\ old.todo = {}
      BY <1>11 DEF composePackage, InPhase, StagingInv, StagingType
    <2>2. at \in [EvidenceFiles -> Nat] /\ \A e \in EvidenceFiles : at[e] = inputs[e]
      BY <1>1
    <2> HIDE DEF at
    <2>3. /\ new \in Run /\ new.phase = "verifying" /\ new.vars = old.vars
          /\ new.todo = EvidenceFiles /\ new.files = old.files /\ new.atPackage = at
          /\ new.review = old.review /\ new.before = old.before /\ new.shown = old.shown
      BY <1>2, <2>2 DEF Run, Phases
    <2> HIDE DEF new
    <2>4. Dated(new, inputs)
      <3>1. \A e \in EvidenceFiles : old.files[e] \in Nat /\ old.files[e] =< inputs[e]
        BY <1>2, <2>1 DEF Dated
      <3> QED
        BY <1>1, <2>2, <2>3, <3>1 DEF Dated
    <2>5. Shown(new, plan)
      BY <1>2, <2>1, <2>3 DEF Shown, Late
    <2>6. Bound(r, new, inputs, plan)
      BY <1>2, <2>1, <2>3 DEF Bound, Late
    <2> QED
      BY <1>4, <1>5, <2>1, <2>3, <2>4, <2>5, <2>6 DEF Early, Late
  <1>12. CASE \E e \in EvidenceFiles : hashEvidence(r, e)
    <2>1. PICK e \in EvidenceFiles : hashEvidence(r, e)
      BY <1>12
    <2> DEFINE new == [old EXCEPT !.files = [old.files EXCEPT ![e] = inputs[e]],
                                  !.todo = old.todo \ {e}]
    <2>2. runs' = [runs EXCEPT ![r] = new] /\ old.phase = "hashing"
      BY <2>1 DEF hashEvidence, InPhase, StagingInv, StagingType
    <2>3. old.files \in [EvidenceFiles -> Bytes] /\ inputs[e] \in Nat
      BY <1>1, <1>2 DEF Run
    <2>4. /\ new \in Run /\ new.phase = "hashing" /\ new.vars = old.vars
          /\ new.todo = old.todo \ {e} /\ new.files = [old.files EXCEPT ![e] = inputs[e]]
          /\ new.review = old.review /\ new.before = old.before /\ new.shown = old.shown
      BY <1>2, <2>2, <2>3 DEF Run, Phases, Bytes
    <2> HIDE DEF new
    <2>5. Dated(new, inputs)
      <3>1. ASSUME NEW f \in EvidenceFiles \ new.todo
            PROVE  new.files[f] \in Nat /\ new.files[f] =< inputs[f]
        <4>1. CASE f = e
          BY <2>3, <2>4, <4>1
        <4>2. CASE f # e
          BY <1>2, <2>2, <2>3, <2>4, <3>1, <4>2 DEF Dated
        <4> QED
          BY <4>1, <4>2
      <3> QED
        BY <1>2, <2>2, <2>4, <3>1 DEF Dated
    <2>6. Shown(new, plan)
      BY <1>2, <2>2, <2>4 DEF Shown, Late
    <2>7. Bound(r, new, inputs, plan)
      BY <1>2, <2>2, <2>4 DEF Bound, Late
    <2> QED
      BY <1>4, <1>5, <2>2, <2>4, <2>5, <2>6, <2>7 DEF Early, Late
  <1>13. CASE \E e \in EvidenceFiles : verifyEvidence(r, e)
    <2>1. PICK e \in EvidenceFiles : verifyEvidence(r, e)
      BY <1>13
    <2> DEFINE new == [old EXCEPT !.todo = old.todo \ {e}]
    <2>2. runs' = [runs EXCEPT ![r] = new] /\ old.phase = "verifying" /\ inputs[e] = old.files[e]
      BY <2>1 DEF verifyEvidence, InPhase, StagingInv, StagingType
    <2>3. /\ new \in Run /\ new.phase = "verifying" /\ new.vars = old.vars
          /\ new.todo = old.todo \ {e} /\ new.files = old.files /\ new.atPackage = old.atPackage
          /\ new.review = old.review /\ new.before = old.before /\ new.shown = old.shown
      BY <1>2, <2>2 DEF Run, Phases
    <2> HIDE DEF new
    <2>4. Dated(new, inputs)
      <3>1. ASSUME ~ old.review, NEW f \in EvidenceFiles, f \notin new.todo
            PROVE  old.files[f] = old.atPackage[f]
        <4>1. CASE f = e
          BY <1>1, <1>2, <2>2, <3>1, <4>1 DEF Dated
        <4>2. CASE f # e
          BY <1>2, <2>2, <2>3, <3>1, <4>2 DEF Dated
        <4> QED
          BY <4>1, <4>2
      <3> QED
        BY <1>2, <2>2, <2>3, <3>1 DEF Dated
    <2>5. Shown(new, plan)
      BY <1>2, <2>2, <2>3 DEF Shown, Late
    <2>6. Bound(r, new, inputs, plan)
      BY <1>2, <2>2, <2>3 DEF Bound, Late
    <2> QED
      BY <1>4, <1>5, <2>2, <2>3, <2>4, <2>5, <2>6 DEF Early, Late
  <1> QED
    BY <1>6, <1>7, <1>8, <1>9, <1>10, <1>11, <1>12, <1>13

(* A run that ends forgets; nobody can plan who could not before.          *)
LEMMA RunEndStep ==
    ASSUME StagingInv, NEW r \in Runners, End(r)
    PROVE  StagingInv'
  <1>1. runs' = [runs EXCEPT ![r] = NoFile] /\ UNCHANGED <<inputs, outputs>>
    BY DEF End
  <1>2. \A q \in Runners : runs'[q] # NoFile => q # r /\ runs'[q] = runs[q]
    BY <1>1 DEF StagingInv, StagingType
  <1>3. \A q \in Runners : MayPlan(q, runs') => MayPlan(q, runs)
    BY <1>2 DEF MayPlan
  <1>4. StagingType'
    BY <1>1 DEF StagingInv, StagingType
  <1>5. \A q \in Runners : runs'[q] # NoFile => Kept(q, runs'[q], inputs', outputs'["plan"])
    BY <1>1, <1>2 DEF StagingInv
  <1>6. Spent'
    <2>1. outputs["plan"] # NoFile =>
             outputs["plan"] \in Plan /\ ~ MayPlan(outputs["plan"].by, runs')
      BY <1>3 DEF StagingInv, Spent, Plan
    <2>2. ASSUME NEW q \in Runners, runs'[q] # NoFile, runs'[q].phase \in Late
          PROVE  ~ MayPlan(runs'[q].before.by, runs')
      <3>1. runs'[q] = runs[q] /\ runs[q].before \in Plan
        BY <1>2, <2>2 DEF StagingInv, Kept, Shown
      <3>2. runs[q].before.by \in Runners /\ ~ MayPlan(runs[q].before.by, runs)
        BY <2>2, <3>1 DEF StagingInv, Spent, Plan
      <3> QED
        BY <1>3, <3>1, <3>2
    <2> QED
      BY <1>1, <2>1, <2>2 DEF Spent
  <1>7. ReportsAreGrounded'
    BY <1>1 DEF StagingInv, ReportsAreGrounded, PackageIsSnapshot, InputsAreBound,
                ReportsAreOneRun, Written
  <1> QED
    BY <1>4, <1>5, <1>6, <1>7 DEF StagingInv

(* An edit makes inputs newer, and plans neither better nor worse.         *)
LEMMA EditStep ==
    ASSUME StagingInv, NEW f \in InputFiles, Edit(f)
    PROVE  StagingInv'
  <1>1. inputs' = [inputs EXCEPT ![f] = inputs[f] + 1] /\ UNCHANGED <<outputs, runs>>
    BY DEF Edit
  <1>2. \A g \in InputFiles : inputs[g] \in Nat /\ inputs'[g] \in Nat /\ inputs[g] =< inputs'[g]
    BY <1>1 DEF StagingInv, StagingType
  <1>3. StagingType'
    BY <1>1 DEF StagingInv, StagingType
  <1>4. Spent' /\ ReportsAreGrounded'
    BY <1>1 DEF StagingInv, Spent, ReportsAreGrounded, PackageIsSnapshot, InputsAreBound,
                ReportsAreOneRun, Written
  <1>5. ASSUME NEW q \in Runners, runs[q] # NoFile
        PROVE  Kept(q, runs[q], inputs', outputs["plan"])
    <2> DEFINE run == runs[q]
               plan == outputs["plan"]
    <2>1. run \in Run /\ Dated(run, inputs) /\ Bound(q, run, inputs, plan) /\ Shown(run, plan)
      BY <1>5, RunFacts
    <2>2. "tfvars" \in InputFiles /\ EvidenceFiles \subseteq InputFiles
      BY DEF InputFiles
    <2>3. plan # NoFile => plan \in Plan
      BY DEF StagingInv, Spent
    <2> HIDE DEF run, plan
    <2>4. /\ inputs["tfvars"] \in Nat /\ inputs'["tfvars"] \in Nat
          /\ inputs["tfvars"] =< inputs'["tfvars"]
      BY <1>2, <2>2
    <2>5. \A e \in EvidenceFiles :
             inputs[e] \in Nat /\ inputs'[e] \in Nat /\ inputs[e] =< inputs'[e]
      BY <1>2, <2>2
    <2>6. Dated(run, inputs')
      <3>1. run.phase \in {"copying", "planning", "planned"} =>
               run.vars \in Nat /\ run.vars =< inputs'["tfvars"]
        BY <2>1, <2>4 DEF Dated
      <3>2. run.phase = "hashing" => \A e \in EvidenceFiles \ run.todo :
                                       run.files[e] \in Nat /\ run.files[e] =< inputs'[e]
        BY <2>1, <2>5 DEF Dated
      <3>3. ASSUME run.phase = "verifying", ~ run.review, NEW e \in EvidenceFiles
            PROVE  run.atPackage[e] =< inputs'[e]
        <4>1. run.atPackage[e] \in Nat /\ run.atPackage[e] =< inputs[e]
          BY <2>1, <3>3 DEF Dated
        <4> QED
          BY <2>5, <4>1
      <3> QED
        BY <2>1, <3>1, <3>2, <3>3 DEF Dated
    <2>7. Bound(q, run, inputs', plan)
      <3>1. ASSUME run.phase = "planned", plan.by = q
            PROVE  run.vars =< plan.vars /\ plan.vars =< inputs'["tfvars"]
        <4>1. plan.vars \in Nat /\ run.vars =< plan.vars /\ plan.vars =< inputs["tfvars"]
          BY <2>1, <2>3, <3>1 DEF Bound, Plan
        <4> QED
          BY <2>4, <4>1
      <3> QED
        BY <2>1, <3>1 DEF Bound
    <2> QED
      BY <2>1, <2>6, <2>7 DEF Kept, run, plan
  <1> QED
    BY <1>1, <1>3, <1>4, <1>5 DEF StagingInv

(* A plan replaces another; those who saw the other one see the change.    *)
LEMMA PlanStep ==
    ASSUME StagingInv, NEW r \in Runners, terraformPlan(r)
    PROVE  StagingInv'
  <1> DEFINE old == runs[r]
             new == [old EXCEPT !.phase = "planned"]
  <1>1. PICK harmless \in BOOLEAN :
           outputs' = [outputs EXCEPT !["plan"] =
                         [by |-> r, iac |-> old.iac, vars |-> inputs["tfvars"],
                          harmless |-> harmless]]
    BY DEF terraformPlan
  <1>2. /\ old # NoFile /\ old.phase = "planning" /\ runs' = [runs EXCEPT ![r] = new]
        /\ inputs' = inputs
    BY DEF terraformPlan, InPhase, StagingInv, StagingType
  <1>3. old \in Run /\ Dated(old, inputs) /\ MayPlan(r, runs)
    BY <1>2, RunFacts DEF MayPlan, Early
  <1>4. inputs["tfvars"] \in Nat
    BY DEF StagingInv, StagingType, InputFiles
  <1> DEFINE plan == [by |-> r, iac |-> old.iac, vars |-> inputs["tfvars"], harmless |-> harmless]
  <1>5. plan \in Plan /\ plan # NoFile /\ plan.by = r /\ plan.vars = inputs["tfvars"]
    BY <1>3, <1>4, StagingAssumption DEF Plan, Run, Bytes
  <1>6. outputs' = [outputs EXCEPT !["plan"] = plan]
    BY <1>1
  <1> HIDE DEF plan
  <1>7. outputs'["plan"] = plan /\ \A o \in Outputs \ {"plan"} : outputs'[o] = outputs[o]
    BY <1>6 DEF StagingInv, StagingType, Outputs
  <1>8. new \in Run /\ new.phase = "planned" /\ new.vars = old.vars /\ new.todo = old.todo
    BY <1>3 DEF Run, Phases
  <1> HIDE DEF new
  <1>9. runs'[r] = new /\ \A q \in Runners \ {r} : runs'[q] = runs[q]
    BY <1>2 DEF StagingInv, StagingType
  <1>10. \A q \in Runners : MayPlan(q, runs') => MayPlan(q, runs) /\ q # r
    BY <1>8, <1>9 DEF MayPlan, Early
  <1>11. StagingType'
    BY <1>2, <1>6, <1>8 DEF StagingInv, StagingType
  <1>12. ASSUME NEW q \in Runners, runs'[q] # NoFile
         PROVE  Kept(q, runs'[q], inputs', plan)
    <2>1. CASE q = r
      <3>1. Dated(new, inputs)
        BY <1>2, <1>3, <1>8 DEF Dated
      <3>2. new.vars =< plan.vars /\ plan.vars =< inputs["tfvars"]
        BY <1>2, <1>3, <1>4, <1>5, <1>8 DEF Dated
      <3>3. Bound(r, new, inputs, plan) /\ Shown(new, plan)
        BY <1>5, <1>8, <3>2 DEF Bound, Shown, Late
      <3> QED
        BY <1>2, <1>9, <2>1, <3>1, <3>3 DEF Kept
    <2>2. CASE q # r
      <3> DEFINE run == runs[q]
      <3>1. run # NoFile /\ runs'[q] = run
        BY <1>9, <1>12, <2>2
      <3>2. run \in Run /\ Dated(run, inputs) /\ Bound(q, run, inputs, outputs["plan"])
            /\ Shown(run, outputs["plan"])
        BY <3>1, RunFacts
      <3>3. run.phase \in Late => run.before.by # r
        BY <1>3, <3>1 DEF StagingInv, Spent
      <3> HIDE DEF run
      <3>4. Bound(q, run, inputs, plan)
        BY <1>5, <2>2, <3>2 DEF Bound
      <3>5. Shown(run, plan)
        BY <1>5, <3>2, <3>3 DEF Shown, Late
      <3> QED
        BY <1>2, <3>1, <3>2, <3>4, <3>5 DEF Kept
    <2> QED
      BY <2>1, <2>2
  <1>13. Spent'
    <2>1. ~ MayPlan(r, runs')
      BY <1>10
    <2>2. ASSUME NEW q \in Runners, runs'[q] # NoFile, runs'[q].phase \in Late
          PROVE  ~ MayPlan(runs'[q].before.by, runs')
      <3>1. runs'[q] = runs[q]
        BY <1>8, <1>9, <2>2 DEF Late
      <3>2. runs[q].before \in Plan /\ ~ MayPlan(runs[q].before.by, runs)
        BY <2>2, <3>1 DEF StagingInv, Kept, Shown, Spent
      <3>3. runs[q].before.by \in Runners
        BY <3>2 DEF Plan
      <3> QED
        BY <1>10, <3>1, <3>2, <3>3
    <2> QED
      BY <1>5, <1>7, <2>1, <2>2 DEF Spent
  <1>14. ReportsAreGrounded'
    <2>1. /\ outputs'["decision"] = outputs["decision"] /\ outputs'["package"] = outputs["package"]
          /\ outputs'["boundary"] = outputs["boundary"]
          /\ \A i \in DOMAIN Reports : outputs'[Reports[i]] = outputs[Reports[i]]
      BY <1>7 DEF Outputs, Reports
    <2>2. (PackageIsSnapshot /\ InputsAreBound)'
      BY <2>1 DEF StagingInv, ReportsAreGrounded, PackageIsSnapshot, InputsAreBound
    <2>3. ReportsAreOneRun'
      <3>1. \A i \in DOMAIN Reports : 1 .. i \subseteq DOMAIN Reports
        BY DEF Reports
      <3> QED
        BY <2>1, <3>1 DEF StagingInv, ReportsAreGrounded, ReportsAreOneRun, Written
    <2> QED
      BY <2>1, <2>2, <2>3 DEF StagingInv, ReportsAreGrounded
  <1> QED
    BY <1>7, <1>11, <1>12, <1>13, <1>14 DEF StagingInv

(* A report is written once, of a run that has verified everything.        *)
LEMMA ReportStep ==
    ASSUME StagingInv, NEW r \in Runners, NEW i \in DOMAIN Reports, writeReport(r, i)
    PROVE  StagingInv'
  <1> DEFINE old == runs[r]
             report == Report(r, Reports[i])
  <1>1. /\ old # NoFile /\ old.phase = "verifying" /\ ~ old.review /\ old.todo = {}
        /\ \A j \in 1 .. i - 1 : Wrote(r, j)
        /\ ~ Written(i) /\ UNCHANGED <<inputs, runs>>
        /\ outputs' = [outputs EXCEPT ![Reports[i]] = report]
    BY DEF writeReport, InPhase
  <1>2. old \in Run /\ Dated(old, inputs) /\ Bound(r, old, inputs, outputs["plan"])
        /\ Shown(old, outputs["plan"])
    BY <1>1, RunFacts
  <1>3. /\ DOMAIN Reports = 1 .. 4 /\ "package" = Reports[1] /\ "decision" = Reports[2]
        /\ "digest" = Reports[3] /\ "boundary" = Reports[4]
        /\ \A j \in 1 .. 4 : Reports[j] \in Outputs \ {"plan"}
        /\ \A j \in 1 .. 4 : j # i => Reports[j] # Reports[i]
    BY DEF Reports, Outputs
  <1>4. /\ outputs'[Reports[i]] = report
        /\ \A o \in Outputs \ {Reports[i]} : outputs'[o] = outputs[o]
    BY <1>1, <1>3 DEF StagingInv, StagingType
  <1>5. report.by = r
    BY <1>3 DEF Report
  <1>6. StagingType' /\ outputs'["plan"] = outputs["plan"]
    BY <1>1, <1>3, <1>4 DEF StagingInv, StagingType, Outputs
  <1>7. Spent'
    BY <1>1, <1>6 DEF StagingInv, Spent
  <1>8. old.before \in Plan /\ old.shown = old.before
    BY <1>1, <1>2 DEF Shown, Late
  <1>9. outputs'["package"] # NoFile =>
           /\ outputs'["package"].manifest \in Bytes
           /\ outputs'["package"].files \in [EvidenceFiles -> Bytes]
           /\ outputs'["package"].files = outputs'["package"].atPackage
    <2>1. CASE i = 1
      <3>1. report = [by |-> r, manifest |-> old.manifest, files |-> old.files,
                      atPackage |-> old.atPackage]
        BY <1>3, <2>1 DEF Report
      <3>2. old.manifest \in Bytes /\ old.files \in [EvidenceFiles -> Bytes]
        BY <1>2 DEF Run
      <3>3. old.files = old.atPackage
        <4>1. /\ old.atPackage \in [EvidenceFiles -> Nat]
              /\ \A e \in EvidenceFiles : old.files[e] = old.atPackage[e]
          BY <1>1, <1>2 DEF Dated
        <4> QED
          BY <3>2, <4>1
      <3>4. outputs'["package"] = report
        BY <1>3, <1>4, <2>1
      <3> QED
        BY <3>1, <3>2, <3>3, <3>4
    <2>2. CASE i # 1
      <3>1. outputs'["package"] = outputs["package"]
        BY <1>3, <1>4, <2>2 DEF Outputs
      <3> QED
        BY <3>1 DEF StagingInv, ReportsAreGrounded, PackageIsSnapshot
    <2> QED
      BY <2>1, <2>2
  <1>10. outputs'["decision"] # NoFile /\ outputs'["decision"].ready =>
            outputs'["decision"].plan.harmless
    <2>1. CASE i = 2
      <3>1. report = [by |-> r, ready |-> Ready(r), plan |-> old.before]
        BY <1>3, <2>1 DEF Report
      <3>2. outputs'["decision"] = report
        BY <1>3, <1>4, <2>1
      <3>3. Ready(r) => old.before.harmless
        BY <1>8 DEF Ready
      <3> QED
        BY <3>1, <3>2, <3>3
    <2>2. CASE i # 2
      <3>1. outputs'["decision"] = outputs["decision"]
        BY <1>3, <1>4, <2>2 DEF Outputs
      <3> QED
        BY <3>1 DEF StagingInv, ReportsAreGrounded
    <2> QED
      BY <2>1, <2>2
  <1>11. InputsAreBound'
    <2>1. CASE i = 4
      <3>1. report = [by |-> r, manifest |-> old.manifestDigest, vars |-> old.vars,
                      plan |-> old.before]
        BY <1>3, <2>1 DEF Report
      <3>2. outputs'["boundary"] = report
        BY <1>3, <1>4, <2>1
      <3>3. old.before.by = r => old.before.vars = old.vars
        BY <1>1, <1>2 DEF Bound, Late
      <3> QED
        BY <3>1, <3>2, <3>3 DEF InputsAreBound
    <2>2. CASE i # 4
      <3>1. outputs'["boundary"] = outputs["boundary"]
        BY <1>3, <1>4, <2>2 DEF Outputs
      <3> QED
        BY <3>1 DEF StagingInv, ReportsAreGrounded, InputsAreBound
    <2> QED
      BY <2>1, <2>2
  <1>12. ReportsAreOneRun'
    <2> SUFFICES ASSUME NEW k \in 1 .. 4, outputs'[Reports[k]] # NoFile, NEW j \in 1 .. k
                 PROVE  /\ outputs'[Reports[j]] # NoFile
                        /\ outputs'[Reports[j]].by = outputs'[Reports[k]].by
      BY <1>3 DEF ReportsAreOneRun, Written
    <2>1. \A m \in 1 .. 4 : m # i => outputs'[Reports[m]] = outputs[Reports[m]]
      BY <1>3, <1>4
    <2>2. CASE k = i
      <3>1. CASE j = i
        BY <2>2, <3>1
      <3>2. CASE j # i
        <4>1. j \in 1 .. i - 1 /\ j \in 1 .. 4 /\ i \in 1 .. 4
          BY <1>3, <2>2, <3>2
        <4>2. outputs[Reports[j]] # NoFile /\ outputs[Reports[j]].by = r
          BY <1>1, <4>1 DEF Wrote, Written
        <4> QED
          BY <1>4, <1>5, <2>1, <2>2, <3>2, <4>1, <4>2
      <3> QED
        BY <3>1, <3>2
    <2>3. CASE k # i
      <3>1. outputs[Reports[k]] # NoFile
        BY <2>1, <2>3
      <3>2. /\ outputs[Reports[j]] # NoFile
            /\ outputs[Reports[j]].by = outputs[Reports[k]].by
        BY <1>3, <3>1 DEF StagingInv, ReportsAreGrounded, ReportsAreOneRun, Written
      <3>3. j # i /\ j \in 1 .. 4
        BY <1>1, <3>2 DEF Written
      <3> QED
        BY <2>1, <2>3, <3>2, <3>3
    <2> QED
      BY <2>2, <2>3
  <1>13. ReportsAreGrounded'
    BY <1>9, <1>10, <1>11, <1>12 DEF ReportsAreGrounded, PackageIsSnapshot
  <1>14. \A q \in Runners : runs'[q] # NoFile => Kept(q, runs'[q], inputs', outputs'["plan"])
    BY <1>1, <1>6 DEF StagingInv
  <1> QED
    BY <1>6, <1>7, <1>13, <1>14 DEF StagingInv

(* StagingInv is inductive, and grounds what a run has verified.           *)
THEOREM GroundedReview == StagingSpec => []ReviewIsGrounded
  <1>1. ASSUME StagingInit
        PROVE  StagingInv
    BY <1>1 DEF StagingInit, StagingInv, StagingType, Spent, ReportsAreGrounded,
                PackageIsSnapshot, InputsAreBound, ReportsAreOneRun, Written, Outputs, Reports
  <1>2. ASSUME StagingInv, StagingNext
        PROVE  StagingInv'
    <2>1. CASE \E f \in InputFiles : Edit(f)
      BY <1>2, <2>1, EditStep
    <2>2. CASE \E r \in Runners : RunnerNext(r)
      <3>1. PICK r \in Runners : RunnerNext(r)
        BY <2>2
      <3>2. CASE BeginPlanOnly(r) \/ BeginReview(r)
        BY <1>2, <3>2, Beginnings
      <3>3. CASE \/ readManifest(r) \/ ensureCleanExactGitHead(r) \/ digestManifest(r)
                 \/ digestVars(r) \/ copyTrackedStagingIac(r)
        BY <1>2, <3>3, EarlySteps
      <3>4. CASE terraformPlan(r)
        BY <1>2, <3>4, PlanStep
      <3>5. CASE \/ checkVars(r) \/ checkManifest(r) \/ digestPlan(r) \/ terraformShow(r)
                 \/ planUnchanged(r) \/ composePackage(r)
                 \/ \E e \in EvidenceFiles : hashEvidence(r, e) \/ verifyEvidence(r, e)
        BY <1>2, <3>5, LaterSteps
      <3>6. CASE \E i \in DOMAIN Reports : writeReport(r, i)
        BY <1>2, <3>6, ReportStep
      <3>7. CASE End(r)
        BY <1>2, <3>7, RunEndStep
      <3> QED
        BY <3>1, <3>2, <3>3, <3>4, <3>5, <3>6, <3>7 DEF RunnerNext
    <2> QED
      BY <1>2, <2>1, <2>2 DEF StagingNext
  <1>3. ASSUME StagingInv, UNCHANGED stagingVars
        PROVE  StagingInv'
    BY <1>3 DEF stagingVars, StagingInv, StagingType, Spent, ReportsAreGrounded,
                PackageIsSnapshot, InputsAreBound, ReportsAreOneRun, Written
  <1>4. ASSUME StagingInv
        PROVE  ReviewIsGrounded
    <2>1. ASSUME NEW r \in Runners, Verified(r), Ready(r)
          PROVE  runs[r].before.harmless
      BY <1>4, <2>1, RunFacts DEF Verified, InPhase, Ready, Shown
    <2> QED
      BY <1>4, <2>1 DEF StagingInv, ReportsAreGrounded, ReviewIsGrounded, PlanIsAnalyzed
  <1> QED
    BY <1>1, <1>2, <1>3, <1>4, PTL DEF StagingSpec
==============================================================================
