--------------------------- MODULE MobileRegistry ---------------------------
(***************************************************************************)
(* The registration of devices and the acknowledgement of notifications    *)
(* of mobile-mvp-http.ts, with the client's choice of the operation id of  *)
(* a registration.                                                         *)
(*                                                                         *)
(* A handler reads its clock and the binding of the device, reserves its   *)
(* idempotency key, looks for a recorded answer, selects the row FOR       *)
(* UPDATE and, when there is none to lock, inserts it.  Between any two of *)
(* these another handler acts, and a handler that fails leaves its         *)
(* reservation behind.                                                     *)
(***************************************************************************)
EXTENDS Naturals

CONSTANTS
    Principals,    \* trusted actors: subject, tenant and purpose
    Devices,       \* device ids
    Evidence,      \* application version and time of the client's consent
    Notices,       \* road events near enough to be notified of
    Handlers,      \* registration requests under way at a time
    MaxRegTime,    \* bound on the clock
    Missing        \* no row, no record, no request

(* What a row, a key, a request and a delivery of a notice are.            *)
DeviceRow == [owner : Principals, evidence : Evidence,
              registeredAt : Nat, consentGrantedAt : Nat]
RegKey == [p : Principals, d : Devices, e : Evidence, n : {1, 2}]
RegRequest == [key : RegKey, now : Nat, at : {"found", "held", "insert"}]
NoticeRow == [deliveredAt : Nat, ackedAt : Nat \cup {Missing}]

ASSUME RegistryAssumption ==
    /\ MaxRegTime \in Nat \ {0}
    /\ Missing \notin DeviceRow \cup RegKey \cup RegRequest \cup NoticeRow \cup Nat

VARIABLES
    regClock,     \* time
    operation,    \* the registration operation persisted by a client
    device,       \* field_companion_devices
    handler,      \* requests under way
    regReserved,  \* idempotency_reservations of registrations
    regRecord,    \* idempotency_records of registrations
    notice,       \* field_notification_deliveries, by recipient and event
    noticeAudit   \* audit_logs of acknowledgements

registryVars == <<regClock, operation, device, handler, regReserved, regRecord,
                  notice, noticeAudit>>

RegistryInit ==
    /\ regClock = 0
    /\ operation = [p \in Principals |-> Missing]
    /\ device = [d \in Devices |-> Missing]
    /\ handler = [h \in Handlers |-> Missing]
    /\ regReserved = {}
    /\ regRecord = {}
    /\ notice = [x \in Principals \X Notices |-> Missing]
    /\ noticeAudit = [x \in Principals \X Notices |-> 0]

noticeVars == <<notice, noticeAudit>>

(* resolveDeviceRegistrationOperation: the persisted operation id as long  *)
(* as device, version and consent are the same, else a new one.  An id     *)
(* stands for the input it was made for and tells the first such id from   *)
(* the later ones.                                                         *)
resolveOperation(p, d, e) ==
    IF operation[p] # Missing /\ operation[p].d = d /\ operation[p].e = e
      THEN operation[p]
      ELSE [p |-> p, d |-> d, e |-> e,
            n |-> IF operation[p] # Missing /\ operation[p].n = 1 THEN 2 ELSE 1]

(* The request arrives: the clock is read and the owner of the device is   *)
(* compared before anything is replayed.                                   *)
Find(h, p, d, e) ==
    /\ handler[h] = Missing
    /\ operation' = [operation EXCEPT ![p] = resolveOperation(p, d, e)]
    /\ handler' = [handler EXCEPT ![h] =
          IF device[d] # Missing /\ device[d].owner # p THEN Missing
          ELSE [key |-> operation'[p], now |-> regClock, at |-> "found"]]
    /\ UNCHANGED <<regClock, device, regReserved, regRecord, noticeVars>>

Goes(h, step) == handler' = [handler EXCEPT ![h].at = step]
Ends(h) == handler' = [handler EXCEPT ![h] = Missing]

(* executeExclusively.                                                     *)
Hold(h) ==
    /\ handler[h] # Missing
    /\ handler[h].at = "found"
    /\ IF handler[h].key \in regReserved
         THEN Ends(h) /\ UNCHANGED regReserved
         ELSE /\ Goes(h, "held")
              /\ regReserved' = regReserved \cup {handler[h].key}
    /\ UNCHANGED <<regClock, operation, device, regRecord, noticeVars>>

(* The answer is recorded and the reservation released.                    *)
Record(h) ==
    /\ Ends(h)
    /\ regRecord' = regRecord \cup {handler[h].key}
    /\ regReserved' = regReserved \ {handler[h].key}

Fails(h) == Ends(h) /\ UNCHANGED <<device, regRecord, regReserved>>

(* register finds a row of the same principal: the same evidence only      *)
(* refreshes it, other evidence renews the consent.                        *)
Renewed(row, r) ==
    IF row.evidence = r.key.e THEN row
    ELSE [row EXCEPT !.evidence = r.key.e, !.consentGrantedAt = r.now]

(* Looks for a recorded answer, then selects the row.  The table's checks  *)
(* refuse a clock reading older than the registration.                     *)
Select(h) ==
    LET r == handler[h]
        row == device[r.key.d]
    IN  /\ r # Missing
        /\ r.at = "held"
        /\ \/ /\ r.key \in regRecord
              /\ Record(h)
              /\ UNCHANGED device
           \/ /\ r.key \notin regRecord
              /\ row = Missing
              /\ Goes(h, "insert")
              /\ UNCHANGED <<device, regRecord, regReserved>>
           \/ /\ r.key \notin regRecord
              /\ row # Missing
              /\ IF row.owner = r.key.p /\ r.now >= row.registeredAt
                   THEN /\ device' = [device EXCEPT ![r.key.d] = Renewed(row, r)]
                        /\ Record(h)
                   ELSE Fails(h)
        /\ UNCHANGED <<regClock, operation, noticeVars>>

(* A mutant: an insert that overwrites.                                    *)
Insert_Overwrites(h) ==
    LET r == handler[h]
    IN  /\ r # Missing
        /\ r.at = "insert"
        /\ device' = [device EXCEPT ![r.key.d] =
              [owner |-> r.key.p, evidence |-> r.key.e,
               registeredAt |-> r.now, consentGrantedAt |-> r.now]]
        /\ Record(h)
        /\ UNCHANGED <<regClock, operation, noticeVars>>

(* The insert of a row another handler inserted meanwhile fails.           *)
Insert(h) ==
    LET r == handler[h]
    IN  /\ r # Missing
        /\ r.at = "insert"
        /\ IF device[r.key.d] = Missing
             THEN /\ device' = [device EXCEPT ![r.key.d] =
                         [owner |-> r.key.p, evidence |-> r.key.e,
                          registeredAt |-> r.now, consentGrantedAt |-> r.now]]
                  /\ Record(h)
             ELSE Fails(h)
        /\ UNCHANGED <<regClock, operation, noticeVars>>

(* The handler dies, or its client does not wait for it.                   *)
Drop(h) ==
    /\ handler[h] # Missing
    /\ Fails(h)
    /\ UNCHANGED <<regClock, operation, noticeVars>>

-----------------------------------------------------------------------------
(* assertActive.                                                           *)
Active(p) == \E d \in Devices : device[d] # Missing /\ device[d].owner = p

regVars == <<operation, device, handler, regReserved, regRecord>>

(* The nearby route records what it returns.                               *)
Nearby(p, n) ==
    /\ Active(p)
    /\ notice' = [notice EXCEPT ![<<p, n>>] =
          IF @ = Missing THEN [deliveredAt |-> regClock, ackedAt |-> Missing] ELSE @]
    /\ UNCHANGED <<regClock, regVars, noticeAudit>>

(* acknowledge, under the row's lock, with a clock read before it was      *)
(* taken.  Calls with one key and calls with two meet here alike.          *)
Acknowledge(p, n, now) ==
    /\ Active(p)
    /\ notice[<<p, n>>] # Missing
    /\ notice[<<p, n>>].ackedAt = Missing
    /\ now >= notice[<<p, n>>].deliveredAt
    /\ notice' = [notice EXCEPT ![<<p, n>>].ackedAt = now]
    /\ noticeAudit' = [noticeAudit EXCEPT ![<<p, n>>] = @ + 1]
    /\ UNCHANGED <<regClock, regVars>>

RegTick ==
    /\ regClock < MaxRegTime
    /\ regClock' = regClock + 1
    /\ UNCHANGED <<regVars, noticeVars>>

RegistryNext ==
    \/ \E h \in Handlers :
         \/ \E p \in Principals, d \in Devices, e \in Evidence : Find(h, p, d, e)
         \/ Hold(h)
         \/ Select(h)
         \/ Insert(h)
         \/ Drop(h)
    \/ \E p \in Principals, n \in Notices :
         \/ Nearby(p, n)
         \/ \E now \in 0 .. regClock : Acknowledge(p, n, now)
    \/ RegTick

RegistrySpec == RegistryInit /\ [][RegistryNext]_registryVars

-----------------------------------------------------------------------------
(* Properties                                                              *)

(* Whoever was told that a registration succeeded owns the device.         *)
RegisteredOwns ==
    \A k \in regRecord : device[k.d] # Missing /\ device[k.d].owner = k.p

(* An acknowledgement is audited once, keeps its first time and is not     *)
(* older than the delivery, however often and with whatever keys it is     *)
(* sent.                                                                   *)
AcknowledgedOnce ==
    \A x \in Principals \X Notices :
        /\ noticeAudit[x] =< 1
        /\ noticeAudit[x] = 1 => notice[x].ackedAt >= notice[x].deliveredAt

(* What the registry answered stays true: the registrant owns the device,  *)
(* and an acknowledgement counts once, however requests race and repeat    *)
(* (registerDevice, acknowledge).                                          *)
RegistryIsTrue == RegisteredOwns /\ AcknowledgedOnce
=============================================================================
