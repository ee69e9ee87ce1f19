------------------------- MODULE RoadEventCommands -------------------------
(***************************************************************************)
(* The idempotent command path of the API: RoadEventApplicationService     *)
(* over PostgresIdempotencyAdapter, PostgresRoadEventRepository and        *)
(* PostgresSignalAttachmentAdapter.                                        *)
(*                                                                         *)
(* A handler is one HTTP request being served by some API instance.  Each  *)
(* of its steps is one database statement or one transaction, because that *)
(* is what other handlers can observe; between two steps it may die, time  *)
(* out or lose its connection.  An error thrown inside executeExclusively  *)
(* and a crash leave the same thing behind: whatever was committed, and    *)
(* the reservation of the idempotency key.                                 *)
(***************************************************************************)
EXTENDS RoadEvent, Sequences, FiniteSets

CONSTANTS
    Handlers,   \* request handlers running concurrently
    Fences,     \* fence tokens (random UUIDs)
    EventIds,   \* RoadEvent identifiers
    Keys,       \* Idempotency-Key header values
    Signals,    \* signal identifiers a client may name
    Stored,     \* those that are rows of the table signals
    Requests,   \* the requests clients may send
    RolesOf,    \* actor -> the roles of its token
    TenantOf,   \* actor -> the access scope of its token
    Seed        \* rows that exist before the model starts, or None

Roles == {"FIELD_USER", "OPERATOR", "SUPERVISOR", "AUDITOR",
          "INTEGRATION_SERVICE"}

Operations == {"create", "reassess_severity", "transition",
               "authorize_closure", "attach_signal"}

(* expectedVersion and review are ignored by the commands that carry none. *)
Request == [actor: Actors, op: Operations, key: Keys, event: EventIds,
            expectedVersion: Nat \ {0}, review: BOOLEAN,
            arg: Statuses \cup Levels \cup Signals \cup {None}]

(* The payload each command carries.                                       *)
ArgOf(operation) ==
    CASE operation \in {"create", "reassess_severity"} -> Levels
      [] operation = "transition"        -> Statuses
      [] operation = "authorize_closure" -> {None}
      [] operation = "attach_signal"     -> Signals

(* What is hashed into the fingerprint, and a row of idempotency_records.  *)
Body == EventIds \X (Nat \ {0})
          \X (Statuses \cup Levels \cup Signals \cup {None}) \X BOOLEAN

Record == [fingerprint: Body, value: Row \cup {None}]

ASSUME RequestsAssumption ==
    /\ Requests \subseteq Request
    /\ \A r \in Requests : r.arg \in ArgOf(r.op)

ASSUME ActorsAssumption ==
    /\ RolesOf \in [Actors -> SUBSET Roles]
    /\ TenantOf \in [Actors -> Tenants]

ASSUME NoneAssumption ==
    None \notin Actors \cup Fences \cup Requests \cup Row \cup Record

(* A seeded row satisfies the table's constraints; that it carries no      *)
(* authorization lets every authorization be traced to an audited command. *)
ASSUME SeedAssumption ==
    /\ Seed \in [EventIds -> Row \cup {None}]
    /\ \A e \in EventIds : Seed[e] # None =>
           RowChecks(Seed[e]) /\ Seed[e].authorizedBy = None

VARIABLES
    rows,          \* event -> its row in road_events, or None
    audit,         \* event -> audit_logs entries of RoadEvent commands
    outbox,        \* event -> payloads inserted into outbox_events
    attached,      \* event -> road_event_signals, with the inserting request
    reservations,  \* slot  -> fence of its idempotency_reservations row
    records,       \* slot  -> its idempotency_records row, or None
    pc,            \* handler -> the statement it executes next
    req,           \* handler -> the request it serves
    fence,         \* handler -> the fence of its own reservation
    image          \* handler -> the RoadEvent it holds in memory

vars == <<rows, audit, outbox, attached, reservations, records,
          pc, req, fence, image>>

handlerVars == <<pc, req, fence, image>>
tables == <<rows, audit, outbox, attached>>

-----------------------------------------------------------------------------
(* Authorization.                                                          *)

ROLE_PERMISSIONS ==
    [role \in Roles |->
        CASE role = "OPERATOR" -> {"create", "attach_signal",
                 "reassess_severity", "transition", "close"}
          [] role = "SUPERVISOR" -> {"create", "attach_signal",
                 "reassess_severity", "transition", "authorize_closure",
                 "close"}
          [] role \in {"FIELD_USER", "INTEGRATION_SERVICE"} ->
                 {"create", "attach_signal"}
          [] OTHER -> {}]

Permission(r) ==
    IF r.op = "transition" /\ r.arg = "CLOSED" THEN "close" ELSE r.op

AssertAllowed(r) ==
    \E role \in RolesOf[r.actor] : Permission(r) \in ROLE_PERMISSIONS[role]

FieldUserOnly(a) ==
    /\ "FIELD_USER" \in RolesOf[a]
    /\ RolesOf[a] \cap {"OPERATOR", "SUPERVISOR", "INTEGRATION_SERVICE"} = {}

(* The reporter part of accessScope: field users are confined to the       *)
(* events they reported.                                                   *)
ReporterScope(a) == IF FieldUserOnly(a) THEN a ELSE None

(* findById filters on tenant and purpose only.                            *)
Visible_AnyReporter(row, a) ==
    /\ row # None
    /\ row.tenant = TenantOf[a]

Visible(row, a) ==
    /\ row # None
    /\ row.tenant = TenantOf[a]
    /\ FieldUserOnly(a) => row.reporter = a

-----------------------------------------------------------------------------
(* Idempotency scope and the effect of a command on a row.                 *)

(* deriveRoadEventIdempotencyScope plus the key.  Tenant, purpose and      *)
(* roles are functions of the actor.                                       *)
Slot(r) == <<r.op, r.actor, r.key>>
Slots == Operations \X Actors \X Keys

(* The body hashed into the fingerprint.                                   *)
Fingerprint(r) == <<r.event, r.expectedVersion, r.arg, r.review>>

IsUpdate(r) == r.op \in {"reassess_severity", "transition",
                         "authorize_closure"}

CanMutate(row, r) ==
    CASE r.op = "reassess_severity" -> ValidAssessment(r.arg, r.review)
      [] r.op = "transition"        -> CanTransitionTo(row, r.arg)
      [] r.op = "authorize_closure" -> CanAuthorizeClosure(row)
      [] OTHER                      -> FALSE

Mutate(row, r) ==
    CASE r.op = "reassess_severity" -> assessSeverity(row, r.arg, r.review)
      [] r.op = "transition"        -> transitionTo(row, r.arg)
      [] r.op = "authorize_closure" -> authorizeClosure(row, r.actor)
      [] OTHER                      -> row

Created(r) ==
    NewRoadEvent(r.arg, r.review, TenantOf[r.actor], ReporterScope(r.actor))

-----------------------------------------------------------------------------
Init ==
    /\ rows = Seed
    /\ audit = [e \in EventIds |-> << >>]
    /\ outbox = [e \in EventIds |-> << >>]
    /\ attached = [e \in EventIds |-> {}]
    /\ reservations = [s \in Slots |-> None]
    /\ records = [s \in Slots |-> None]
    /\ pc = [h \in Handlers |-> "idle"]
    /\ req = [h \in Handlers |-> None]
    /\ fence = [h \in Handlers |-> None]
    /\ image = [h \in Handlers |-> None]

Goto(h, label) == pc' = [pc EXCEPT ![h] = label]

(* The handler answers its client, or dies; nothing it committed is undone *)
(* and the reservation it may hold stays.                                  *)
Leave(h) ==
    /\ Goto(h, "idle")
    /\ req' = [req EXCEPT ![h] = None]
    /\ fence' = [fence EXCEPT ![h] = None]
    /\ image' = [image EXCEPT ![h] = None]

(* assertAllowed and input validation, before any statement is sent.       *)
(* create builds its RoadEvent here, so an invalid assessment is refused   *)
(* before a key is reserved; a refused request changes nothing.            *)
Submit(h, r) ==
    /\ pc[h] = "idle"
    /\ AssertAllowed(r)
    /\ r.op = "create" => ValidAssessment(r.arg, r.review)
    /\ req' = [req EXCEPT ![h] = r]
    /\ image' = [image EXCEPT ![h] =
                    IF r.op = "create" THEN Created(r) ELSE None]
    /\ Goto(h, IF r.op = "attach_signal" THEN "requireEvent" ELSE "reserve")
    /\ UNCHANGED <<tables, reservations, records, fence>>

(* attachSignal checks resource ownership before it looks at the key.      *)
RequireEvent(h) ==
    /\ pc[h] = "requireEvent"
    /\ \/ /\ Visible(rows[req[h].event], req[h].actor)
          /\ Goto(h, "reserve")
          /\ UNCHANGED <<req, fence, image>>
       \/ /\ ~ Visible(rows[req[h].event], req[h].actor)
          /\ Leave(h)
    /\ UNCHANGED <<tables, reservations, records>>

InUse(f) == \/ \E s \in Slots : reservations[s] = f
            \/ \E h \in Handlers : fence[h] = f

(* INSERT ... ON CONFLICT DO NOTHING under a fresh fence token; a slot     *)
(* already reserved answers IdempotencyInFlightError.                      *)
Reserve(h) ==
    /\ pc[h] = "reserve"
    /\ \/ /\ reservations[Slot(req[h])] = None
          /\ \E f \in Fences :
                /\ ~ InUse(f)
                /\ reservations' = [reservations EXCEPT ![Slot(req[h])] = f]
                /\ fence' = [fence EXCEPT ![h] = f]
          /\ Goto(h, "get")
          /\ UNCHANGED <<req, image>>
       \/ /\ reservations[Slot(req[h])] # None
          /\ Leave(h)
          /\ UNCHANGED reservations
    /\ UNCHANGED <<tables, records>>

(* get that finds no record, as if records had expired.                    *)
Get_FindsNothing(h) ==
    /\ pc[h] = "get"
    /\ Goto(h, IF IsUpdate(req[h]) THEN "load" ELSE "write")
    /\ UNCHANGED <<req, fence, image, tables, reservations, records>>

(* Look for a completed record: replay it, refuse another body under the   *)
(* same key (the reservation stays), or run the operation.                 *)
Get(h) ==
    LET record == records[Slot(req[h])] IN
    /\ pc[h] = "get"
    /\ \/ /\ record = None
          /\ Goto(h, IF IsUpdate(req[h]) THEN "load" ELSE "write")
          /\ UNCHANGED <<req, fence, image>>
       \/ /\ record # None
          /\ record.fingerprint = Fingerprint(req[h])
          /\ image' = [image EXCEPT ![h] = record.value]
          /\ Goto(h, "release")
          /\ UNCHANGED <<req, fence>>
       \/ /\ record # None
          /\ record.fingerprint # Fingerprint(req[h])
          /\ Leave(h)
    /\ UNCHANGED <<tables, reservations, records>>

(* requireEvent, the expectedVersion check and the domain method; any of   *)
(* them throws inside the reservation.                                     *)
Load(h) ==
    LET r == req[h]
        row == rows[r.event]
        ok == /\ Visible(row, r.actor)
              /\ row.version = r.expectedVersion
              /\ CanMutate(row, r)
    IN
    /\ pc[h] = "load"
    /\ \/ /\ ok
          /\ image' = [image EXCEPT ![h] = Mutate(row, r)]
          /\ Goto(h, "write")
          /\ UNCHANGED <<req, fence>>
       \/ /\ ~ ok
          /\ Leave(h)
    /\ UNCHANGED <<tables, reservations, records>>

(* Row, audit entry and outbox row: one transaction.                       *)
Persist(h, r) ==
    /\ rows' = [rows EXCEPT ![r.event] = image[h]]
    /\ audit' = [audit EXCEPT ![r.event] =
                    Append(@, [by |-> r, before |-> rows[r.event],
                               after |-> image[h]])]
    /\ outbox' = [outbox EXCEPT ![r.event] = Append(@, image[h])]
    /\ Goto(h, "put")
    /\ UNCHANGED <<attached, req, fence, image>>

(* The repository's create: a unique violation is RoadEventAlreadyExists.  *)
WriteCreate(h) ==
    LET r == req[h] IN
    /\ pc[h] = "write"
    /\ r.op = "create"
    /\ \/ /\ rows[r.event] = None
          /\ Persist(h, r)
       \/ /\ rows[r.event] # None
          /\ Leave(h)
          /\ UNCHANGED tables
    /\ UNCHANGED <<reservations, records>>

(* update without the version comparison, trusting the one made at load.   *)
Updatable_AnyVersion(row, r, after) ==
    /\ row # None
    /\ row.tenant = TenantOf[r.actor]
    /\ RowChecks(after)

(* SELECT ... FOR UPDATE in the tenant, the version comparison and the     *)
(* table's CHECK constraints.                                              *)
Updatable(row, r, after) ==
    /\ row # None
    /\ row.tenant = TenantOf[r.actor]
    /\ row.version = r.expectedVersion
    /\ RowChecks(after)

WriteUpdate(h) ==
    LET r == req[h]
        ok == Updatable(rows[r.event], r, image[h])
    IN
    /\ pc[h] = "write"
    /\ IsUpdate(r)
    /\ \/ /\ ok
          /\ Persist(h, r)
       \/ /\ ~ ok
          /\ Leave(h)
          /\ UNCHANGED tables
    /\ UNCHANGED <<reservations, records>>

HasSignal(e, signal) == \E a \in attached[e] : a.signal = signal

(* The scoped row, FOR SHARE, and the foreign key on signals.              *)
Attachable(row, r) ==
    /\ row # None
    /\ row.tenant = TenantOf[r.actor]
    /\ r.arg \in Stored

(* INSERT ... ON CONFLICT DO NOTHING; audit and timeline entries are       *)
(* written only by the call that inserted.                                 *)
AttachOnce(r) ==
    attached' = IF HasSignal(r.event, r.arg) THEN attached
                ELSE [attached EXCEPT ![r.event] =
                        @ \cup {[signal |-> r.arg, by |-> r]}]

WriteAttach(h) ==
    LET r == req[h]
        ok == Attachable(rows[r.event], r)
    IN
    /\ pc[h] = "write"
    /\ r.op = "attach_signal"
    /\ \/ /\ ok
          /\ AttachOnce(r)
          /\ Goto(h, "put")
          /\ UNCHANGED <<rows, audit, outbox, req, fence, image>>
       \/ /\ ~ ok
          /\ Leave(h)
          /\ UNCHANGED tables
    /\ UNCHANGED <<reservations, records>>

(* put that answers replays with the row as it is now, not as the command  *)
(* left it.                                                                *)
Put_RereadsRow(h) ==
    /\ pc[h] = "put"
    /\ records' = [records EXCEPT ![Slot(req[h])] =
                      [fingerprint |-> Fingerprint(req[h]),
                       value |-> rows[req[h].event]]]
    /\ image' = [image EXCEPT ![h] = rows[req[h].event]]
    /\ Goto(h, "release")
    /\ UNCHANGED <<req, fence, tables, reservations>>

(* INSERT the replay record ON CONFLICT DO NOTHING, read back what the slot *)
(* holds and refuse a foreign fingerprint.                                 *)
Put(h) ==
    LET slot == Slot(req[h])
        stored == IF records[slot] = None
                  THEN [fingerprint |-> Fingerprint(req[h]),
                        value |-> image[h]]
                  ELSE records[slot]
    IN
    /\ pc[h] = "put"
    /\ records' = [records EXCEPT ![slot] = stored]
    /\ IF stored.fingerprint = Fingerprint(req[h])
       THEN Goto(h, "release") /\ UNCHANGED <<req, fence, image>>
       ELSE Leave(h)
    /\ UNCHANGED <<tables, reservations>>

(* DELETE the reservation under its own fence and answer; if another       *)
(* party removed it, the answer is IdempotencyReservationReleaseError.     *)
Release(h) ==
    LET slot == Slot(req[h]) IN
    /\ pc[h] = "release"
    /\ reservations' = IF reservations[slot] = fence[h]
                       THEN [reservations EXCEPT ![slot] = None]
                       ELSE reservations
    /\ Leave(h)
    /\ UNCHANGED <<tables, records>>

(* A crash, a lost connection or a database error before the next          *)
(* statement.  Taken right after a commit it is the commit whose           *)
(* acknowledgement never arrived.                                          *)
Crash(h) ==
    /\ pc[h] # "idle"
    /\ Leave(h)
    /\ UNCHANGED <<tables, reservations, records>>

(* What audit_logs proves about a slot.                                    *)
Committed(slot) ==
    \/ \E e \in EventIds : \E i \in DOMAIN audit[e] :
          Slot(audit[e][i].by) = slot
    \/ \E e \in EventIds : \E a \in attached[e] : Slot(a.by) = slot

(* Runbook class C: no replay record, no committed effect, and the worker  *)
(* that held the fence is gone.                                            *)
ReconcileUncommitted(slot) ==
    /\ reservations[slot] # None
    /\ records[slot] = None
    /\ ~ Committed(slot)
    /\ \A h \in Handlers : fence[h] # reservations[slot]
    /\ reservations' = [reservations EXCEPT ![slot] = None]
    /\ UNCHANGED <<tables, records, handlerVars>>

(* Runbook class A: a replay record exists, the reservation is residue.    *)
ReconcileCompleted(slot) ==
    /\ reservations[slot] # None
    /\ records[slot] # None
    /\ reservations' = [reservations EXCEPT ![slot] = None]
    /\ UNCHANGED <<tables, records, handlerVars>>

Handle(h) ==
    \/ \E r \in Requests : Submit(h, r)
    \/ RequireEvent(h)
    \/ Reserve(h)
    \/ Get(h)
    \/ Load(h)
    \/ WriteCreate(h)
    \/ WriteUpdate(h)
    \/ WriteAttach(h)
    \/ Put(h)
    \/ Release(h)
    \/ Crash(h)

Reconcile ==
    \E slot \in Slots : \/ ReconcileUncommitted(slot)
                        \/ ReconcileCompleted(slot)

Next == (\E h \in Handlers : Handle(h)) \/ Reconcile

Spec == Init /\ [][Next]_vars

-----------------------------------------------------------------------------
(* Properties.                                                             *)

Phases == {"idle", "requireEvent", "reserve", "get", "load", "write", "put",
           "release"}

Entry == [by: Requests, before: Row \cup {None}, after: Row]

(* Type correctness: rows, logs, reservations, records and the handlers'   *)
(* local state have the shapes of their tables and variables.              *)
TypeOK ==
    /\ rows \in [EventIds -> Row \cup {None}]
    /\ audit \in [EventIds -> Seq(Entry)]
    /\ outbox \in [EventIds -> Seq(Row)]
    /\ attached \in [EventIds -> SUBSET [signal: Signals, by: Requests]]
    /\ reservations \in [Slots -> Fences \cup {None}]
    /\ records \in [Slots -> Record \cup {None}]
    /\ pc \in [Handlers -> Phases]
    /\ req \in [Handlers -> Requests \cup {None}]
    /\ fence \in [Handlers -> Fences \cup {None}]
    /\ image \in [Handlers -> Row \cup {None}]

(* No command takes effect twice: over all events and all retries, one     *)
(* idempotency slot has at most one audited mutation, whatever crashes,    *)
(* lost acknowledgements and reconciliations happen in between             *)
(* (executeExclusively, get, put and the runbook together).                *)
AtMostOnce ==
    \A e1, e2 \in EventIds :
      \A i1 \in DOMAIN audit[e1], i2 \in DOMAIN audit[e2] :
        Slot(audit[e1][i1].by) = Slot(audit[e2][i2].by)
          => e1 = e2 /\ i1 = i2

(* A mutation that committed and has no replay record yet is fenced: its   *)
(* slot is still reserved, so no retry can run it again ("ambiguous        *)
(* command completion must remain blocked").                               *)
AmbiguousIsBlocked ==
    \A e \in EventIds : \A i \in DOMAIN audit[e] :
      LET slot == Slot(audit[e][i].by) IN
      records[slot] = None => reservations[slot] # None

(* The after-image of an audit entry is its command applied to the         *)
(* before-image, under the version the client named.                       *)
Derived(entry) ==
    IF entry.by.op = "create"
    THEN entry.before = None /\ entry.after = Created(entry.by)
    ELSE /\ entry.before # None
         /\ entry.before.version = entry.by.expectedVersion
         /\ CanMutate(entry.before, entry.by)
         /\ entry.after = Mutate(entry.before, entry.by)

(* No lost update: each audited after-image is the command applied to the  *)
(* row as it was when the transaction committed, the before-image is the   *)
(* previous after-image, the last one is the row, and the outbox carries   *)
(* exactly the audited images in order.  The image was computed from a     *)
(* read made in an earlier transaction, so this rests on the version check *)
(* of update.                                                              *)
NoLostUpdate ==
    \A e \in EventIds :
      LET log == audit[e]
          n == Len(log)
      IN
      /\ rows[e] = IF n = 0 THEN Seed[e] ELSE log[n].after
      /\ Len(outbox[e]) = n
      /\ \A i \in 1..n :
           /\ outbox[e][i] = log[i].after
           /\ log[i].before = IF i = 1 THEN Seed[e] ELSE log[i - 1].after
           /\ log[i].by.event = e
           /\ Derived(log[i])

(* What a replay returns is the truth: a completed record belongs to one   *)
(* audited commit of the same slot and body and holds its after-image.     *)
(* (For an attachment, the signal is attached.)                            *)
ReplayIsTruthful ==
    \A s \in Slots : records[s] # None =>
      \/ \E e \in EventIds : \E i \in DOMAIN audit[e] :
           /\ Slot(audit[e][i].by) = s
           /\ records[s].fingerprint = Fingerprint(audit[e][i].by)
           /\ records[s].value = audit[e][i].after
      \/ /\ s[1] = "attach_signal"
         /\ HasSignal(records[s].fingerprint[1], records[s].fingerprint[3])

(* A handler about to answer success answers what the slot's record holds, *)
(* to the request whose body made that record: never another body's        *)
(* result, never a result that a restart would forget.                     *)
AnswersAreDurable ==
    \A h \in Handlers : pc[h] = "release" =>
      LET record == records[Slot(req[h])] IN
      /\ record # None
      /\ record.fingerprint = Fingerprint(req[h])
      /\ record.value = image[h]

(* Entry j of the log is a supervisor's authorization in actor's name, and *)
(* no reassessment follows it up to entry m.                               *)
AuthorizedSince(log, j, m, actor) ==
    /\ log[j].by.op = "authorize_closure"
    /\ "SUPERVISOR" \in RolesOf[log[j].by.actor]
    /\ actor = log[j].by.actor
    /\ \A k \in j..m : log[k].by.op # "reassess_severity"

SevereClosing(entry) ==
    /\ entry.by.op = "transition"
    /\ entry.after.status = "CLOSED"
    /\ isHighSeverity(entry.after.severity)

(* An S3/S4 event is closed only on a supervisor's authorization that is   *)
(* newer than the last severity assessment: in the audit log of the event  *)
(* an authorize_closure of a SUPERVISOR precedes the closing transition    *)
(* with no reassessment in between.                                        *)
ClosureIsAuthorized ==
    \A e \in EventIds : \A i \in DOMAIN audit[e] :
      SevereClosing(audit[e][i]) =>
        \E j \in 1..(i - 1) :
          AuthorizedSince(audit[e], j, i, audit[e][i].after.authorizedBy)

(* The domain guards are as strong as the table's CHECK constraints: an    *)
(* image that reaches a write transaction violates one only when it        *)
(* reassesses an event that is already closed (assessSeverity is legal in  *)
(* every status and drops the authorization).                              *)
GuardsImplyChecks ==
    \A h \in Handlers :
      (pc[h] = "write" /\ image[h] # None /\ ~ RowChecks(image[h]))
      => req[h].op = "reassess_severity" /\ image[h].status = "CLOSED"

(* Field users attach signals only to events they reported, and nobody     *)
(* writes outside the scope of the token: every audited command and every  *)
(* attachment comes from an actor to whom the event was visible.           *)
ScopeIsRespected ==
    \A e \in EventIds :
      /\ \A i \in DOMAIN audit[e] :
           audit[e][i].after.tenant = TenantOf[audit[e][i].by.actor]
      /\ \A a \in attached[e] :
           /\ rows[e] # None
           /\ rows[e].tenant = TenantOf[a.by.actor]
           /\ FieldUserOnly(a.by.actor) => rows[e].reporter = a.by.actor

(* One attachment, one audit entry per signal and event, however many      *)
(* clients attach it under however many keys.                              *)
AttachedOnce ==
    \A e \in EventIds : \A a, b \in attached[e] :
      a.signal = b.signal => a = b

(* The promise of an idempotency key, however often it is retried, reused  *)
(* and reconciled: one effect; while its outcome is unknown, no other; and *)
(* an answer of success that lasts.                                        *)
Idempotent == AtMostOnce /\ AmbiguousIsBlocked /\ AnswersAreDurable

(* Whatever is attached or written was in the scope of its actor when it   *)
(* was, and is there once (attachSignal and the access scope).             *)
AttachedInScope == ScopeIsRespected /\ AttachedOnce

(* A terminal status is never left and an event never vanishes, although   *)
(* a closed event may still be reassessed.                                 *)
TerminalIsFinal ==
    [][\A e \in EventIds : rows[e] # None =>
          /\ rows'[e] # None
          /\ rows[e].status \in Terminal
               => rows'[e].status = rows[e].status]_vars
=============================================================================
