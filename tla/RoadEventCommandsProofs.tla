---------------------- MODULE RoadEventCommandsProofs ----------------------
(***************************************************************************)
(* Proofs about RoadEventCommands for any number of handlers, events,      *)
(* keys, actors and requests.                                              *)
(***************************************************************************)
EXTENDS RoadEventCommands, TLAPS

(* Every field of a request has the type its command gives it.             *)
LEMMA RequestFields ==
    ASSUME NEW r \in Requests
    PROVE  /\ r \in Request
           /\ r.actor \in Actors /\ r.op \in Operations /\ r.key \in Keys
           /\ r.event \in EventIds /\ r.expectedVersion \in Nat \ {0}
           /\ r.review \in BOOLEAN
           /\ r.arg \in ArgOf(r.op)
           /\ r # None
  BY RequestsAssumption, NoneAssumption DEF Request

(* The idempotency slot and the fingerprint of a request are well typed.   *)
LEMMA SlotType ==
    ASSUME NEW r \in Requests
    PROVE  Slot(r) \in Slots /\ Fingerprint(r) \in Body
  <1>1. r \in Request /\ r.actor \in Actors /\ r.op \in Operations
        /\ r.key \in Keys /\ r.event \in EventIds
        /\ r.expectedVersion \in Nat \ {0} /\ r.review \in BOOLEAN
        /\ r.arg \in Statuses \cup Levels \cup Signals \cup {None}
    BY RequestsAssumption DEF Request
  <1>2. QED
    BY <1>1 DEF Slot, Slots, Fingerprint, Body

(* create builds a row.                                                    *)
LEMMA CreatedType ==
    ASSUME NEW r \in Requests, r.op = "create"
    PROVE  Created(r) \in Row
  <1>1. r.arg \in Levels /\ r.review \in BOOLEAN /\ r.actor \in Actors
    BY RequestFields DEF ArgOf
  <1>2. TenantOf[r.actor] \in Tenants
    BY <1>1, ActorsAssumption
  <1>3. ReporterScope(r.actor) \in Actors \cup {None}
    BY <1>1 DEF ReporterScope
  <1>4. QED
    BY <1>1, <1>2, <1>3 DEF Created, NewRoadEvent, Row, Statuses

(* A domain method turns a row into a row with the next version and the    *)
(* same tenant and reporter.                                               *)
LEMMA MutateType ==
    ASSUME NEW row \in Row, NEW r \in Requests, IsUpdate(r)
    PROVE  /\ Mutate(row, r) \in Row
           /\ Mutate(row, r).version = row.version + 1
           /\ Mutate(row, r).tenant = row.tenant
           /\ Mutate(row, r).reporter = row.reporter
  <1>1. /\ row.status \in Statuses /\ row.severity \in Levels
        /\ row.review \in BOOLEAN /\ row.authorizedBy \in Actors \cup {None}
        /\ row.version \in Nat \ {0} /\ row.tenant \in Tenants
        /\ row.reporter \in Actors \cup {None}
    BY DEF Row
  <1>2. r.actor \in Actors /\ r.review \in BOOLEAN /\ r.arg \in ArgOf(r.op)
    BY RequestFields
  <1>v. row.version + 1 \in Nat \ {0}
    BY <1>1
  <1>3. CASE r.op = "reassess_severity"
    <2>1. r.arg \in Levels
      BY <1>2, <1>3 DEF ArgOf
    <2>2. Mutate(row, r) = assessSeverity(row, r.arg, r.review)
      BY <1>3 DEF Mutate
    <2>3. QED
      BY <1>2, <1>v, <2>1, <2>2, Zenon DEF assessSeverity, Row
  <1>4. CASE r.op = "transition"
    <2>1. r.arg \in Statuses
      BY <1>2, <1>4 DEF ArgOf
    <2>2. Mutate(row, r) = transitionTo(row, r.arg)
      BY <1>4 DEF Mutate
    <2>3. QED
      BY <1>v, <2>1, <2>2, Zenon DEF transitionTo, Row
  <1>5. CASE r.op = "authorize_closure"
    <2>1. Mutate(row, r) = authorizeClosure(row, r.actor)
      BY <1>5 DEF Mutate
    <2>2. QED
      BY <1>2, <1>v, <2>1, Zenon DEF authorizeClosure, Row
  <1>6. QED
    BY <1>3, <1>4, <1>5 DEF IsUpdate

-----------------------------------------------------------------------------
(* What a handler's program counter says about its own variables.          *)
HandlerOK ==
    \A h \in Handlers :
      /\ pc[h] # "idle" => req[h] \in Requests /\ AssertAllowed(req[h])
      /\ pc[h] \in {"idle", "requireEvent", "reserve"} => fence[h] = None
      /\ pc[h] \in {"get", "load", "write", "put", "release"}
           => fence[h] # None
      /\ pc[h] = "requireEvent" => req[h].op = "attach_signal"
      /\ pc[h] = "load" => IsUpdate(req[h])
      /\ pc[h] \in {"reserve", "get", "write"} /\ req[h].op = "create"
           => image[h] = Created(req[h])
      /\ pc[h] = "write" /\ IsUpdate(req[h]) => image[h] \in Row

(* Leaving makes a handler idle and well formed.                           *)
LEMMA LeaveTyped ==
    ASSUME TypeOK, HandlerOK, NEW h \in Handlers, Leave(h)
    PROVE  /\ pc' \in [Handlers -> Phases]
           /\ req' \in [Handlers -> Requests \cup {None}]
           /\ fence' \in [Handlers -> Fences \cup {None}]
           /\ image' \in [Handlers -> Row \cup {None}]
           /\ HandlerOK'
  <1>1. /\ pc' \in [Handlers -> Phases]
        /\ req' \in [Handlers -> Requests \cup {None}]
        /\ fence' \in [Handlers -> Fences \cup {None}]
        /\ image' \in [Handlers -> Row \cup {None}]
    BY DEF Leave, Goto, TypeOK, Phases
  <1>2. HandlerOK'
    BY DEF Leave, Goto, TypeOK, HandlerOK, IsUpdate, Created
  <1>3. QED
    BY <1>1, <1>2

(* The three columns a write transaction touches keep their types.         *)
LEMMA PersistTyped ==
    ASSUME TypeOK, HandlerOK, NEW h \in Handlers, pc[h] = "write",
           image[h] \in Row, Persist(h, req[h])
    PROVE  /\ rows' \in [EventIds -> Row \cup {None}]
           /\ audit' \in [EventIds -> Seq(Entry)]
           /\ outbox' \in [EventIds -> Seq(Row)]
           /\ pc' \in [Handlers -> Phases]
           /\ HandlerOK'
  <1>1. req[h] \in Requests /\ req[h].event \in EventIds
    BY RequestFields DEF HandlerOK
  <1>2. rows' \in [EventIds -> Row \cup {None}]
    BY <1>1 DEF Persist, TypeOK
  <1>3. outbox' \in [EventIds -> Seq(Row)]
    <2>1. Append(outbox[req[h].event], image[h]) \in Seq(Row)
      BY <1>1 DEF TypeOK
    <2>2. QED
      BY <1>1, <2>1 DEF Persist, TypeOK
  <1>4. audit' \in [EventIds -> Seq(Entry)]
    <2>1. [by |-> req[h], before |-> rows[req[h].event], after |-> image[h]]
             \in Entry
      BY <1>1 DEF Entry, TypeOK
    <2>2. Append(audit[req[h].event], [by |-> req[h],
             before |-> rows[req[h].event], after |-> image[h]]) \in Seq(Entry)
      BY <1>1, <2>1 DEF TypeOK
    <2>3. QED
      BY <1>1, <2>2 DEF Persist, TypeOK
  <1>5. pc' \in [Handlers -> Phases]
    BY DEF Persist, Goto, TypeOK, Phases
  <1>6. HandlerOK'
    BY DEF Persist, Goto, TypeOK, HandlerOK, IsUpdate, Created
  <1>7. QED
    BY <1>2, <1>3, <1>4, <1>5, <1>6

(* Every step keeps the types and the handlers' local invariant.           *)
LEMMA TypeStep ==
    TypeOK /\ HandlerOK /\ [Next]_vars => TypeOK' /\ HandlerOK'
  <1> SUFFICES ASSUME TypeOK, HandlerOK, [Next]_vars
               PROVE  TypeOK' /\ HandlerOK'
    OBVIOUS
  <1>1. ASSUME NEW h \in Handlers, NEW r \in Requests, Submit(h, r)
        PROVE  TypeOK' /\ HandlerOK'
    <2>1. r.op = "create" => Created(r) \in Row
      BY CreatedType
    <2>2. TypeOK'
      BY <1>1, <2>1 DEF Submit, Goto, tables, TypeOK, Phases
    <2>3. r.op = "create" => r.op # "attach_signal"
      OBVIOUS
    <2>4. HandlerOK'
      BY <1>1, <2>3 DEF Submit, Goto, tables, TypeOK, HandlerOK, IsUpdate
    <2>5. QED
      BY <2>2, <2>4
  <1>2. ASSUME NEW h \in Handlers, RequireEvent(h)
        PROVE  TypeOK' /\ HandlerOK'
    <2>1. CASE Leave(h)
      BY <1>2, <2>1, LeaveTyped DEF RequireEvent, tables, TypeOK
    <2>2. CASE Goto(h, "reserve") /\ UNCHANGED <<req, fence, image>>
      <3>1. TypeOK'
        BY <1>2, <2>2 DEF RequireEvent, Goto, tables, TypeOK, Phases
      <3>2. HandlerOK'
        BY <1>2, <2>2 DEF RequireEvent, Goto, tables, TypeOK, HandlerOK,
                          IsUpdate
      <3>3. QED
        BY <3>1, <3>2
    <2>3. QED
      BY <1>2, <2>1, <2>2 DEF RequireEvent
  <1>3. ASSUME NEW h \in Handlers, Reserve(h)
        PROVE  TypeOK' /\ HandlerOK'
    <2>1. CASE Leave(h) /\ UNCHANGED reservations
      BY <1>3, <2>1, LeaveTyped DEF Reserve, tables, TypeOK
    <2>2. CASE /\ \E f \in Fences :
                    /\ reservations' = [reservations EXCEPT ![Slot(req[h])] = f]
                    /\ fence' = [fence EXCEPT ![h] = f]
               /\ Goto(h, "get")
               /\ UNCHANGED <<req, image>>
      <3>1. PICK f \in Fences :
              /\ reservations' = [reservations EXCEPT ![Slot(req[h])] = f]
              /\ fence' = [fence EXCEPT ![h] = f]
        BY <1>3, <2>2 DEF Reserve
      <3>2. /\ pc[h] = "reserve" /\ pc' = [pc EXCEPT ![h] = "get"]
            /\ UNCHANGED <<req, image, rows, audit, outbox, attached, records>>
        BY <1>3, <2>2 DEF Reserve, Goto, tables
      <3>3. f # None /\ Slot(req[h]) \in Slots
        BY <3>2, NoneAssumption, SlotType DEF HandlerOK
      <3>4. TypeOK'
        BY <3>1, <3>2, <3>3 DEF TypeOK, Phases
      <3>5. HandlerOK'
        BY <3>1, <3>2, <3>3 DEF TypeOK, HandlerOK, IsUpdate
      <3>6. QED
        BY <3>4, <3>5
    <2>3. QED
      BY <1>3, <2>1, <2>2 DEF Reserve
  <1>4. ASSUME NEW h \in Handlers, Get(h)
        PROVE  TypeOK' /\ HandlerOK'
    <2> DEFINE record == records[Slot(req[h])]
    <2>1. /\ pc[h] = "get" /\ req[h] \in Requests
          /\ UNCHANGED <<rows, audit, outbox, attached, reservations, records>>
      BY <1>4 DEF Get, tables, HandlerOK
    <2>2. record \in Record \cup {None}
      BY <2>1, SlotType DEF TypeOK
    <2>3. CASE Leave(h)
      BY <2>1, <2>3, LeaveTyped DEF TypeOK
    <2>4. CASE /\ Goto(h, IF IsUpdate(req[h]) THEN "load" ELSE "write")
               /\ UNCHANGED <<req, fence, image>>
      <3>1. TypeOK'
        BY <2>1, <2>4 DEF Goto, TypeOK, Phases
      <3>2. HandlerOK'
        BY <2>1, <2>4 DEF Goto, TypeOK, HandlerOK
      <3>3. QED
        BY <3>1, <3>2
    <2>5. CASE /\ record # None
               /\ image' = [image EXCEPT ![h] = record.value]
               /\ Goto(h, "release")
               /\ UNCHANGED <<req, fence>>
      <3>1. record.value \in Row \cup {None}
        BY <2>2, <2>5 DEF Record
      <3>2. TypeOK'
        BY <2>1, <2>5, <3>1 DEF Goto, TypeOK, Phases
      <3>3. HandlerOK'
        BY <2>1, <2>5 DEF Goto, TypeOK, HandlerOK
      <3>4. QED
        BY <3>2, <3>3
    <2>6. QED
      BY <1>4, <2>3, <2>4, <2>5 DEF Get
  <1>5. ASSUME NEW h \in Handlers, Load(h)
        PROVE  TypeOK' /\ HandlerOK'
    <2> DEFINE row == rows[req[h].event]
    <2>1. /\ pc[h] = "load" /\ req[h] \in Requests /\ IsUpdate(req[h])
          /\ UNCHANGED <<rows, audit, outbox, attached, reservations, records>>
      BY <1>5 DEF Load, tables, HandlerOK
    <2>2. CASE Leave(h)
      BY <2>1, <2>2, LeaveTyped DEF TypeOK
    <2>3. CASE /\ Visible(row, req[h].actor)
               /\ image' = [image EXCEPT ![h] = Mutate(row, req[h])]
               /\ Goto(h, "write")
               /\ UNCHANGED <<req, fence>>
      <3>1. row \in Row
        BY <2>1, <2>3, RequestFields DEF TypeOK, Visible
      <3>2. Mutate(row, req[h]) \in Row
        BY <2>1, <3>1, MutateType
      <3>3. req[h].op # "create"
        BY <2>1 DEF IsUpdate
      <3>4. TypeOK'
        BY <2>1, <2>3, <3>2 DEF Goto, TypeOK, Phases
      <3>5. HandlerOK'
        BY <2>1, <2>3, <3>2, <3>3 DEF Goto, TypeOK, HandlerOK
      <3>6. QED
        BY <3>4, <3>5
    <2>4. QED
      BY <1>5, <2>2, <2>3 DEF Load
  <1>6. ASSUME NEW h \in Handlers, WriteCreate(h)
        PROVE  TypeOK' /\ HandlerOK'
    <2>1. /\ pc[h] = "write" /\ req[h] \in Requests /\ req[h].op = "create"
          /\ UNCHANGED <<reservations, records>>
      BY <1>6 DEF WriteCreate, HandlerOK
    <2>2. CASE Leave(h) /\ UNCHANGED tables
      BY <2>1, <2>2, LeaveTyped DEF TypeOK, tables
    <2>3. CASE Persist(h, req[h])
      <3>1. image[h] \in Row
        BY <2>1, CreatedType DEF HandlerOK
      <3>2. UNCHANGED <<attached, req, fence, image>>
        BY <2>3 DEF Persist
      <3>3. QED
        BY <2>1, <2>3, <3>1, <3>2, PersistTyped DEF TypeOK
    <2>4. QED
      BY <1>6, <2>2, <2>3 DEF WriteCreate
  <1>7. ASSUME NEW h \in Handlers, WriteUpdate(h)
        PROVE  TypeOK' /\ HandlerOK'
    <2>1. /\ pc[h] = "write" /\ req[h] \in Requests /\ IsUpdate(req[h])
          /\ UNCHANGED <<reservations, records>>
      BY <1>7 DEF WriteUpdate, HandlerOK
    <2>2. CASE Leave(h) /\ UNCHANGED tables
      BY <2>1, <2>2, LeaveTyped DEF TypeOK, tables
    <2>3. CASE Persist(h, req[h])
      <3>1. image[h] \in Row
        BY <2>1 DEF HandlerOK
      <3>2. UNCHANGED <<attached, req, fence, image>>
        BY <2>3 DEF Persist
      <3>3. QED
        BY <2>1, <2>3, <3>1, <3>2, PersistTyped DEF TypeOK
    <2>4. QED
      BY <1>7, <2>2, <2>3 DEF WriteUpdate
  <1>8. ASSUME NEW h \in Handlers, WriteAttach(h)
        PROVE  TypeOK' /\ HandlerOK'
    <2>1. /\ pc[h] = "write" /\ req[h] \in Requests
          /\ req[h].op = "attach_signal"
          /\ UNCHANGED <<reservations, records>>
      BY <1>8 DEF WriteAttach, HandlerOK
    <2>2. CASE Leave(h) /\ UNCHANGED tables
      BY <2>1, <2>2, LeaveTyped DEF TypeOK, tables
    <2>3. CASE /\ AttachOnce(req[h]) /\ Goto(h, "put")
               /\ UNCHANGED <<rows, audit, outbox, req, fence, image>>
      <3>1. req[h].arg \in Signals /\ req[h].event \in EventIds
        BY <2>1, RequestFields DEF ArgOf
      <3>2. [signal |-> req[h].arg, by |-> req[h]]
              \in [signal: Signals, by: Requests]
        BY <2>1, <3>1
      <3>3. attached' \in [EventIds -> SUBSET [signal: Signals, by: Requests]]
        BY <2>3, <3>1, <3>2 DEF AttachOnce, TypeOK
      <3>4. TypeOK'
        BY <2>1, <2>3, <3>3 DEF Goto, TypeOK, Phases
      <3>5. HandlerOK'
        BY <2>1, <2>3 DEF Goto, TypeOK, HandlerOK
      <3>6. QED
        BY <3>4, <3>5
    <2>4. QED
      BY <1>8, <2>2, <2>3 DEF WriteAttach
  <1>9. ASSUME NEW h \in Handlers, Put(h)
        PROVE  TypeOK' /\ HandlerOK'
    <2> DEFINE slot == Slot(req[h])
               stored == IF records[slot] = None
                         THEN [fingerprint |-> Fingerprint(req[h]),
                               value |-> image[h]]
                         ELSE records[slot]
    <2>1. /\ pc[h] = "put" /\ req[h] \in Requests
          /\ UNCHANGED <<rows, audit, outbox, attached, reservations>>
          /\ records' = [records EXCEPT ![slot] = stored]
      BY <1>9 DEF Put, HandlerOK, tables
    <2>2. stored \in Record
      BY <2>1, SlotType DEF TypeOK, Record
    <2>3. records' \in [Slots -> Record \cup {None}]
      BY <2>1, <2>2, SlotType DEF TypeOK
    <2>4. CASE Leave(h)
      BY <2>1, <2>3, <2>4, LeaveTyped DEF TypeOK
    <2>5. CASE Goto(h, "release") /\ UNCHANGED <<req, fence, image>>
      <3>1. TypeOK'
        BY <2>1, <2>3, <2>5 DEF Goto, TypeOK, Phases
      <3>2. HandlerOK'
        BY <2>1, <2>5 DEF Goto, TypeOK, HandlerOK
      <3>3. QED
        BY <3>1, <3>2
    <2>6. QED
      BY <1>9, <2>4, <2>5 DEF Put
  <1>10. ASSUME NEW h \in Handlers, Release(h)
         PROVE  TypeOK' /\ HandlerOK'
    <2>1. reservations' \in [Slots -> Fences \cup {None}]
      BY <1>10, SlotType DEF Release, TypeOK, HandlerOK
    <2>2. QED
      BY <1>10, <2>1, LeaveTyped DEF Release, tables, TypeOK
  <1>11. ASSUME NEW h \in Handlers, Crash(h)
         PROVE  TypeOK' /\ HandlerOK'
    BY <1>11, LeaveTyped DEF Crash, tables, TypeOK
  <1>12. ASSUME NEW slot \in Slots,
                ReconcileUncommitted(slot) \/ ReconcileCompleted(slot)
         PROVE  TypeOK' /\ HandlerOK'
    <2>1. /\ reservations' = [reservations EXCEPT ![slot] = None]
          /\ UNCHANGED <<rows, audit, outbox, attached, records,
                         pc, req, fence, image>>
      BY <1>12 DEF ReconcileUncommitted, ReconcileCompleted, tables,
                   handlerVars
    <2>2. QED
      BY <2>1 DEF TypeOK, HandlerOK
  <1>13. CASE UNCHANGED vars
    BY <1>13 DEF vars, TypeOK, HandlerOK
  <1>14. QED
    BY <1>1, <1>2, <1>3, <1>4, <1>5, <1>6, <1>7, <1>8, <1>9, <1>10, <1>11,
       <1>12, <1>13 DEF Next, Handle, Reconcile

(* Type correctness of the command path.                                   *)
THEOREM TypeCorrect == Spec => []TypeOK
  <1>1. Init => TypeOK /\ HandlerOK
    BY SeedAssumption DEF Init, TypeOK, HandlerOK, Phases
  <1>2. QED
    BY <1>1, TypeStep, PTL DEF Spec

-----------------------------------------------------------------------------
(* The slot has an audited mutation.                                       *)
HasEntry(slot) ==
    \E e \in EventIds : \E i \in DOMAIN audit[e] : Slot(audit[e][i].by) = slot

(* randomUUID never repeats among live handlers.                           *)
FencesDistinct ==
    \A g, h \in Handlers : g # h /\ fence[g] # None => fence[g] # fence[h]

(* From its INSERT to its DELETE a handler's fence is the slot's           *)
(* reservation; only residue of a completed command may have been removed  *)
(* under it, and then it has nothing left to do but replay.                *)
HoldsSlot ==
    \A h \in Handlers : pc[h] \in {"get", "load", "write", "put"} =>
      \/ reservations[Slot(req[h])] = fence[h]
      \/ pc[h] = "get" /\ records[Slot(req[h])] # None

(* Before its own write a handler's slot has no effect and no record.      *)
SlotIsFresh ==
    \A h \in Handlers :
      /\ pc[h] \in {"load", "write", "put"} => records[Slot(req[h])] = None
      /\ pc[h] \in {"load", "write"} => ~ HasEntry(Slot(req[h]))
      /\ pc[h] = "get" /\ records[Slot(req[h])] = None
           => ~ HasEntry(Slot(req[h]))

(* AmbiguousIsBlocked, slot by slot.                                       *)
EntryIsFenced ==
    \A s \in Slots : HasEntry(s) /\ records[s] = None
                        => reservations[s] # None

Fencing ==
    /\ FencesDistinct
    /\ HoldsSlot
    /\ SlotIsFresh
    /\ EntryIsFenced
    /\ AnswersAreDurable

(* The audited slot of an entry is a slot.                                 *)
LEMMA EntryType ==
    ASSUME TypeOK, NEW e \in EventIds, NEW i \in DOMAIN audit[e]
    PROVE  /\ audit[e][i] \in Entry
           /\ Slot(audit[e][i].by) \in Slots
  <1>1. audit[e] \in Seq(Entry)
    BY DEF TypeOK
  <1>2. audit[e][i] \in Entry
    BY <1>1
  <1>3. QED
    BY <1>2, SlotType DEF Entry

(* EntryIsFenced is AmbiguousIsBlocked.                                    *)
LEMMA FencingBlocks ==
    ASSUME TypeOK, Fencing
    PROVE  AmbiguousIsBlocked
  <1> SUFFICES ASSUME NEW e \in EventIds, NEW i \in DOMAIN audit[e],
                      records[Slot(audit[e][i].by)] = None
               PROVE  reservations[Slot(audit[e][i].by)] # None
    BY DEF AmbiguousIsBlocked
  <1>1. Slot(audit[e][i].by) \in Slots
    BY EntryType
  <1>2. HasEntry(Slot(audit[e][i].by))
    BY DEF HasEntry
  <1>3. QED
    BY <1>1, <1>2 DEF Fencing, EntryIsFenced

(* A handler that leaves while the tables stay as they are.                *)
LEMMA LeaveFenced ==
    ASSUME TypeOK, HandlerOK, Fencing, NEW h \in Handlers, Leave(h),
           UNCHANGED <<audit, reservations, records>>
    PROVE  Fencing'
  <1>1. \A s : HasEntry(s)' <=> HasEntry(s)
    BY DEF HasEntry
  <1>2. /\ pc' = [pc EXCEPT ![h] = "idle"]
        /\ req' = [req EXCEPT ![h] = None]
        /\ fence' = [fence EXCEPT ![h] = None]
        /\ image' = [image EXCEPT ![h] = None]
    BY DEF Leave, Goto
  <1>3. FencesDistinct'
    BY <1>2 DEF Fencing, FencesDistinct, TypeOK
  <1>4. HoldsSlot'
    BY <1>2 DEF Fencing, HoldsSlot, TypeOK
  <1>5. SlotIsFresh'
    BY <1>1, <1>2 DEF Fencing, SlotIsFresh, TypeOK
  <1>6. EntryIsFenced'
    BY <1>1 DEF Fencing, EntryIsFenced
  <1>7. AnswersAreDurable'
    BY <1>2 DEF Fencing, AnswersAreDurable, TypeOK
  <1>8. QED
    BY <1>3, <1>4, <1>5, <1>6, <1>7 DEF Fencing

(* Two handlers between reservation and record never share a slot.         *)
LEMMA SlotIsExclusive ==
    ASSUME HandlerOK, Fencing, NEW g \in Handlers, NEW h \in Handlers,
           g # h, pc[h] \in {"load", "write", "put"},
           pc[g] \in {"get", "load", "write", "put"}
    PROVE  Slot(req[g]) # Slot(req[h])
  <1>1. reservations[Slot(req[h])] = fence[h] /\ fence[h] # None
    BY DEF HandlerOK, Fencing, HoldsSlot
  <1>2. records[Slot(req[h])] = None
    BY DEF Fencing, SlotIsFresh
  <1>3. ASSUME Slot(req[g]) = Slot(req[h]) PROVE FALSE
    <2>1. reservations[Slot(req[h])] = fence[g]
      BY <1>2, <1>3 DEF Fencing, HoldsSlot
    <2>2. QED
      BY <1>1, <2>1 DEF Fencing, FencesDistinct
  <1>4. QED
    BY <1>3

(* The audit entry the write of h inserts.                                 *)
NewEntry(h) == [by |-> req[h], before |-> rows[req[h].event],
                after |-> image[h]]

(* A write transaction appends one entry, number n, to the log of e.       *)
Appends(h, e, n) ==
    /\ e = req[h].event /\ n = Len(audit[e]) + 1
    /\ \A x \in EventIds \ {e} : audit'[x] = audit[x]
    /\ DOMAIN audit[e] = 1..(n - 1)
    /\ Len(audit'[e]) = n
    /\ DOMAIN audit'[e] = DOMAIN audit[e] \cup {n}
    /\ \A i \in DOMAIN audit[e] : audit'[e][i] = audit[e][i]
    /\ audit'[e][n] = NewEntry(h)
    /\ audit'[e][n].by = req[h]

(* A committed RoadEvent write appends one entry to one log.               *)
LEMMA PersistAppends ==
    ASSUME TypeOK, HandlerOK, NEW h \in Handlers, pc[h] = "write",
           Persist(h, req[h])
    PROVE  \E e \in EventIds, n \in Nat \ {0} : Appends(h, e, n)
  <1> DEFINE e == req[h].event
             n == Len(audit[e]) + 1
  <1>1. e \in EventIds
    BY RequestFields DEF HandlerOK
  <1>2. audit' = [audit EXCEPT ![e] = Append(audit[e], NewEntry(h))]
    BY DEF Persist, NewEntry
  <1>3. /\ audit'[e] = Append(audit[e], NewEntry(h))
        /\ \A x \in EventIds \ {e} : audit'[x] = audit[x]
    BY <1>1, <1>2 DEF TypeOK
  <1>4. audit[e] \in Seq(Entry)
    BY <1>1 DEF TypeOK
  <1>5. /\ n \in Nat \ {0} /\ DOMAIN audit[e] = 1..(n - 1)
        /\ Len(Append(audit[e], NewEntry(h))) = n
        /\ DOMAIN Append(audit[e], NewEntry(h)) = DOMAIN audit[e] \cup {n}
        /\ \A i \in DOMAIN audit[e] :
             Append(audit[e], NewEntry(h))[i] = audit[e][i]
        /\ Append(audit[e], NewEntry(h))[n] = NewEntry(h)
    <2> DEFINE s == audit[e]
               x == NewEntry(h)
    <2>1. s \in Seq(Entry)
      BY <1>4
    <2> HIDE DEF s, x
    <2>2. /\ Len(s) \in Nat /\ DOMAIN s = 1 .. Len(s)
          /\ Len(Append(s, x)) = Len(s) + 1
          /\ DOMAIN Append(s, x) = 1 .. Len(s) + 1
      BY <2>1
    <2>3. /\ \A i \in 1 .. Len(s) : Append(s, x)[i] = s[i]
          /\ Append(s, x)[Len(s) + 1] = x
      BY <2>1
    <2> QED BY <2>2, <2>3 DEF s, x
  <1>6. NewEntry(h).by = req[h]
    BY DEF NewEntry
  <1>7. Appends(h, e, n)
    BY <1>3, <1>5, <1>6 DEF Appends
  <1>8. QED
    BY <1>1, <1>5, <1>7

(* After a write transaction exactly one more slot has an entry.           *)
LEMMA PersistEntry ==
    ASSUME TypeOK, HandlerOK, NEW h \in Handlers, pc[h] = "write",
           Persist(h, req[h])
    PROVE  \A s : HasEntry(s)' <=> HasEntry(s) \/ s = Slot(req[h])
  <1>0. PICK e \in EventIds, n \in Nat \ {0} : Appends(h, e, n)
    BY PersistAppends
  <1>1. /\ \A x \in EventIds \ {e} : audit'[x] = audit[x]
        /\ DOMAIN audit'[e] = DOMAIN audit[e] \cup {n}
        /\ \A i \in DOMAIN audit[e] : audit'[e][i] = audit[e][i]
        /\ audit'[e][n].by = req[h]
    BY <1>0 DEF Appends
  <1>2. ASSUME NEW s, HasEntry(s)
        PROVE  HasEntry(s)'
    <2>0. PICK x \in EventIds :
            \E i \in DOMAIN audit[x] : Slot(audit[x][i].by) = s
      BY <1>2 DEF HasEntry
    <2>1. PICK i \in DOMAIN audit[x] : Slot(audit[x][i].by) = s
      BY <2>0
    <2>2. i \in DOMAIN audit'[x] /\ audit'[x][i] = audit[x][i]
      BY <1>1
    <2>3. QED
      BY <2>1, <2>2 DEF HasEntry
  <1>3. ASSUME NEW s, s = Slot(req[h])
        PROVE  HasEntry(s)'
    BY <1>1, <1>3 DEF HasEntry
  <1>4. ASSUME NEW s, HasEntry(s)'
        PROVE  HasEntry(s) \/ s = Slot(req[h])
    <2>0. PICK x \in EventIds :
            \E i \in DOMAIN audit'[x] : Slot(audit'[x][i].by) = s
      BY <1>4 DEF HasEntry
    <2>1. PICK i \in DOMAIN audit'[x] : Slot(audit'[x][i].by) = s
      BY <2>0
    <2>2. \/ i \in DOMAIN audit[x] /\ audit'[x][i] = audit[x][i]
          \/ audit'[x][i].by = req[h]
      BY <1>1
    <2>3. QED
      BY <2>1, <2>2 DEF HasEntry
  <1>5. QED
    BY <1>2, <1>3, <1>4

(* The write of a mutation keeps every slot fenced.                        *)
LEMMA PersistFenced ==
    ASSUME TypeOK, HandlerOK, Fencing, NEW h \in Handlers, pc[h] = "write",
           Persist(h, req[h]), UNCHANGED <<reservations, records>>
    PROVE  Fencing'
  <1>1. \A s : HasEntry(s)' <=> HasEntry(s) \/ s = Slot(req[h])
    BY PersistEntry
  <1>2. /\ pc' = [pc EXCEPT ![h] = "put"]
        /\ UNCHANGED <<req, fence, image, reservations, records>>
    BY DEF Persist, Goto
  <1>3. \A g \in Handlers : g # h /\ pc[g] \in {"get", "load", "write"}
                              => Slot(req[g]) # Slot(req[h])
    BY SlotIsExclusive
  <1>4. FencesDistinct'
    BY <1>2 DEF Fencing, FencesDistinct
  <1>5. HoldsSlot'
    BY <1>2 DEF Fencing, HoldsSlot, TypeOK
  <1>6. SlotIsFresh'
    BY <1>1, <1>2, <1>3 DEF Fencing, SlotIsFresh, TypeOK
  <1>7. EntryIsFenced'
    <2>1. reservations[Slot(req[h])] # None
      BY DEF HandlerOK, Fencing, HoldsSlot
    <2>2. QED
      BY <1>1, <1>2, <2>1 DEF Fencing, EntryIsFenced
  <1>8. AnswersAreDurable'
    BY <1>2 DEF Fencing, AnswersAreDurable, TypeOK
  <1>9. QED
    BY <1>4, <1>5, <1>6, <1>7, <1>8 DEF Fencing

(* Every step keeps the slots fenced.                                      *)
LEMMA FencingStep ==
    TypeOK /\ HandlerOK /\ Fencing /\ [Next]_vars => Fencing'
  <1> SUFFICES ASSUME TypeOK, HandlerOK, Fencing, [Next]_vars
               PROVE  Fencing'
    OBVIOUS
  <1> DEFINE NoNewEntry == \A s : HasEntry(s)' <=> HasEntry(s)
  <1>0. UNCHANGED audit => NoNewEntry
    BY DEF HasEntry
  <1>1. ASSUME NEW h \in Handlers,
               \/ \E r \in Requests : Submit(h, r)
               \/ RequireEvent(h) /\ ~ Leave(h)
        PROVE  Fencing'
    <2>1. PICK label \in {"requireEvent", "reserve"} :
              pc' = [pc EXCEPT ![h] = label]
      BY <1>1 DEF Submit, RequireEvent, Goto
    <2>2. /\ pc[h] \in {"idle", "requireEvent"}
          /\ UNCHANGED <<audit, reservations, records, fence>>
          /\ \A g \in Handlers \ {h} : /\ req'[g] = req[g]
                                       /\ image'[g] = image[g]
      BY <1>1 DEF Submit, RequireEvent, tables, TypeOK
    <2>3. FencesDistinct' /\ HoldsSlot'
      BY <2>1, <2>2 DEF Fencing, FencesDistinct, HoldsSlot, TypeOK
    <2>4. SlotIsFresh' /\ EntryIsFenced'
      BY <1>0, <2>1, <2>2 DEF Fencing, SlotIsFresh, EntryIsFenced, TypeOK
    <2>5. AnswersAreDurable'
      BY <2>1, <2>2 DEF Fencing, AnswersAreDurable, TypeOK
    <2>6. QED
      BY <2>3, <2>4, <2>5 DEF Fencing
  <1>2. ASSUME NEW h \in Handlers, Leave(h),
               RequireEvent(h) \/ Get(h) \/ Load(h) \/ Crash(h)
        PROVE  Fencing'
    BY <1>2, LeaveFenced DEF RequireEvent, Get, Load, Crash, tables
  <1>3. ASSUME NEW h \in Handlers, Reserve(h)
        PROVE  Fencing'
    <2>1. CASE Leave(h) /\ UNCHANGED reservations
      BY <1>3, <2>1, LeaveFenced DEF Reserve, tables
    <2>2. CASE /\ reservations[Slot(req[h])] = None
               /\ \E f \in Fences :
                    /\ ~ InUse(f)
                    /\ reservations' = [reservations EXCEPT ![Slot(req[h])] = f]
                    /\ fence' = [fence EXCEPT ![h] = f]
               /\ Goto(h, "get")
               /\ UNCHANGED <<req, image>>
      <3>1. PICK f \in Fences :
              /\ ~ InUse(f)
              /\ reservations' = [reservations EXCEPT ![Slot(req[h])] = f]
              /\ fence' = [fence EXCEPT ![h] = f]
        BY <2>2
      <3>2. /\ pc[h] = "reserve" /\ pc' = [pc EXCEPT ![h] = "get"]
            /\ UNCHANGED <<req, image, audit, records>>
        BY <1>3, <2>2 DEF Reserve, Goto, tables
      <3>3. f # None /\ Slot(req[h]) \in Slots
        BY <3>2, NoneAssumption, SlotType DEF HandlerOK
      <3>4. \A g \in Handlers : fence[g] # f
        BY <3>1 DEF InUse
      <3>5. FencesDistinct'
        BY <3>1, <3>4 DEF Fencing, FencesDistinct, TypeOK
      <3>6. \A g \in Handlers : pc[g] \in {"load", "write", "put"}
                                => Slot(req[g]) # Slot(req[h])
        BY <2>2 DEF Fencing, HoldsSlot, HandlerOK
      <3>7. \A g \in Handlers : pc[g] = "get" /\ Slot(req[g]) = Slot(req[h])
                                => records[Slot(req[g])] # None
        BY <2>2 DEF Fencing, HoldsSlot, HandlerOK
      <3>8. HoldsSlot'
        BY <3>1, <3>2, <3>3, <3>6, <3>7 DEF Fencing, HoldsSlot, TypeOK
      <3>9. SlotIsFresh'
        <4>1. records[Slot(req[h])] = None => ~ HasEntry(Slot(req[h]))
          BY <2>2, <3>3 DEF Fencing, EntryIsFenced
        <4>2. QED
          BY <1>0, <3>2, <4>1 DEF Fencing, SlotIsFresh, TypeOK
      <3>10. EntryIsFenced'
        BY <1>0, <3>1, <3>2, <3>3 DEF Fencing, EntryIsFenced, TypeOK
      <3>11. AnswersAreDurable'
        BY <3>2 DEF Fencing, AnswersAreDurable, TypeOK
      <3>12. QED
        BY <3>5, <3>8, <3>9, <3>10, <3>11 DEF Fencing
    <2>3. QED
      BY <1>3, <2>1, <2>2 DEF Reserve
  <1>4. ASSUME NEW h \in Handlers, Get(h), ~ Leave(h)
        PROVE  Fencing'
    <2> DEFINE record == records[Slot(req[h])]
    <2>1. /\ pc[h] = "get"
          /\ UNCHANGED <<audit, reservations, records, req, fence>>
      BY <1>4 DEF Get, tables
    <2>2. FencesDistinct' /\ EntryIsFenced'
      BY <1>0, <2>1 DEF Fencing, FencesDistinct, EntryIsFenced
    <2>3. CASE /\ record = None
               /\ Goto(h, IF IsUpdate(req[h]) THEN "load" ELSE "write")
               /\ UNCHANGED image
      <3>1. HoldsSlot'
        BY <2>1, <2>3 DEF Goto, Fencing, HoldsSlot, TypeOK
      <3>2. SlotIsFresh'
        BY <1>0, <2>1, <2>3 DEF Goto, Fencing, SlotIsFresh, TypeOK
      <3>3. AnswersAreDurable'
        BY <2>1, <2>3 DEF Goto, Fencing, AnswersAreDurable, TypeOK
      <3>4. QED
        BY <2>2, <3>1, <3>2, <3>3 DEF Fencing
    <2>4. CASE /\ record # None
               /\ record.fingerprint = Fingerprint(req[h])
               /\ image' = [image EXCEPT ![h] = record.value]
               /\ Goto(h, "release")
      <3>1. HoldsSlot'
        BY <2>1, <2>4 DEF Goto, Fencing, HoldsSlot, TypeOK
      <3>2. SlotIsFresh'
        BY <1>0, <2>1, <2>4 DEF Goto, Fencing, SlotIsFresh, TypeOK
      <3>3. AnswersAreDurable'
        BY <2>1, <2>4 DEF Goto, Fencing, AnswersAreDurable, TypeOK
      <3>4. QED
        BY <2>2, <3>1, <3>2, <3>3 DEF Fencing
    <2>5. QED
      BY <1>4, <2>3, <2>4 DEF Get
  <1>5. ASSUME NEW h \in Handlers, Load(h), ~ Leave(h)
        PROVE  Fencing'
    <2>1. /\ pc[h] = "load" /\ pc' = [pc EXCEPT ![h] = "write"]
          /\ UNCHANGED <<audit, reservations, records, req, fence>>
          /\ \A g \in Handlers \ {h} : image'[g] = image[g]
      BY <1>5 DEF Load, Goto, tables, TypeOK
    <2>2. FencesDistinct' /\ EntryIsFenced'
      BY <1>0, <2>1 DEF Fencing, FencesDistinct, EntryIsFenced
    <2>3. HoldsSlot'
      BY <2>1 DEF Fencing, HoldsSlot, TypeOK
    <2>4. SlotIsFresh'
      BY <1>0, <2>1 DEF Fencing, SlotIsFresh, TypeOK
    <2>5. AnswersAreDurable'
      BY <2>1 DEF Fencing, AnswersAreDurable, TypeOK
    <2>6. QED
      BY <2>2, <2>3, <2>4, <2>5 DEF Fencing
  <1>6. ASSUME NEW h \in Handlers, WriteCreate(h) \/ WriteUpdate(h)
        PROVE  Fencing'
    <2>1. CASE Persist(h, req[h])
      BY <1>6, <2>1, PersistFenced DEF WriteCreate, WriteUpdate
    <2>2. CASE Leave(h) /\ UNCHANGED tables
      BY <1>6, <2>2, LeaveFenced DEF WriteCreate, WriteUpdate, tables
    <2>3. QED
      BY <1>6, <2>1, <2>2 DEF WriteCreate, WriteUpdate
  <1>7. ASSUME NEW h \in Handlers, WriteAttach(h)
        PROVE  Fencing'
    <2>1. CASE Leave(h) /\ UNCHANGED tables
      BY <1>7, <2>1, LeaveFenced DEF WriteAttach, tables
    <2>2. CASE Goto(h, "put") /\ UNCHANGED <<audit, req, fence, image>>
      <3>1. /\ pc[h] = "write" /\ pc' = [pc EXCEPT ![h] = "put"]
            /\ UNCHANGED <<audit, reservations, records, req, fence, image>>
        BY <1>7, <2>2 DEF WriteAttach, Goto
      <3>2. FencesDistinct' /\ EntryIsFenced'
        BY <1>0, <3>1 DEF Fencing, FencesDistinct, EntryIsFenced
      <3>3. HoldsSlot'
        BY <3>1 DEF Fencing, HoldsSlot, TypeOK
      <3>4. SlotIsFresh'
        BY <1>0, <3>1 DEF Fencing, SlotIsFresh, TypeOK
      <3>5. AnswersAreDurable'
        BY <3>1 DEF Fencing, AnswersAreDurable, TypeOK
      <3>6. QED
        BY <3>2, <3>3, <3>4, <3>5 DEF Fencing
    <2>3. QED
      BY <1>7, <2>1, <2>2 DEF WriteAttach
  <1>8. ASSUME NEW h \in Handlers, Put(h)
        PROVE  Fencing'
    <2> DEFINE slot == Slot(req[h])
               mine == [fingerprint |-> Fingerprint(req[h]),
                        value |-> image[h]]
    <2>1. /\ pc[h] = "put" /\ req[h] \in Requests /\ slot \in Slots
          /\ records[slot] = None /\ mine \in Record /\ mine # None
      BY <1>8, SlotType, NoneAssumption
         DEF Put, HandlerOK, Fencing, SlotIsFresh, Record, TypeOK
    <2>2. /\ records' = [records EXCEPT ![slot] = mine]
          /\ pc' = [pc EXCEPT ![h] = "release"]
          /\ UNCHANGED <<audit, reservations, req, fence, image>>
      BY <1>8, <2>1 DEF Put, Goto, tables
    <2>3. \A g \in Handlers : g # h /\ pc[g] \in {"get", "load", "write", "put"}
                                => Slot(req[g]) # slot
      BY <2>1, SlotIsExclusive
    <2>4. \A g \in Handlers : pc[g] = "release" => Slot(req[g]) # slot
      BY <2>1 DEF Fencing, AnswersAreDurable
    <2> HIDE DEF mine
    <2>5. FencesDistinct'
      BY <2>2 DEF Fencing, FencesDistinct
    <2>6. EntryIsFenced'
      BY <1>0, <2>1, <2>2 DEF Fencing, EntryIsFenced, TypeOK
    <2>7. HoldsSlot'
      BY <2>1, <2>2, <2>3 DEF Fencing, HoldsSlot, TypeOK
    <2>8. SlotIsFresh'
      BY <1>0, <2>1, <2>2, <2>3 DEF Fencing, SlotIsFresh, TypeOK
    <2>9. AnswersAreDurable'
      <3>1. mine.fingerprint = Fingerprint(req[h]) /\ mine.value = image[h]
        BY DEF mine
      <3>2. QED
        BY <2>1, <2>2, <2>4, <3>1 DEF Fencing, AnswersAreDurable, TypeOK
    <2>10. QED
      BY <2>5, <2>6, <2>7, <2>8, <2>9 DEF Fencing
  <1>9. ASSUME NEW h \in Handlers, Release(h)
        PROVE  Fencing'
    <2> DEFINE slot == Slot(req[h])
    <2>1. /\ pc[h] = "release" /\ slot \in Slots /\ records[slot] # None
          /\ fence[h] # None
          /\ UNCHANGED <<audit, records>>
          /\ pc' = [pc EXCEPT ![h] = "idle"]
          /\ req' = [req EXCEPT ![h] = None]
          /\ fence' = [fence EXCEPT ![h] = None]
          /\ image' = [image EXCEPT ![h] = None]
      BY <1>9, SlotType DEF Release, HandlerOK, Fencing, AnswersAreDurable,
                            tables, Leave, Goto
    <2>2. \A s \in Slots : \/ reservations'[s] = reservations[s]
                           \/ /\ s = slot
                              /\ reservations[s] = fence[h]
                              /\ reservations'[s] = None
      BY <1>9, <2>1 DEF Release, TypeOK
    <2>3. FencesDistinct'
      BY <2>1 DEF Fencing, FencesDistinct, TypeOK
    <2>4. EntryIsFenced'
      BY <1>0, <2>1, <2>2 DEF Fencing, EntryIsFenced
    <2>5. HoldsSlot'
      <3>1. \A g \in Handlers : pc[g] # "idle" => Slot(req[g]) \in Slots
        BY SlotType DEF HandlerOK
      <3>2. QED
        BY <2>1, <2>2, <3>1
           DEF Fencing, HoldsSlot, FencesDistinct, TypeOK
    <2>6. SlotIsFresh'
      BY <1>0, <2>1 DEF Fencing, SlotIsFresh, TypeOK
    <2>7. AnswersAreDurable'
      BY <2>1 DEF Fencing, AnswersAreDurable, TypeOK
    <2>8. QED
      BY <2>3, <2>4, <2>5, <2>6, <2>7 DEF Fencing
  <1>10. ASSUME NEW slot \in Slots,
                ReconcileUncommitted(slot) \/ ReconcileCompleted(slot)
         PROVE  Fencing'
    <2>1. /\ reservations' = [reservations EXCEPT ![slot] = None]
          /\ UNCHANGED <<audit, records, pc, req, fence, image>>
      BY <1>10 DEF ReconcileUncommitted, ReconcileCompleted, tables,
                   handlerVars
    <2>2. FencesDistinct' /\ SlotIsFresh' /\ AnswersAreDurable'
      BY <1>0, <2>1
         DEF Fencing, FencesDistinct, SlotIsFresh, AnswersAreDurable
    <2>3. HasEntry(slot) => records[slot] # None
      BY <1>10 DEF ReconcileUncommitted, ReconcileCompleted, HasEntry,
                   Committed
    <2>4. EntryIsFenced'
      BY <1>0, <2>1, <2>3 DEF Fencing, EntryIsFenced, TypeOK
    <2>5. ASSUME NEW h \in Handlers, Slot(req[h]) = slot,
                 pc[h] \in {"get", "load", "write", "put"}
          PROVE  pc[h] = "get" /\ records[slot] # None
      BY <1>10, <2>5 DEF ReconcileUncommitted, ReconcileCompleted, Fencing,
                         HoldsSlot, SlotIsFresh
    <2>6. HoldsSlot'
      BY <2>1, <2>5 DEF Fencing, HoldsSlot, TypeOK
    <2>7. QED
      BY <2>2, <2>4, <2>6 DEF Fencing
  <1>11. CASE UNCHANGED vars
    BY <1>0, <1>11 DEF vars, Fencing, FencesDistinct, HoldsSlot, SlotIsFresh,
                       EntryIsFenced, AnswersAreDurable
  <1>12. ASSUME NEW h \in Handlers, Handle(h)
         PROVE  Fencing'
    BY <1>1, <1>2, <1>3, <1>4, <1>5, <1>6, <1>7, <1>8, <1>9, <1>12
       DEF Handle, Crash
  <1>13. QED
    BY <1>10, <1>11, <1>12 DEF Next, Reconcile

(* A write goes to a slot without an entry, so entries stay unique.        *)
LEMMA AtMostOnceStep ==
    TypeOK /\ HandlerOK /\ Fencing /\ AtMostOnce /\ [Next]_vars
      => AtMostOnce'
  <1> SUFFICES ASSUME TypeOK, HandlerOK, Fencing, AtMostOnce, [Next]_vars
               PROVE  AtMostOnce'
    OBVIOUS
  <1>1. ASSUME NEW h \in Handlers, pc[h] = "write", Persist(h, req[h])
        PROVE  AtMostOnce'
    <2>1. PICK e \in EventIds, n \in Nat \ {0} : Appends(h, e, n)
      BY <1>1, PersistAppends
    <2>2. /\ \A x \in EventIds \ {e} : audit'[x] = audit[x]
          /\ DOMAIN audit'[e] = DOMAIN audit[e] \cup {n}
          /\ \A i \in DOMAIN audit[e] : audit'[e][i] = audit[e][i]
          /\ audit'[e][n].by = req[h]
      BY <2>1 DEF Appends
    <2>3. \A x \in EventIds : \A i \in DOMAIN audit[x] :
            Slot(audit[x][i].by) # Slot(req[h])
      BY <1>1 DEF Fencing, SlotIsFresh, HasEntry
    <2>4. \A x \in EventIds : \A i \in DOMAIN audit'[x] :
            \/ x = e /\ i = n /\ Slot(audit'[x][i].by) = Slot(req[h])
            \/ /\ i \in DOMAIN audit[x]
               /\ Slot(audit'[x][i].by) = Slot(audit[x][i].by)
               /\ Slot(audit'[x][i].by) # Slot(req[h])
      BY <2>2, <2>3
    <2>5. QED
      BY <2>4 DEF AtMostOnce
  <1>2. CASE UNCHANGED audit
    BY <1>2 DEF AtMostOnce
  <1>3. ASSUME NEW h \in Handlers, Handle(h)
        PROVE  \/ UNCHANGED audit
               \/ pc[h] = "write" /\ Persist(h, req[h])
    BY <1>3 DEF Handle, Submit, RequireEvent, Reserve, Get, Load,
                WriteCreate, WriteUpdate, WriteAttach, Put, Release, Crash,
                tables
  <1>4. ASSUME Reconcile \/ UNCHANGED vars
        PROVE  UNCHANGED audit
    BY <1>4 DEF Reconcile, ReconcileUncommitted, ReconcileCompleted, tables,
                vars
  <1>5. QED
    BY <1>1, <1>2, <1>3, <1>4 DEF Next

(* The inductive invariant behind the idempotency theorems.                *)
IdempotencyInv == TypeOK /\ HandlerOK /\ Fencing /\ AtMostOnce

(* The inductive invariant holds in every state.                           *)
THEOREM IdempotencyInvariant == Spec => []IdempotencyInv
  <1>1. Init => IdempotencyInv
    <2> SUFFICES ASSUME Init PROVE IdempotencyInv
      OBVIOUS
    <2>1. TypeOK /\ HandlerOK
      BY SeedAssumption DEF Init, TypeOK, HandlerOK, Phases
    <2>2. \A e \in EventIds : DOMAIN audit[e] = {}
      BY DEF Init
    <2>3. \A s : ~ HasEntry(s)
      BY <2>2 DEF HasEntry
    <2>4. Fencing
      BY <2>3 DEF Init, Fencing, FencesDistinct, HoldsSlot, SlotIsFresh,
                  EntryIsFenced, AnswersAreDurable
    <2>5. AtMostOnce
      BY <2>2 DEF AtMostOnce
    <2>6. QED
      BY <2>1, <2>4, <2>5 DEF IdempotencyInv
  <1>2. IdempotencyInv /\ [Next]_vars => IdempotencyInv'
    BY TypeStep, FencingStep, AtMostOnceStep DEF IdempotencyInv
  <1>3. QED
    BY <1>1, <1>2, PTL DEF Spec

(* One idempotency slot is executed at most once, through any crash, lost  *)
(* acknowledgement and reconciliation.                                     *)
THEOREM ExecutedAtMostOnce == Spec => []AtMostOnce
  <1>1. IdempotencyInv => AtMostOnce
    BY DEF IdempotencyInv
  <1>2. QED
    BY <1>1, IdempotencyInvariant, PTL

(* A committed mutation without a replay record keeps its slot reserved.   *)
THEOREM AmbiguousStaysBlocked == Spec => []AmbiguousIsBlocked
  <1>1. IdempotencyInv => AmbiguousIsBlocked
    BY FencingBlocks DEF IdempotencyInv
  <1>2. QED
    BY <1>1, IdempotencyInvariant, PTL

(* Whoever is answered success is answered the durable record of its own   *)
(* request.                                                                *)
THEOREM SuccessIsDurable == Spec => []AnswersAreDurable
  <1>1. IdempotencyInv => AnswersAreDurable
    BY DEF IdempotencyInv, Fencing
  <1>2. QED
    BY <1>1, IdempotencyInvariant, PTL

(* The idempotency protocol as a whole: a key takes effect at most once,   *)
(* an ambiguous record answers nobody, and a success told is in the        *)
(* tables.                                                                 *)
THEOREM IdempotencyIsKept == Spec => []Idempotent
  <1>1. AtMostOnce /\ AmbiguousIsBlocked /\ AnswersAreDurable => Idempotent
    BY DEF Idempotent
  <1>2. QED
    BY <1>1, ExecutedAtMostOnce, AmbiguousStaysBlocked, SuccessIsDurable, PTL

-----------------------------------------------------------------------------
(* An image computed at load is the command applied to the current row     *)
(* unless the row has moved on to a later version.                         *)
ImageIsCurrent ==
    \A h \in Handlers : pc[h] = "write" /\ IsUpdate(req[h]) =>
      LET row == rows[req[h].event] IN
      /\ row # None
      /\ row.version >= req[h].expectedVersion
      /\ row.version = req[h].expectedVersion =>
           CanMutate(row, req[h]) /\ image[h] = Mutate(row, req[h])

(* What a write transaction does to the row it writes.                     *)
WritesRow(h, e) ==
    /\ e = req[h].event
    /\ image[h] \in Row
    /\ rows' = [rows EXCEPT ![e] = image[h]]
    /\ Derived(NewEntry(h))
    /\ rows[e] # None => /\ rows[e] \in Row
                         /\ IsUpdate(req[h])
                         /\ CanMutate(rows[e], req[h])
                         /\ image[h] = Mutate(rows[e], req[h])
                         /\ image[h].version = rows[e].version + 1

(* A committed RoadEvent write replaces the row by the command applied to  *)
(* the row as it is at that moment, not as it was read.                    *)
LEMMA PersistWrites ==
    ASSUME TypeOK, HandlerOK, ImageIsCurrent, NEW h \in Handlers,
           WriteCreate(h) \/ WriteUpdate(h), Persist(h, req[h])
    PROVE  \E e \in EventIds : WritesRow(h, e)
  <1> DEFINE r == req[h]
             e == r.event
  <1>1. pc[h] = "write" /\ r \in Requests /\ e \in EventIds
    BY RequestFields DEF WriteCreate, WriteUpdate, HandlerOK
  <1>2. rows' = [rows EXCEPT ![e] = image[h]]
    BY DEF Persist
  <1>3. /\ NewEntry(h).by = r /\ NewEntry(h).before = rows[e]
        /\ NewEntry(h).after = image[h]
    BY DEF NewEntry
  <1>4. pc' # pc /\ pc'[h] = "put"
    BY <1>1 DEF Persist, Goto, TypeOK
  <1>5. ~ Leave(h)
    BY <1>4 DEF Leave, Goto, TypeOK
  <1>6. CASE WriteCreate(h)
    <2>1. r.op = "create" /\ rows[e] = None
      BY <1>5, <1>6 DEF WriteCreate
    <2>2. image[h] = Created(r) /\ image[h] \in Row
      BY <1>1, <2>1, CreatedType DEF HandlerOK
    <2>3. Derived(NewEntry(h))
      BY <1>3, <2>1, <2>2 DEF Derived
    <2>4. WritesRow(h, e)
      BY <1>2, <2>1, <2>2, <2>3 DEF WritesRow
    <2>5. QED
      BY <1>1, <2>4
  <1>7. CASE WriteUpdate(h)
    <2>1. IsUpdate(r) /\ Updatable(rows[e], r, image[h])
      BY <1>5, <1>7 DEF WriteUpdate
    <2>2. rows[e] # None /\ rows[e].version = r.expectedVersion
      BY <2>1 DEF Updatable
    <2>3. CanMutate(rows[e], r) /\ image[h] = Mutate(rows[e], r)
      BY <1>1, <2>1, <2>2 DEF ImageIsCurrent
    <2>4. rows[e] \in Row
      BY <1>1, <2>2 DEF TypeOK
    <2>5. image[h] \in Row /\ image[h].version = rows[e].version + 1
      BY <1>1, <2>1, <2>3, <2>4, MutateType
    <2>6. Derived(NewEntry(h))
      BY <1>3, <2>1, <2>2, <2>3 DEF Derived, IsUpdate
    <2>7. WritesRow(h, e)
      BY <1>2, <2>1, <2>3, <2>4, <2>5, <2>6 DEF WritesRow
    <2>8. QED
      BY <1>1, <2>7
  <1>8. QED
    BY <1>6, <1>7

(* Only write transactions touch rows, audit and outbox.                   *)
LEMMA WritersOnly ==
    ASSUME [Next]_vars
    PROVE  \/ UNCHANGED <<rows, audit, outbox>>
           \/ \E h \in Handlers : /\ pc[h] = "write"
                                  /\ WriteCreate(h) \/ WriteUpdate(h)
                                  /\ Persist(h, req[h])
  <1>1. ASSUME NEW h \in Handlers, Handle(h)
        PROVE  \/ UNCHANGED <<rows, audit, outbox>>
               \/ /\ pc[h] = "write"
                  /\ WriteCreate(h) \/ WriteUpdate(h)
                  /\ Persist(h, req[h])
    <2>1. CASE WriteCreate(h)
      BY <2>1 DEF WriteCreate, tables
    <2>2. CASE WriteUpdate(h)
      BY <2>2 DEF WriteUpdate, tables
    <2>3. CASE WriteAttach(h)
      BY <2>3 DEF WriteAttach, tables
    <2>4. CASE ~ (WriteCreate(h) \/ WriteUpdate(h) \/ WriteAttach(h))
      BY <1>1, <2>4 DEF Handle, Submit, RequireEvent, Reserve, Get, Load,
                        Put, Release, Crash, tables
    <2>5. QED
      BY <2>1, <2>2, <2>3, <2>4
  <1>2. ASSUME Reconcile \/ UNCHANGED vars
        PROVE  UNCHANGED <<rows, audit, outbox>>
    BY <1>2 DEF Reconcile, ReconcileUncommitted, ReconcileCompleted, tables,
                vars
  <1>3. QED
    BY <1>1, <1>2 DEF Next

(* An image that is in flight stays current or becomes stale.              *)
LEMMA ImageStep ==
    TypeOK /\ HandlerOK /\ ImageIsCurrent /\ [Next]_vars => ImageIsCurrent'
  <1> SUFFICES ASSUME TypeOK, HandlerOK, ImageIsCurrent, [Next]_vars,
                      NEW g \in Handlers, pc'[g] = "write",
                      IsUpdate(req'[g])
               PROVE  LET row == rows'[req'[g].event] IN
                      /\ row # None
                      /\ row.version >= req'[g].expectedVersion
                      /\ row.version = req'[g].expectedVersion =>
                           /\ CanMutate(row, req'[g])
                           /\ image'[g] = Mutate(row, req'[g])
    BY DEF ImageIsCurrent
  <1>1. CASE \E h \in Handlers : /\ pc[h] = "write"
                                 /\ WriteCreate(h) \/ WriteUpdate(h)
                                 /\ Persist(h, req[h])
    <2>1. PICK h \in Handlers : /\ pc[h] = "write"
                                /\ WriteCreate(h) \/ WriteUpdate(h)
                                /\ Persist(h, req[h])
      BY <1>1
    <2>2. /\ pc' = [pc EXCEPT ![h] = "put"]
          /\ UNCHANGED <<req, image>>
      BY <2>1 DEF Persist, Goto
    <2>3. PICK e \in EventIds : WritesRow(h, e)
      BY <2>1, PersistWrites
    <2>4. g # h /\ pc[g] = "write" /\ req[g] \in Requests
          /\ req[g].event \in EventIds /\ req[g].expectedVersion \in Nat
      BY <2>2, RequestFields DEF HandlerOK, TypeOK
    <2>5. /\ rows[req[g].event] # None
          /\ rows[req[g].event].version >= req[g].expectedVersion
      BY <2>2, <2>4 DEF ImageIsCurrent
    <2>6. CASE req[g].event = e
      <3>1. /\ rows'[e] = image[h] /\ image[h] \in Row
            /\ rows[e] \in Row
            /\ image[h].version = rows[e].version + 1
        BY <2>3, <2>5, <2>6 DEF WritesRow, TypeOK
      <3>2. rows[e].version \in Nat /\ image[h] # None
        BY <3>1, NoneAssumption DEF Row
      <3>3. QED
        BY <2>2, <2>4, <2>5, <2>6, <3>1, <3>2
    <2>7. CASE req[g].event # e
      <3>1. rows'[req[g].event] = rows[req[g].event]
        BY <2>3, <2>4, <2>7 DEF WritesRow, TypeOK
      <3>2. QED
        BY <2>2, <2>4, <3>1 DEF ImageIsCurrent
    <2>8. QED
      BY <2>6, <2>7
  <1>2. CASE UNCHANGED rows
    <2>1. CASE pc[g] = "write" /\ req'[g] = req[g] /\ image'[g] = image[g]
      BY <1>2, <2>1 DEF ImageIsCurrent
    <2>2. CASE Load(g) /\ ~ Leave(g)
      <3>1. /\ Visible(rows[req[g].event], req[g].actor)
            /\ rows[req[g].event].version = req[g].expectedVersion
            /\ CanMutate(rows[req[g].event], req[g])
            /\ image'[g] = Mutate(rows[req[g].event], req[g])
            /\ req'[g] = req[g]
        BY <2>2 DEF Load, TypeOK
      <3>2. req[g].expectedVersion \in Nat
        BY <2>2, RequestFields DEF Load, HandlerOK
      <3>3. QED
        BY <1>2, <3>1, <3>2 DEF Visible
    <2>3. ASSUME NEW h \in Handlers, Handle(h)
          PROVE  \/ pc[g] = "write" /\ req'[g] = req[g] /\ image'[g] = image[g]
                 \/ h = g /\ Load(g) /\ ~ Leave(g)
      <3>1. Leave(h) => h # g /\ req'[g] = req[g] /\ image'[g] = image[g]
                        /\ pc'[g] = pc[g]
        BY DEF Leave, Goto, TypeOK
      <3>2. CASE Leave(h)
        BY <3>1, <3>2
      <3>3. CASE ~ Leave(h) /\ h # g
        BY <2>3, <3>3 DEF Handle, Submit, RequireEvent, Reserve, Get, Load,
               WriteCreate, WriteUpdate, WriteAttach, Persist, Put, Release,
               Crash, Goto, TypeOK
      <3>4. CASE ~ Leave(g) /\ h = g
        BY <2>3, <3>4 DEF Handle, Submit, RequireEvent, Reserve, Get,
               WriteCreate, WriteUpdate, WriteAttach, Persist, Put, Release,
               Crash, Goto, TypeOK
      <3>5. QED
        BY <3>2, <3>3, <3>4
    <2>4. CASE Reconcile \/ UNCHANGED vars
      <3>1. UNCHANGED <<pc, req, image>>
        BY <2>4 DEF Reconcile, ReconcileUncommitted, ReconcileCompleted,
                    handlerVars, vars
      <3>2. QED
        BY <2>1, <3>1
    <2>5. QED
      BY <2>1, <2>2, <2>3, <2>4 DEF Next
  <1>3. QED
    BY <1>1, <1>2, WritersOnly

(* NoLostUpdate for one event.                                             *)
LogIsFaithful(e) ==
    /\ rows[e] = IF Len(audit[e]) = 0 THEN Seed[e]
                 ELSE audit[e][Len(audit[e])].after
    /\ Len(outbox[e]) = Len(audit[e])
    /\ \A i \in 1..Len(audit[e]) :
         /\ outbox[e][i] = audit[e][i].after
         /\ audit[e][i].before = IF i = 1 THEN Seed[e]
                                 ELSE audit[e][i - 1].after
         /\ audit[e][i].by.event = e
         /\ Derived(audit[e][i])

(* NoLostUpdate, one log at a time.                                        *)
LEMMA LogsAreFaithful == NoLostUpdate <=> \A e \in EventIds : LogIsFaithful(e)
  BY DEF NoLostUpdate, LogIsFaithful

(* No step loses an update.                                                *)
LEMMA NoLostUpdateStep ==
    TypeOK /\ HandlerOK /\ ImageIsCurrent /\ NoLostUpdate /\ [Next]_vars
      => NoLostUpdate'
  <1> SUFFICES ASSUME TypeOK, HandlerOK, ImageIsCurrent, NoLostUpdate,
                      [Next]_vars
               PROVE  NoLostUpdate'
    OBVIOUS
  <1>1. CASE UNCHANGED <<rows, audit, outbox>>
    BY <1>1 DEF NoLostUpdate
  <1>2. ASSUME NEW h \in Handlers, pc[h] = "write",
               WriteCreate(h) \/ WriteUpdate(h), Persist(h, req[h]),
               NEW x \in EventIds
        PROVE  LogIsFaithful(x)'
    <2>1. PICK e \in EventIds, n \in Nat \ {0} : Appends(h, e, n)
      BY <1>2, PersistAppends
    <2>2. e = req[h].event /\ WritesRow(h, e)
      BY <1>2, <2>1, PersistWrites DEF Appends, WritesRow
    <2>3. outbox' = [outbox EXCEPT ![e] = Append(outbox[e], image[h])]
      BY <1>2, <2>2 DEF Persist
    <2>4. LogIsFaithful(x)
      BY LogsAreFaithful
    <2>5. CASE x # e
      <3>1. /\ audit'[x] = audit[x] /\ rows'[x] = rows[x]
            /\ outbox'[x] = outbox[x]
        BY <2>1, <2>2, <2>3, <2>5 DEF Appends, WritesRow, TypeOK
      <3>2. QED
        BY <2>4, <3>1 DEF LogIsFaithful
    <2>6. CASE x = e
      <3>1. /\ n = Len(audit[e]) + 1 /\ Len(audit'[e]) = n
            /\ DOMAIN audit[e] = 1..(n - 1)
            /\ \A i \in 1..(n - 1) : audit'[e][i] = audit[e][i]
            /\ audit'[e][n] = NewEntry(h)
        BY <2>1 DEF Appends
      <3>2. /\ NewEntry(h).by = req[h] /\ NewEntry(h).before = rows[e]
            /\ NewEntry(h).after = image[h]
        BY <2>2 DEF NewEntry
      <3>3. Len(audit[e]) \in Nat /\ outbox[e] \in Seq(Row)
            /\ Len(outbox[e]) = Len(audit[e])
        BY <2>4, <2>6 DEF TypeOK, LogIsFaithful
      <3>4. image[h] \in Row
        BY <2>2 DEF WritesRow
      <3>5. outbox'[e] = Append(outbox[e], image[h])
        BY <2>3 DEF TypeOK
      <3>6. /\ Len(outbox'[e]) = n /\ outbox'[e][n] = image[h]
            /\ \A i \in 1..(n - 1) : outbox'[e][i] = outbox[e][i]
        BY <3>1, <3>3, <3>4, <3>5
      <3>7. rows'[e] = image[h]
        BY <2>2 DEF WritesRow, TypeOK
      <3>8. Derived(NewEntry(h))
        BY <2>2 DEF WritesRow
      <3>9. \A i \in 1..(n - 1) :
              /\ outbox'[e][i] = audit'[e][i].after
              /\ audit'[e][i].before = IF i = 1 THEN Seed[e]
                                       ELSE audit'[e][i - 1].after
              /\ audit'[e][i].by.event = e
              /\ Derived(audit'[e][i])
        <4> SUFFICES ASSUME NEW i \in 1..(n - 1)
                     PROVE  /\ outbox'[e][i] = audit'[e][i].after
                            /\ audit'[e][i].before =
                                 IF i = 1 THEN Seed[e]
                                 ELSE audit'[e][i - 1].after
                            /\ audit'[e][i].by.event = e
                            /\ Derived(audit'[e][i])
          OBVIOUS
        <4>1. i \in 1..Len(audit[e]) /\ (i # 1 => i - 1 \in 1..(n - 1))
          BY <3>1, <3>3
        <4>2. /\ outbox[e][i] = audit[e][i].after
              /\ audit[e][i].before = IF i = 1 THEN Seed[e]
                                      ELSE audit[e][i - 1].after
              /\ audit[e][i].by.event = e
              /\ Derived(audit[e][i])
          BY <2>4, <2>6, <4>1 DEF LogIsFaithful
        <4>3. audit'[e][i] = audit[e][i] /\ outbox'[e][i] = outbox[e][i]
          BY <3>1, <3>6
        <4>4. i # 1 => audit'[e][i - 1] = audit[e][i - 1]
          BY <3>1, <4>1
        <4>5. QED
          BY <4>2, <4>3, <4>4
      <3>10. /\ outbox'[e][n] = audit'[e][n].after
             /\ audit'[e][n].by.event = e
             /\ Derived(audit'[e][n])
        BY <2>2, <3>1, <3>2, <3>6, <3>8
      <3>11. audit'[e][n].before = IF n = 1 THEN Seed[e]
                                   ELSE audit'[e][n - 1].after
        BY <2>4, <2>6, <3>1, <3>2, <3>3 DEF LogIsFaithful
      <3>12. rows'[e] = audit'[e][n].after
        BY <3>1, <3>2, <3>7
      <3>13. \A i \in 1..n : i \in 1..(n - 1) \/ i = n
        OBVIOUS
      <3>14. \A i \in 1..n :
              /\ outbox'[e][i] = audit'[e][i].after
              /\ audit'[e][i].before = IF i = 1 THEN Seed[e]
                                       ELSE audit'[e][i - 1].after
              /\ audit'[e][i].by.event = e
              /\ Derived(audit'[e][i])
        BY <3>9, <3>10, <3>11, <3>13
      <3>15. QED
        BY <2>6, <3>1, <3>6, <3>12, <3>14 DEF LogIsFaithful
    <2>7. QED
      BY <2>5, <2>6
  <1>3. ASSUME NEW h \in Handlers, pc[h] = "write",
               WriteCreate(h) \/ WriteUpdate(h), Persist(h, req[h])
        PROVE  NoLostUpdate'
    <2>1. \A x \in EventIds : LogIsFaithful(x)'
      BY <1>2, <1>3
    <2>2. QED
      BY <2>1 DEF NoLostUpdate, LogIsFaithful
  <1>4. QED
    BY <1>1, <1>3, WritersOnly

(* The inductive invariant behind the theorems on the event history.       *)
HistoryInv == TypeOK /\ HandlerOK /\ ImageIsCurrent /\ NoLostUpdate

(* The history invariant holds throughout: types, the handlers' local      *)
(* state, the currency of the images they hold, and the logs.              *)
THEOREM HistoryInvariant == Spec => []HistoryInv
  <1>1. Init => HistoryInv
    <2> SUFFICES ASSUME Init PROVE HistoryInv
      OBVIOUS
    <2>1. TypeOK /\ HandlerOK
      BY SeedAssumption DEF Init, TypeOK, HandlerOK, Phases
    <2>2. ImageIsCurrent
      BY DEF Init, ImageIsCurrent
    <2>3. \A e \in EventIds : /\ Len(audit[e]) = 0 /\ Len(outbox[e]) = 0
                              /\ rows[e] = Seed[e]
      BY DEF Init
    <2>4. NoLostUpdate
      BY <2>3 DEF NoLostUpdate
    <2>5. QED
      BY <2>1, <2>2, <2>4 DEF HistoryInv
  <1>2. HistoryInv /\ [Next]_vars => HistoryInv'
    BY TypeStep, ImageStep, NoLostUpdateStep DEF HistoryInv
  <1>3. QED
    BY <1>1, <1>2, PTL DEF Spec

(* Optimistic concurrency loses no update: row, audit log and outbox tell  *)
(* one history in which every step is a legal domain step.                 *)
THEOREM UpdatesAreNeverLost == Spec => []NoLostUpdate
  <1>1. HistoryInv => NoLostUpdate
    BY DEF HistoryInv
  <1>2. QED
    BY <1>1, HistoryInvariant, PTL

(* A domain step out of a terminal status keeps the status.                *)
LEMMA TerminalMutate ==
    ASSUME NEW row \in Row, NEW r \in Requests, IsUpdate(r),
           CanMutate(row, r), row.status \in Terminal
    PROVE  Mutate(row, r).status = row.status
  <1>1. allowedTransitions[row.status] = {}
    BY DEF allowedTransitions, Terminal, Statuses
  <1>2. r.op = "reassess_severity"
    BY <1>1 DEF CanMutate, CanTransitionTo, CanAuthorizeClosure, IsUpdate
  <1>3. Mutate(row, r) = assessSeverity(row, r.arg, r.review)
    BY <1>2 DEF Mutate
  <1>4. QED
    BY <1>3, Zenon DEF assessSeverity, Row

(* CLOSED, FALSE_POSITIVE and DUPLICATE are final, and no row vanishes.    *)
THEOREM TerminalStatusesAreFinal == Spec => TerminalIsFinal
  <1>1. ASSUME HistoryInv, [Next]_vars, NEW x \in EventIds, rows[x] # None
        PROVE  /\ rows'[x] # None
               /\ rows[x].status \in Terminal
                    => rows'[x].status = rows[x].status
    <2>1. CASE UNCHANGED <<rows, audit, outbox>>
      BY <1>1, <2>1
    <2>2. ASSUME NEW h \in Handlers, pc[h] = "write",
                 WriteCreate(h) \/ WriteUpdate(h), Persist(h, req[h])
          PROVE  /\ rows'[x] # None
                 /\ rows[x].status \in Terminal
                      => rows'[x].status = rows[x].status
      <3>1. PICK e \in EventIds : WritesRow(h, e)
        BY <1>1, <2>2, PersistWrites DEF HistoryInv
      <3>2. CASE x # e
        BY <1>1, <3>1, <3>2 DEF WritesRow, HistoryInv, TypeOK
      <3>3. CASE x = e
        <4>1. /\ rows'[x] = image[h] /\ image[h] \in Row
              /\ rows[x] \in Row /\ IsUpdate(req[h])
              /\ CanMutate(rows[x], req[h])
              /\ image[h] = Mutate(rows[x], req[h])
          BY <1>1, <3>1, <3>3 DEF WritesRow, HistoryInv, TypeOK
        <4>2. req[h] \in Requests
          BY <1>1, <2>2 DEF HistoryInv, HandlerOK
        <4>3. QED
          BY <4>1, <4>2, TerminalMutate, NoneAssumption
      <3>4. QED
        BY <3>2, <3>3
    <2>3. QED
      BY <1>1, <2>1, <2>2, WritersOnly
  <1>2. HistoryInv /\ [Next]_vars =>
          [\A e \in EventIds : rows[e] # None =>
             /\ rows'[e] # None
             /\ rows[e].status \in Terminal
                  => rows'[e].status = rows[e].status]_vars
    BY <1>1
  <1>3. QED
    BY <1>2, HistoryInvariant, PTL DEF Spec, TerminalIsFinal

-----------------------------------------------------------------------------
(* An authorization on a row is backed by its audit log.                   *)
AuthorizationIsBacked ==
    \A e \in EventIds :
      rows[e] # None /\ rows[e].authorizedBy # None =>
        \E j \in 1..Len(audit[e]) :
          AuthorizedSince(audit[e], j, Len(audit[e]), rows[e].authorizedBy)

(* Only supervisors may authorize a closure.                               *)
LEMMA SupervisorAuthorizes ==
    ASSUME NEW r \in Requests, AssertAllowed(r), r.op = "authorize_closure"
    PROVE  "SUPERVISOR" \in RolesOf[r.actor]
  <1>1. r.actor \in Actors
    BY RequestFields
  <1>2. RolesOf[r.actor] \subseteq Roles
    BY <1>1, ActorsAssumption
  <1>3. Permission(r) = "authorize_closure"
    BY DEF Permission
  <1>4. PICK role \in Roles : /\ role \in RolesOf[r.actor]
                             /\ "authorize_closure" \in ROLE_PERMISSIONS[role]
    BY <1>2, <1>3 DEF AssertAllowed
  <1>5. role = "SUPERVISOR"
    BY <1>4 DEF ROLE_PERMISSIONS, Roles
  <1>6. QED
    BY <1>4, <1>5

(* The columns each domain method writes.                                  *)
LEMMA MutateColumns ==
    ASSUME NEW row \in Row, NEW r \in Requests
    PROVE  /\ r.op = "reassess_severity" => Mutate(row, r).authorizedBy = None
           /\ r.op = "authorize_closure" =>
                Mutate(row, r).authorizedBy = r.actor
           /\ r.op = "transition" =>
                /\ Mutate(row, r).authorizedBy = row.authorizedBy
                /\ Mutate(row, r).severity = row.severity
                /\ Mutate(row, r).status = r.arg
  <1>1. ASSUME r.op = "reassess_severity"
        PROVE  Mutate(row, r).authorizedBy = None
    <2>1. Mutate(row, r) = assessSeverity(row, r.arg, r.review)
      BY <1>1 DEF Mutate
    <2>2. QED
      BY <2>1, Zenon DEF assessSeverity, Row
  <1>2. ASSUME r.op = "authorize_closure"
        PROVE  Mutate(row, r).authorizedBy = r.actor
    <2>1. Mutate(row, r) = authorizeClosure(row, r.actor)
      BY <1>2 DEF Mutate
    <2>2. QED
      BY <2>1, Zenon DEF authorizeClosure, Row
  <1>3. ASSUME r.op = "transition"
        PROVE  /\ Mutate(row, r).authorizedBy = row.authorizedBy
               /\ Mutate(row, r).severity = row.severity
               /\ Mutate(row, r).status = r.arg
    <2>1. Mutate(row, r) = transitionTo(row, r.arg)
      BY <1>3 DEF Mutate
    <2>2. QED
      BY <2>1, Zenon DEF transitionTo, Row
  <1>4. QED
    BY <1>1, <1>2, <1>3

(* Both closure facts survive every step: only a committed write extends  *)
(* a log, and it appends one entry computed from the row it replaces.      *)
LEMMA ClosureStep ==
    HistoryInv /\ AuthorizationIsBacked /\ ClosureIsAuthorized /\ [Next]_vars
      => AuthorizationIsBacked' /\ ClosureIsAuthorized'
  <1> SUFFICES ASSUME HistoryInv, AuthorizationIsBacked, ClosureIsAuthorized,
                      [Next]_vars
               PROVE  AuthorizationIsBacked' /\ ClosureIsAuthorized'
    OBVIOUS
  <1>1. CASE UNCHANGED <<rows, audit, outbox>>
    BY <1>1 DEF AuthorizationIsBacked, ClosureIsAuthorized, AuthorizedSince
  <1>2. ASSUME NEW h \in Handlers, pc[h] = "write",
               WriteCreate(h) \/ WriteUpdate(h), Persist(h, req[h])
        PROVE  AuthorizationIsBacked' /\ ClosureIsAuthorized'
    <2>0. TypeOK /\ HandlerOK /\ ImageIsCurrent /\ NoLostUpdate
      BY DEF HistoryInv
    <2>1. PICK e \in EventIds, n \in Nat \ {0} : Appends(h, e, n)
      BY <1>2, <2>0, PersistAppends
    <2>2. /\ e = req[h].event /\ n = Len(audit[e]) + 1
          /\ Len(audit[e]) = n - 1 /\ Len(audit'[e]) = n
          /\ DOMAIN audit[e] = 1..(n - 1)
          /\ DOMAIN audit'[e] = 1..n
          /\ \A i \in 1..(n - 1) : audit'[e][i] = audit[e][i]
          /\ audit'[e][n] = NewEntry(h) /\ audit'[e][n].by = req[h]
          /\ \A x \in EventIds \ {e} : audit'[x] = audit[x]
      <3>1. Len(audit[e]) \in Nat
        BY <2>0 DEF TypeOK
      <3>2. 1..(n - 1) \cup {n} = 1..n
        OBVIOUS
      <3>3. QED
        BY <2>1, <3>1, <3>2 DEF Appends
    <2>3. WritesRow(h, e)
      BY <1>2, <2>0, <2>2, PersistWrites DEF WritesRow
    <2>4. /\ rows'[e] = image[h] /\ audit'[e][n].after = image[h]
          /\ \A x \in EventIds \ {e} : rows'[x] = rows[x]
      BY <2>0, <2>2, <2>3 DEF WritesRow, TypeOK, NewEntry
    <2>5. req[h] \in Requests /\ AssertAllowed(req[h])
          /\ req[h].actor \in Actors /\ req[h].actor # None
      BY <1>2, <2>0, RequestFields, NoneAssumption DEF HandlerOK
    <2>6. ASSUME SevereClosing(audit'[e][n]) =>
                   \E j \in 1..(n - 1) :
                     AuthorizedSince(audit'[e], j, n,
                                     audit'[e][n].after.authorizedBy)
          PROVE  ClosureIsAuthorized'
      <3> SUFFICES ASSUME NEW x \in EventIds, NEW i \in DOMAIN audit'[x],
                          SevereClosing(audit'[x][i])
                   PROVE  \E j \in 1..(i - 1) :
                            AuthorizedSince(audit'[x], j, i,
                                            audit'[x][i].after.authorizedBy)
        BY DEF ClosureIsAuthorized, SevereClosing, AuthorizedSince
      <3>1. CASE x # e \/ i # n
        <4>1. i \in DOMAIN audit[x] /\ audit'[x][i] = audit[x][i]
          <5>1. CASE x # e
            <6>1. audit'[x] = audit[x]
              BY <2>2, <5>1
            <6>2. QED
              BY <6>1
          <5>2. CASE x = e
            <6>1. i \in 1..n /\ i # n
              BY <2>2, <3>1, <5>2
            <6>2. i \in 1..(n - 1)
              BY <6>1
            <6>3. QED
              BY <2>2, <5>2, <6>2
          <5>3. QED
            BY <5>1, <5>2
        <4>2. PICK j \in 1..(i - 1) :
                AuthorizedSince(audit[x], j, i,
                                audit[x][i].after.authorizedBy)
          BY <4>1 DEF ClosureIsAuthorized
        <4>3. DOMAIN audit[x] = 1..Len(audit[x]) /\ Len(audit[x]) \in Nat
          BY <2>0 DEF TypeOK
        <4>4. \A k \in j..i : k \in DOMAIN audit[x]
          BY <4>1, <4>3
        <4>5. \A k \in DOMAIN audit[x] : audit'[x][k] = audit[x][k]
          BY <2>2
        <4>6. j \in DOMAIN audit[x]
          BY <4>1, <4>3
        <4>7. AuthorizedSince(audit'[x], j, i,
                              audit'[x][i].after.authorizedBy)
          BY <4>1, <4>2, <4>4, <4>5, <4>6 DEF AuthorizedSince
        <4>8. QED
          BY <4>7
      <3>2. CASE x = e /\ i = n
        BY <2>6, <3>2
      <3>3. QED
        BY <3>1, <3>2
    <2>7. CASE rows[e] = None
      <3>1. req[h].op = "create" /\ image[h].authorizedBy = None
        <4>1. Derived(NewEntry(h)) /\ NewEntry(h).before = None
              /\ NewEntry(h).after = image[h] /\ NewEntry(h).by = req[h]
          BY <2>2, <2>3, <2>7 DEF WritesRow, NewEntry
        <4>2. req[h].op = "create" /\ image[h] = Created(req[h])
          BY <4>1 DEF Derived
        <4>3. QED
          BY <4>2 DEF Created, NewRoadEvent
      <3>2. AuthorizationIsBacked'
        <4> SUFFICES ASSUME NEW x \in EventIds, rows'[x] # None,
                            rows'[x].authorizedBy # None
                     PROVE  \E j \in 1..Len(audit'[x]) :
                              AuthorizedSince(audit'[x], j, Len(audit'[x]),
                                              rows'[x].authorizedBy)
          BY DEF AuthorizationIsBacked, AuthorizedSince
        <4>1. x # e
          BY <2>4, <3>1
        <4>2. rows'[x] = rows[x] /\ audit'[x] = audit[x]
          BY <2>2, <2>4, <4>1
        <4>3. QED
          BY <4>2 DEF AuthorizationIsBacked
      <3>3. ClosureIsAuthorized'
        BY <2>6, <2>2, <3>1 DEF SevereClosing
      <3>4. QED
        BY <3>2, <3>3
    <2>8. CASE rows[e] # None
      <3>1. /\ rows[e] \in Row /\ IsUpdate(req[h])
            /\ CanMutate(rows[e], req[h])
            /\ image[h] = Mutate(rows[e], req[h])
        BY <2>3, <2>8 DEF WritesRow
      <3>2. ASSUME req[h].op = "transition", rows[e].authorizedBy # None
            PROVE  \E j \in 1..(n - 1) :
                     AuthorizedSince(audit'[e], j, n, rows[e].authorizedBy)
        <4>1. PICK j \in 1..(n - 1) :
                AuthorizedSince(audit[e], j, n - 1, rows[e].authorizedBy)
          BY <2>2, <2>8, <3>2 DEF AuthorizationIsBacked
        <4>2. \A k \in j..n : k \in j..(n - 1) \/ k = n
          OBVIOUS
        <4>3. \A k \in j..(n - 1) : k \in 1..(n - 1)
          OBVIOUS
        <4>4. AuthorizedSince(audit'[e], j, n, rows[e].authorizedBy)
          BY <2>2, <3>2, <4>1, <4>2, <4>3 DEF AuthorizedSince
        <4>5. QED
          BY <4>4
      <3>3. AuthorizationIsBacked'
        <4>1. ASSUME image[h].authorizedBy # None
              PROVE  \E j \in 1..n : AuthorizedSince(audit'[e], j, n,
                                                      image[h].authorizedBy)
          <5>1. CASE req[h].op = "authorize_closure"
            <6>1. "SUPERVISOR" \in RolesOf[req[h].actor]
              BY <2>5, <5>1, SupervisorAuthorizes
            <6>2. image[h].authorizedBy = req[h].actor
              BY <2>5, <3>1, <5>1, MutateColumns
            <6>3. AuthorizedSince(audit'[e], n, n, image[h].authorizedBy)
              <7>1. audit'[e][n].by = req[h] /\ \A k \in n .. n : k = n
                BY <2>2
              <7> QED BY <5>1, <6>1, <6>2, <7>1 DEF AuthorizedSince
            <6>4. QED
              BY <6>3
          <5>2. CASE req[h].op = "transition"
            BY <2>5, <3>1, <3>2, <4>1, <5>2, MutateColumns
          <5>3. CASE req[h].op = "reassess_severity"
            BY <2>5, <3>1, <4>1, <5>3, MutateColumns
          <5>4. QED
            BY <3>1, <5>1, <5>2, <5>3 DEF IsUpdate
        <4> SUFFICES ASSUME NEW x \in EventIds, rows'[x] # None,
                            rows'[x].authorizedBy # None
                     PROVE  \E j \in 1..Len(audit'[x]) :
                              AuthorizedSince(audit'[x], j, Len(audit'[x]),
                                              rows'[x].authorizedBy)
          BY DEF AuthorizationIsBacked, AuthorizedSince
        <4>2. CASE x # e
          <5>1. rows'[x] = rows[x] /\ audit'[x] = audit[x]
            BY <2>2, <2>4, <4>2
          <5>2. QED
            BY <5>1 DEF AuthorizationIsBacked
        <4>3. CASE x = e
          BY <2>2, <2>4, <4>1, <4>3
        <4>4. QED
          BY <4>2, <4>3
      <3>4. ASSUME SevereClosing(audit'[e][n])
            PROVE  \E j \in 1..(n - 1) :
                     AuthorizedSince(audit'[e], j, n,
                                     audit'[e][n].after.authorizedBy)
        <4>1. /\ req[h].op = "transition" /\ image[h].status = "CLOSED"
              /\ isHighSeverity(image[h].severity)
          BY <2>2, <2>4, <3>4 DEF SevereClosing
        <4>2. /\ image[h].authorizedBy = rows[e].authorizedBy
              /\ image[h].severity = rows[e].severity
              /\ req[h].arg = "CLOSED"
          BY <2>5, <3>1, <4>1, MutateColumns
        <4>3. rows[e].authorizedBy # None
          BY <3>1, <4>1, <4>2 DEF CanMutate, CanTransitionTo
        <4>4. QED
          BY <2>4, <3>2, <4>1, <4>2, <4>3
      <3>5. QED
        BY <2>6, <3>3, <3>4
    <2>9. QED
      BY <2>7, <2>8
  <1>3. QED
    BY <1>1, <1>2, WritersOnly

(* A closed S3/S4 event was authorized by a supervisor after its last      *)
(* severity assessment.                                                    *)
THEOREM HighSeverityClosure == Spec => []ClosureIsAuthorized
  <1>1. Init => AuthorizationIsBacked /\ ClosureIsAuthorized
    <2> SUFFICES ASSUME Init
                 PROVE  AuthorizationIsBacked /\ ClosureIsAuthorized
      OBVIOUS
    <2>1. \A e \in EventIds : DOMAIN audit[e] = {} /\ rows[e] = Seed[e]
      BY DEF Init
    <2>2. AuthorizationIsBacked
      BY <2>1, SeedAssumption DEF AuthorizationIsBacked
    <2>3. ClosureIsAuthorized
      BY <2>1 DEF ClosureIsAuthorized
    <2>4. QED
      BY <2>2, <2>3
  <1>2. QED
    BY <1>1, ClosureStep, HistoryInvariant, PTL DEF Spec

-----------------------------------------------------------------------------
(* A handler that is busy after a step stayed where it was, began a        *)
(* request, or took one step of the request it serves.                     *)
Advances(h) ==
    \/ /\ pc[h] = "requireEvent" /\ pc'[h] = "reserve"
       /\ image'[h] = image[h] /\ Visible(rows[req[h].event], req[h].actor)
    \/ /\ pc[h] = "reserve" /\ pc'[h] = "get" /\ image'[h] = image[h]
    \/ /\ pc[h] = "get" /\ image'[h] = image[h]
       /\ pc'[h] = IF IsUpdate(req[h]) THEN "load" ELSE "write"
    \/ /\ pc[h] \in {"get", "put"} /\ pc'[h] = "release"
    \/ /\ pc[h] = "load" /\ pc'[h] = "write"
       /\ Visible(rows[req[h].event], req[h].actor)
       /\ CanMutate(rows[req[h].event], req[h])
       /\ image'[h] = Mutate(rows[req[h].event], req[h])
    \/ /\ pc[h] = "write" /\ pc'[h] = "put" /\ image'[h] = image[h]
       /\ WriteCreate(h) \/ WriteUpdate(h) \/ WriteAttach(h)

(* Nothing else can become of a handler that is still busy.                *)
LEMMA HandlerMoves ==
    ASSUME TypeOK, HandlerOK, [Next]_vars, NEW g \in Handlers, pc'[g] # "idle"
    PROVE  \/ pc'[g] = pc[g] /\ req'[g] = req[g] /\ image'[g] = image[g]
           \/ \E r \in Requests : Submit(g, r)
           \/ req'[g] = req[g] /\ Advances(g)
  <1>1. ASSUME NEW h \in Handlers, Leave(h)
        PROVE  pc'[g] = pc[g] /\ req'[g] = req[g] /\ image'[g] = image[g]
    BY <1>1 DEF Leave, Goto, TypeOK
  <1>2. ASSUME NEW h \in Handlers, ~ Leave(h), Handle(h), h # g
        PROVE  pc'[g] = pc[g] /\ req'[g] = req[g] /\ image'[g] = image[g]
    BY <1>2 DEF Handle, Submit, RequireEvent, Reserve, Get, Load,
           WriteCreate, WriteUpdate, WriteAttach, Persist, Put, Release,
           Crash, Goto, TypeOK
  <1>3. ASSUME ~ Leave(g), Handle(g)
        PROVE  \/ \E r \in Requests : Submit(g, r)
               \/ req'[g] = req[g] /\ Advances(g)
    <2>1. CASE RequireEvent(g)
      BY <1>3, <2>1 DEF RequireEvent, Goto, TypeOK, Advances
    <2>2. CASE Reserve(g)
      BY <1>3, <2>2 DEF Reserve, Goto, TypeOK, Advances
    <2>3. CASE Get(g)
      <3>1. CASE Goto(g, IF IsUpdate(req[g]) THEN "load" ELSE "write") /\ UNCHANGED <<req, fence, image>>
        BY <1>3, <2>3, <3>1 DEF Get, Goto, TypeOK, Advances
      <3>2. CASE Goto(g, "release") /\ UNCHANGED <<req, fence>>
        BY <1>3, <2>3, <3>2 DEF Get, Goto, TypeOK, Advances
      <3> QED BY <1>3, <2>3, <3>1, <3>2 DEF Get
    <2>4. CASE Load(g)
      BY <1>3, <2>4 DEF Load, Goto, TypeOK, Advances
    <2>5. CASE WriteCreate(g) \/ WriteUpdate(g) \/ WriteAttach(g)
      BY <1>3, <2>5 DEF WriteCreate, WriteUpdate, WriteAttach, Persist, Goto, TypeOK, Advances
    <2>6. CASE Put(g)
      <3>1. pc[g] = "put" /\ Goto(g, "release") /\ UNCHANGED req
        BY <1>3, <2>6 DEF Put
      <3> QED BY <3>1 DEF Goto, TypeOK, Advances
    <2>7. CASE Release(g) \/ Crash(g)
      BY <1>3, <2>7 DEF Release, Crash
    <2> QED BY <1>3, <2>1, <2>2, <2>3, <2>4, <2>5, <2>6, <2>7 DEF Handle
  <1>4. CASE Reconcile \/ UNCHANGED vars
    BY <1>4 DEF Reconcile, ReconcileUncommitted, ReconcileCompleted, handlerVars, vars
  <1> QED BY <1>1, <1>2, <1>3, <1>4 DEF Next

(* Tenant and reporter of a row never change, logs and attachments only    *)
(* grow, and what a write transaction logs is in the tenant of its actor.  *)
LEMMA TablesGrow ==
    ASSUME HistoryInv, [Next]_vars, NEW e \in EventIds
    PROVE  /\ rows[e] # None => /\ rows'[e] # None
                                /\ rows'[e].tenant = rows[e].tenant
                                /\ rows'[e].reporter = rows[e].reporter
           /\ \A i \in DOMAIN audit[e] :
                 i \in DOMAIN audit'[e] /\ audit'[e][i] = audit[e][i]
           /\ \A i \in DOMAIN audit'[e] :
                 \/ i \in DOMAIN audit[e] /\ audit'[e][i] = audit[e][i]
                 \/ audit'[e][i].after.tenant = TenantOf[audit'[e][i].by.actor]
           /\ attached[e] \subseteq attached'[e]
  <1> USE DEF HistoryInv
  <1>1. CASE UNCHANGED <<rows, audit, outbox>>
    <2>1. attached[e] \subseteq attached'[e]
      <3>1. ASSUME NEW h \in Handlers, WriteAttach(h) PROVE attached[e] \subseteq attached'[e]
        <4>1. attached' = attached \/ AttachOnce(req[h])
          BY <3>1 DEF WriteAttach, tables
        <4> QED BY <4>1 DEF AttachOnce, TypeOK
      <3>2. ASSUME NEW h \in Handlers, Handle(h), ~ WriteAttach(h) PROVE attached' = attached
        BY <3>2 DEF Handle, Submit, RequireEvent, Reserve, Get, Load,
           WriteCreate, WriteUpdate, Persist, Put, Release, Crash, tables
      <3>3. CASE Reconcile \/ UNCHANGED vars
        BY <3>3 DEF Reconcile, ReconcileUncommitted, ReconcileCompleted, tables, vars
      <3> QED BY <3>1, <3>2, <3>3 DEF Next
    <2> QED BY <1>1, <2>1
  <1>2. ASSUME NEW h \in Handlers, pc[h] = "write",
               WriteCreate(h) \/ WriteUpdate(h), Persist(h, req[h])
        PROVE  /\ rows[e] # None => /\ rows'[e] # None
                                    /\ rows'[e].tenant = rows[e].tenant
                                    /\ rows'[e].reporter = rows[e].reporter
               /\ \A i \in DOMAIN audit[e] :
                     i \in DOMAIN audit'[e] /\ audit'[e][i] = audit[e][i]
               /\ \A i \in DOMAIN audit'[e] :
                     \/ i \in DOMAIN audit[e] /\ audit'[e][i] = audit[e][i]
                     \/ audit'[e][i].after.tenant = TenantOf[audit'[e][i].by.actor]
               /\ attached[e] \subseteq attached'[e]
    <2>1. attached' = attached /\ req[h] \in Requests
      BY <1>2 DEF Persist, HandlerOK
    <2>2. PICK x \in EventIds, n \in Nat \ {0} : Appends(h, x, n)
      BY <1>2, PersistAppends
    <2>3. WritesRow(h, x)
      BY <1>2, <2>2, PersistWrites DEF Appends, WritesRow
    <2>4. rows[x] # None => /\ image[h].tenant = rows[x].tenant
                            /\ image[h].reporter = rows[x].reporter
      BY <2>1, <2>3, MutateType DEF WritesRow
    <2>5. rows[e] # None => /\ rows'[e] # None
                            /\ rows'[e].tenant = rows[e].tenant
                            /\ rows'[e].reporter = rows[e].reporter
      BY <2>3, <2>4, NoneAssumption DEF WritesRow, TypeOK
    <2>6. image[h].tenant = TenantOf[req[h].actor]
      <3>1. CASE rows[x] = None
        <4>1. image[h] = Created(req[h])
          BY <2>2, <2>3, <3>1 DEF WritesRow, Derived, NewEntry, Appends
        <4> QED BY <4>1 DEF Created, NewRoadEvent
      <3>2. CASE rows[x] # None
        <4>1. ~ WriteCreate(h)
          BY <2>3, <3>2 DEF WritesRow, WriteCreate, IsUpdate
        <4>2. pc'[h] = "put"
          BY <1>2 DEF Persist, Goto, TypeOK
        <4>3. ~ Leave(h)
          BY <4>2 DEF Leave, Goto, TypeOK
        <4>4. Updatable(rows[x], req[h], image[h])
          BY <1>2, <2>3, <4>1, <4>3 DEF WriteUpdate, WritesRow
        <4> QED BY <2>4, <3>2, <4>4 DEF Updatable
      <3> QED BY <3>1, <3>2
    <2>7. /\ \A y \in EventIds \ {x} : audit'[y] = audit[y]
          /\ DOMAIN audit'[x] = DOMAIN audit[x] \cup {n}
          /\ \A i \in DOMAIN audit[x] : audit'[x][i] = audit[x][i]
          /\ audit'[x][n].by = req[h] /\ audit'[x][n].after = image[h]
      BY <2>2 DEF Appends, NewEntry
    <2> QED BY <2>1, <2>5, <2>6, <2>7
  <1> QED BY <1>1, <1>2, WritersOnly

(* Attachments are inserted by WriteAttach only, while no row changes.     *)
LEMMA AttachersOnly ==
    ASSUME TypeOK, [Next]_vars
    PROVE  \/ UNCHANGED attached
           \/ \E h \in Handlers : /\ pc[h] = "write" /\ req[h].op = "attach_signal"
                                  /\ AttachOnce(req[h]) /\ UNCHANGED rows
  <1>1. ASSUME NEW h \in Handlers, WriteAttach(h)
        PROVE  \/ UNCHANGED attached
               \/ /\ pc[h] = "write" /\ req[h].op = "attach_signal"
                  /\ AttachOnce(req[h]) /\ UNCHANGED rows
    BY <1>1 DEF WriteAttach, tables
  <1>2. ASSUME NEW h \in Handlers, Handle(h), ~ WriteAttach(h)
        PROVE  UNCHANGED attached
    BY <1>2 DEF Handle, Submit, RequireEvent, Reserve, Get, Load,
                WriteCreate, WriteUpdate, Persist, Put, Release, Crash, tables
  <1>3. CASE Reconcile \/ UNCHANGED vars
    BY <1>3 DEF Reconcile, ReconcileUncommitted, ReconcileCompleted, tables,
                vars
  <1>4. QED
    BY <1>1, <1>2, <1>3 DEF Next

(* An attachment's requireEvent still holds when its insert runs: the      *)
(* columns it looked at never change.                                      *)
AttacherSees ==
    \A h \in Handlers :
      pc[h] \in {"reserve", "get", "write"} /\ req[h].op = "attach_signal"
        => Visible(rows[req[h].event], req[h].actor)

(* Every step keeps attachments and logged writes in scope.                *)
LEMMA ScopeStep ==
    HistoryInv /\ AttacherSees /\ AttachedInScope /\ [Next]_vars
      => AttacherSees' /\ AttachedInScope'
  <1> SUFFICES ASSUME HistoryInv, AttacherSees, AttachedInScope, [Next]_vars
               PROVE  AttacherSees' /\ AttachedInScope'
    OBVIOUS
  <1>1. TypeOK /\ HandlerOK
    BY DEF HistoryInv
  <1>2. AttacherSees'
    <2> SUFFICES ASSUME NEW g \in Handlers, pc'[g] \in {"reserve", "get", "write"},
                        req'[g].op = "attach_signal"
                 PROVE  Visible(rows'[req'[g].event], req'[g].actor)
      BY DEF AttacherSees, Visible
    <2>1. ~ IsUpdate(req'[g])
      BY DEF IsUpdate
    <2>2. ASSUME NEW r \in Requests, Submit(g, r)
          PROVE  FALSE
      BY <1>1, <2>2 DEF Submit, Goto, TypeOK
    <2>3. /\ req'[g] = req[g] /\ pc[g] # "idle"
          /\ Visible(rows[req[g].event], req[g].actor)
      <3>1. CASE pc'[g] = pc[g] /\ req'[g] = req[g] /\ image'[g] = image[g]
        BY <3>1 DEF AttacherSees
      <3>2. CASE req'[g] = req[g] /\ Advances(g)
        BY <2>1, <3>2 DEF AttacherSees, Advances
      <3>3. QED
        BY <1>1, <2>2, <3>1, <3>2, HandlerMoves
    <2>4. req[g].event \in EventIds
      BY <1>1, <2>3, RequestFields DEF HandlerOK
    <2>5. QED
      BY <2>3, <2>4, TablesGrow DEF Visible
  <1>3. \A e \in EventIds : \A i \in DOMAIN audit'[e] :
          audit'[e][i].after.tenant = TenantOf[audit'[e][i].by.actor]
    BY TablesGrow DEF AttachedInScope, ScopeIsRespected
  <1> DEFINE InScope(e, a, row) ==
               /\ row # None /\ row.tenant = TenantOf[a.by.actor]
               /\ FieldUserOnly(a.by.actor) => row.reporter = a.by.actor
             Once(S) == \A a, b \in S : a.signal = b.signal => a = b
  <1>4. /\ \A e \in EventIds : \A a \in attached[e] : InScope(e, a, rows[e])
        /\ \A e \in EventIds : Once(attached[e])
    BY DEF AttachedInScope, ScopeIsRespected, AttachedOnce
  <1>5. /\ \A e \in EventIds : \A a \in attached'[e] : InScope(e, a, rows'[e])
        /\ \A e \in EventIds : Once(attached'[e])
    <2>1. CASE UNCHANGED attached
      BY <1>4, <2>1, TablesGrow
    <2>2. ASSUME NEW h \in Handlers, pc[h] = "write", req[h].op = "attach_signal",
                 AttachOnce(req[h]), UNCHANGED rows
          PROVE  /\ \A e \in EventIds : \A a \in attached'[e] : InScope(e, a, rows'[e])
                 /\ \A e \in EventIds : Once(attached'[e])
      <3> DEFINE r == req[h]
                 new == [signal |-> r.arg, by |-> r]
      <3>1. r.event \in EventIds /\ Visible(rows[r.event], r.actor)
        BY <1>1, <2>2, RequestFields DEF HandlerOK, AttacherSees
      <3>2. CASE HasSignal(r.event, r.arg)
        BY <1>4, <2>2, <3>2 DEF AttachOnce
      <3>3. CASE ~ HasSignal(r.event, r.arg)
        <4>1. /\ attached'[r.event] = attached[r.event] \cup {new}
              /\ \A e \in EventIds \ {r.event} : attached'[e] = attached[e]
          BY <1>1, <2>2, <3>1, <3>3 DEF AttachOnce, TypeOK
        <4>2. InScope(r.event, new, rows[r.event])
          BY <3>1 DEF Visible
        <4>3. \A a \in attached[r.event] : a.signal # new.signal
          BY <3>3 DEF HasSignal
        <4> HIDE DEF new, InScope
        <4>4. \A e \in EventIds : \A a \in attached'[e] : InScope(e, a, rows'[e])
          BY <1>4, <2>2, <3>1, <4>1, <4>2
        <4>5. \A e \in EventIds : Once(attached'[e])
          BY <1>4, <3>1, <4>1, <4>3
        <4>6. QED
          BY <4>4, <4>5
      <3>4. QED
        BY <3>2, <3>3
    <2>3. QED
      BY <1>1, <2>1, <2>2, AttachersOnly
  <1>6. AttachedInScope'
    BY <1>3, <1>5 DEF AttachedInScope, ScopeIsRespected, AttachedOnce
  <1>7. QED
    BY <1>2, <1>6

(* Whatever is attached or logged was in the scope of its actor, whichever *)
(* requests ran between the look at the event and the insert, and a signal *)
(* is attached to an event once.                                           *)
THEOREM WritesStayInScope == Spec => []AttachedInScope
  <1>1. Init => AttacherSees /\ AttachedInScope
    <2> SUFFICES ASSUME Init PROVE AttacherSees /\ AttachedInScope
      OBVIOUS
    <2>1. \A e \in EventIds : DOMAIN audit[e] = {} /\ attached[e] = {}
      BY DEF Init
    <2>2. AttachedInScope
      BY <2>1 DEF AttachedInScope, ScopeIsRespected, AttachedOnce
    <2>3. AttacherSees
      BY DEF Init, AttacherSees
    <2>4. QED
      BY <2>2, <2>3
  <1>2. QED
    BY <1>1, ScopeStep, HistoryInvariant, PTL DEF Spec

-----------------------------------------------------------------------------
(* What the record of request r with result v would tell is in the logs or *)
(* among the attachments.                                                  *)
IsTold(r, v, logs, links) ==
    \/ \E e \in EventIds : \E i \in DOMAIN logs[e] :
          logs[e][i].by = r /\ logs[e][i].after = v
    \/ /\ r.op = "attach_signal"
       /\ \E a \in links[r.event] : a.signal = r.arg

(* ReplayIsTruthful, record by record.                                     *)
Tells(s, record, logs, links) ==
    \/ \E e \in EventIds : \E i \in DOMAIN logs[e] :
          /\ Slot(logs[e][i].by) = s
          /\ record.fingerprint = Fingerprint(logs[e][i].by)
          /\ record.value = logs[e][i].after
    \/ /\ s[1] = "attach_signal"
       /\ \E a \in links[record.fingerprint[1]] : a.signal = record.fingerprint[3]

(* A handler about to store its record has committed what it will tell.    *)
PutIsTrue ==
    \A h \in Handlers : pc[h] = "put" => IsTold(req[h], image[h], audit, attached)

(* What was told or could be told stays true: logs and attachments grow.   *)
LEMMA TruthStays ==
    ASSUME HistoryInv, [Next]_vars
    PROVE  /\ \A r \in Requests : \A v :
                IsTold(r, v, audit, attached) => IsTold(r, v, audit', attached')
           /\ \A s : \A record \in Record :
                Tells(s, record, audit, attached) => Tells(s, record, audit', attached')
  <1>1. \A e \in EventIds : /\ \A i \in DOMAIN audit[e] :
                                  i \in DOMAIN audit'[e] /\ audit'[e][i] = audit[e][i]
                            /\ attached[e] \subseteq attached'[e]
    BY TablesGrow
  <1>2. \A r \in Requests : r.event \in EventIds
    BY RequestFields
  <1>3. \A record \in Record : record.fingerprint[1] \in EventIds
    BY DEF Record, Body
  <1>4. ASSUME NEW r \in Requests, NEW v, IsTold(r, v, audit, attached)
        PROVE  IsTold(r, v, audit', attached')
    <2>1. CASE r.op = "attach_signal" /\ \E a \in attached[r.event] : a.signal = r.arg
      BY <1>1, <1>2, <2>1 DEF IsTold
    <2>2. ASSUME NEW e \in EventIds, NEW i \in DOMAIN audit[e],
                 audit[e][i].by = r /\ audit[e][i].after = v
          PROVE  IsTold(r, v, audit', attached')
      BY <1>1, <2>2 DEF IsTold
    <2>3. QED
      BY <1>4, <2>1, <2>2 DEF IsTold
  <1>5. ASSUME NEW s, NEW record \in Record, Tells(s, record, audit, attached)
        PROVE  Tells(s, record, audit', attached')
    <2>1. CASE /\ s[1] = "attach_signal"
               /\ \E a \in attached[record.fingerprint[1]] :
                     a.signal = record.fingerprint[3]
      BY <1>1, <1>3, <2>1 DEF Tells
    <2>2. ASSUME NEW e \in EventIds, NEW i \in DOMAIN audit[e],
                 Slot(audit[e][i].by) = s,
                 record.fingerprint = Fingerprint(audit[e][i].by),
                 record.value = audit[e][i].after
          PROVE  Tells(s, record, audit', attached')
      BY <1>1, <2>2 DEF Tells
    <2>3. QED
      BY <1>5, <2>1, <2>2 DEF Tells
  <1>6. QED
    BY <1>4, <1>5

(* A committed write makes its result true.                                *)
LEMMA WriteIsTold ==
    ASSUME HistoryInv, NEW h \in Handlers, pc'[h] = "put",
           WriteCreate(h) \/ WriteUpdate(h) \/ WriteAttach(h)
    PROVE  IsTold(req[h], image[h], audit', attached')
  <1>1. TypeOK /\ HandlerOK
    BY DEF HistoryInv
  <1>2. ~ Leave(h)
    BY <1>1 DEF Leave, Goto, TypeOK
  <1>3. CASE WriteCreate(h) \/ WriteUpdate(h)
    <2>1. pc[h] = "write" /\ Persist(h, req[h])
      BY <1>2, <1>3 DEF WriteCreate, WriteUpdate
    <2>2. PICK e \in EventIds, n \in Nat \ {0} : Appends(h, e, n)
      BY <1>1, <2>1, PersistAppends
    <2>3. /\ n \in DOMAIN audit'[e] /\ audit'[e][n].by = req[h]
          /\ audit'[e][n].after = image[h]
      BY <2>2 DEF Appends, NewEntry
    <2>4. QED
      BY <2>3 DEF IsTold
  <1>4. CASE WriteAttach(h)
    <2>1. /\ pc[h] = "write" /\ req[h].op = "attach_signal"
          /\ AttachOnce(req[h])
      BY <1>2, <1>4 DEF WriteAttach
    <2>2. req[h].event \in EventIds
      BY <1>1, <2>1, RequestFields DEF HandlerOK
    <2>3. \E a \in attached'[req[h].event] : a.signal = req[h].arg
      <3>1. CASE HasSignal(req[h].event, req[h].arg)
        BY <2>1, <3>1 DEF AttachOnce, HasSignal
      <3>2. CASE ~ HasSignal(req[h].event, req[h].arg)
        <4>1. [signal |-> req[h].arg, by |-> req[h]] \in attached'[req[h].event]
          BY <1>1, <2>1, <2>2, <3>2 DEF AttachOnce, TypeOK
        <4>2. [signal |-> req[h].arg, by |-> req[h]].signal = req[h].arg
          OBVIOUS
        <4>3. QED
          BY <4>1, <4>2
      <3>3. QED
        BY <3>1, <3>2
    <2>4. QED
      BY <2>1, <2>3 DEF IsTold
  <1>5. QED
    BY <1>3, <1>4

(* Only Put writes a record, and only into a slot that has none.           *)
LEMMA RecordersOnly ==
    ASSUME IdempotencyInv, [Next]_vars
    PROVE  \/ UNCHANGED records
           \/ \E h \in Handlers :
                /\ pc[h] = "put"
                /\ records' = [records EXCEPT ![Slot(req[h])] =
                                 [fingerprint |-> Fingerprint(req[h]), value |-> image[h]]]
  <1>1. ASSUME NEW h \in Handlers, Put(h)
        PROVE  /\ pc[h] = "put"
               /\ records' = [records EXCEPT ![Slot(req[h])] =
                                [fingerprint |-> Fingerprint(req[h]), value |-> image[h]]]
    <2>1. records[Slot(req[h])] = None
      BY <1>1 DEF Put, IdempotencyInv, Fencing, SlotIsFresh
    <2>2. QED
      BY <1>1, <2>1 DEF Put
  <1>2. ASSUME NEW h \in Handlers, Handle(h), ~ Put(h)
        PROVE  UNCHANGED records
    BY <1>2 DEF Handle, Submit, RequireEvent, Reserve, Get, Load,
                WriteCreate, WriteUpdate, WriteAttach, Release, Crash
  <1>3. CASE Reconcile \/ UNCHANGED vars
    BY <1>3 DEF Reconcile, ReconcileUncommitted, ReconcileCompleted, vars
  <1>4. QED
    BY <1>1, <1>2, <1>3 DEF Next

(* ReplayIsTruthful, record by record.                                     *)
LEMMA RecordsTell ==
    ReplayIsTruthful <=>
      \A s \in Slots : records[s] # None => Tells(s, records[s], audit, attached)
  BY DEF ReplayIsTruthful, Tells, HasSignal

(* Every step keeps the records truthful.                                  *)
LEMMA ReplayStep ==
    IdempotencyInv /\ HistoryInv /\ PutIsTrue /\ ReplayIsTruthful /\ [Next]_vars
      => PutIsTrue' /\ ReplayIsTruthful'
  <1> SUFFICES ASSUME IdempotencyInv, HistoryInv, PutIsTrue, ReplayIsTruthful, [Next]_vars
               PROVE  PutIsTrue' /\ ReplayIsTruthful'
    OBVIOUS
  <1>1. TypeOK /\ HandlerOK
    BY DEF HistoryInv
  <1>2. PutIsTrue'
    <2> SUFFICES ASSUME NEW g \in Handlers, pc'[g] = "put"
                 PROVE  IsTold(req'[g], image'[g], audit', attached')
      BY DEF PutIsTrue
    <2>1. CASE pc'[g] = pc[g] /\ req'[g] = req[g] /\ image'[g] = image[g]
      <3>1. req[g] \in Requests /\ IsTold(req[g], image[g], audit, attached)
        BY <1>1, <2>1 DEF HandlerOK, PutIsTrue
      <3>2. QED
        BY <2>1, <3>1, TruthStays
    <2>2. CASE req'[g] = req[g] /\ Advances(g)
      <3>1. /\ image'[g] = image[g]
            /\ WriteCreate(g) \/ WriteUpdate(g) \/ WriteAttach(g)
        BY <2>2 DEF Advances
      <3>2. QED
        BY <2>2, <3>1, WriteIsTold
    <2>3. ASSUME NEW r \in Requests, Submit(g, r)
          PROVE  FALSE
      BY <1>1, <2>3 DEF Submit, Goto, TypeOK
    <2>4. QED
      BY <1>1, <2>1, <2>2, <2>3, HandlerMoves
  <1>3. \A s \in Slots : records'[s] # None => Tells(s, records'[s], audit', attached')
    <2> SUFFICES ASSUME NEW s \in Slots, records'[s] # None
                 PROVE  Tells(s, records'[s], audit', attached')
      OBVIOUS
    <2>1. CASE records'[s] = records[s]
      <3>1. records[s] # None /\ records[s] \in Record
        BY <1>1, <2>1 DEF TypeOK
      <3>2. Tells(s, records[s], audit, attached)
        BY <3>1, RecordsTell
      <3>3. QED
        BY <2>1, <3>1, <3>2, TruthStays
    <2>2. ASSUME NEW h \in Handlers, pc[h] = "put", s = Slot(req[h]),
                 records'[s] = [fingerprint |-> Fingerprint(req[h]), value |-> image[h]]
          PROVE  Tells(s, records'[s], audit', attached')
      <3>1. req[h] \in Requests /\ IsTold(req[h], image[h], audit', attached')
        BY <1>1, <2>2, TruthStays DEF HandlerOK, PutIsTrue
      <3>2. /\ records'[s].fingerprint = Fingerprint(req[h])
            /\ records'[s].value = image[h]
            /\ s[1] = req[h].op
            /\ Fingerprint(req[h])[1] = req[h].event
            /\ Fingerprint(req[h])[3] = req[h].arg
        BY <2>2 DEF Slot, Fingerprint
      <3>3. QED
        BY <2>2, <3>1, <3>2 DEF IsTold, Tells
    <2>3. QED
      BY <1>1, <2>1, <2>2, RecordersOnly DEF TypeOK
  <1>4. ReplayIsTruthful'
    BY <1>3 DEF ReplayIsTruthful, Tells, HasSignal
  <1>5. QED
    BY <1>2, <1>4

(* What a replay answers is what one commit of the same slot and body did. *)
THEOREM ReplaysAreTrue == Spec => []ReplayIsTruthful
  <1>1. Init => PutIsTrue /\ ReplayIsTruthful
    BY DEF Init, PutIsTrue, ReplayIsTruthful
  <1>2. QED
    BY <1>1, ReplayStep, IdempotencyInvariant, HistoryInvariant, PTL DEF Spec

-----------------------------------------------------------------------------
(* What the domain guards leave for the table's constraints to refuse.     *)
OnlyClosedReassessed(r, row) ==
    RowChecks(row) \/ (r.op = "reassess_severity" /\ row.status = "CLOSED")

(* The rows satisfy the constraints; an image satisfies them or reassesses *)
(* a closed event; an attachment holds no image before its insert.         *)
ImagesChecked ==
    /\ \A e \in EventIds : rows[e] # None => RowChecks(rows[e])
    /\ \A h \in Handlers :
         /\ pc[h] # "idle" /\ req[h].op = "create" => ValidAssessment(req[h].arg, req[h].review)
         /\ pc[h] \in {"requireEvent", "reserve", "get", "write"} /\ req[h].op = "attach_signal"
               => image[h] = None
         /\ pc[h] = "write" /\ IsUpdate(req[h]) => OnlyClosedReassessed(req[h], image[h])

(* A new event satisfies the constraints.                                  *)
LEMMA CreatedIsChecked ==
    ASSUME NEW r, ValidAssessment(r.arg, r.review)
    PROVE  RowChecks(Created(r))
  BY DEF ValidAssessment, RowChecks, Created, NewRoadEvent

(* A domain step on a row that satisfies the constraints.                  *)
LEMMA MutateIsChecked ==
    ASSUME NEW row \in Row, NEW r \in Requests, IsUpdate(r),
           RowChecks(row), CanMutate(row, r)
    PROVE  OnlyClosedReassessed(r, Mutate(row, r))
  <1>1. Mutate(row, r).version > 0
    BY MutateType DEF Row
  <1>2. CASE r.op = "reassess_severity"
    <2>1. Mutate(row, r) = assessSeverity(row, r.arg, r.review)
      BY <1>2 DEF Mutate
    <2>2. Mutate(row, r).severity = r.arg /\ Mutate(row, r).review = r.review
      BY <2>1, Zenon DEF assessSeverity, Row
    <2>3. isHighSeverity(Mutate(row, r).severity) => Mutate(row, r).review
      BY <1>2, <2>2 DEF CanMutate, ValidAssessment
    <2>4. QED
      BY <1>1, <1>2, <2>3 DEF OnlyClosedReassessed, RowChecks
  <1>3. CASE r.op = "transition"
    <2>1. Mutate(row, r) = transitionTo(row, r.arg)
      BY <1>3 DEF Mutate
    <2>2. /\ Mutate(row, r).severity = row.severity /\ Mutate(row, r).review = row.review
          /\ Mutate(row, r).authorizedBy = row.authorizedBy /\ Mutate(row, r).status = r.arg
      BY <2>1, Zenon DEF transitionTo, Row
    <2>3. QED
      BY <1>1, <1>3, <2>2 DEF CanMutate, CanTransitionTo, OnlyClosedReassessed, RowChecks
  <1>4. CASE r.op = "authorize_closure"
    <2>1. Mutate(row, r) = authorizeClosure(row, r.actor)
      BY <1>4 DEF Mutate
    <2>2. /\ Mutate(row, r).severity = row.severity /\ Mutate(row, r).review = row.review
          /\ Mutate(row, r).authorizedBy = r.actor
      BY <2>1, Zenon DEF authorizeClosure, Row
    <2>3. r.actor # None
      BY RequestFields, NoneAssumption
    <2>4. QED
      BY <1>1, <2>2, <2>3 DEF OnlyClosedReassessed, RowChecks
  <1>5. QED
    BY <1>2, <1>3, <1>4 DEF IsUpdate

(* Every step keeps the rows and the images checked.                       *)
LEMMA CheckedStep ==
    HistoryInv /\ ImagesChecked /\ [Next]_vars => ImagesChecked'
  <1> SUFFICES ASSUME HistoryInv, ImagesChecked, [Next]_vars
               PROVE  ImagesChecked'
    OBVIOUS
  <1>1. TypeOK /\ HandlerOK
    BY DEF HistoryInv
  <1>2. ASSUME NEW e \in EventIds, rows'[e] # None
        PROVE  RowChecks(rows'[e])
    <2>1. CASE UNCHANGED rows
      BY <1>2, <2>1 DEF ImagesChecked
    <2>2. ASSUME NEW h \in Handlers, pc[h] = "write",
                 WriteCreate(h) \/ WriteUpdate(h), Persist(h, req[h])
          PROVE  RowChecks(rows'[e])
      <3>1. PICK x \in EventIds : WritesRow(h, x)
        BY <2>2, PersistWrites DEF HistoryInv
      <3>2. RowChecks(image[h])
        <4>1. CASE WriteCreate(h)
          BY <1>1, <2>2, <4>1, CreatedIsChecked DEF WriteCreate, HandlerOK, ImagesChecked
        <4>2. CASE WriteUpdate(h)
          <5>1. pc'[h] = "put"
            BY <1>1, <2>2 DEF Persist, Goto, TypeOK
          <5>2. ~ Leave(h)
            BY <1>1, <5>1 DEF Leave, Goto, TypeOK
          <5>3. QED
            BY <4>2, <5>2 DEF WriteUpdate, Updatable
        <4>3. QED
          BY <2>2, <4>1, <4>2
      <3>3. rows'[e] = image[h] \/ rows'[e] = rows[e]
        BY <1>1, <3>1 DEF WritesRow, TypeOK
      <3>4. QED
        BY <1>2, <3>2, <3>3 DEF ImagesChecked
    <2>3. QED
      BY <2>1, <2>2, WritersOnly
  <1>3. ASSUME NEW g \in Handlers, pc'[g] # "idle"
        PROVE  /\ req'[g].op = "create" => ValidAssessment(req'[g].arg, req'[g].review)
               /\ pc'[g] \in {"requireEvent", "reserve", "get", "write"}
                    /\ req'[g].op = "attach_signal" => image'[g] = None
               /\ pc'[g] = "write" /\ IsUpdate(req'[g])
                    => OnlyClosedReassessed(req'[g], image'[g])
    <2>1. CASE pc'[g] = pc[g] /\ req'[g] = req[g] /\ image'[g] = image[g]
      BY <1>3, <2>1 DEF ImagesChecked
    <2>2. ASSUME NEW r \in Requests, Submit(g, r)
          PROVE  /\ req'[g] = r /\ pc'[g] \in {"requireEvent", "reserve"}
                 /\ r.op = "create" => ValidAssessment(r.arg, r.review)
                 /\ r.op # "create" => image'[g] = None
      BY <1>1, <2>2 DEF Submit, Goto, TypeOK
    <2>3. CASE req'[g] = req[g] /\ Advances(g)
      <3>1. pc[g] # "idle" /\ req[g] \in Requests
        BY <1>1, <2>3 DEF Advances, HandlerOK
      <3>2. CASE pc[g] = "load"
        <4>1. /\ pc'[g] = "write" /\ IsUpdate(req[g])
              /\ Visible(rows[req[g].event], req[g].actor)
              /\ CanMutate(rows[req[g].event], req[g])
              /\ image'[g] = Mutate(rows[req[g].event], req[g])
          BY <1>1, <2>3, <3>2 DEF Advances, HandlerOK
        <4>2. rows[req[g].event] \in Row /\ RowChecks(rows[req[g].event])
          BY <1>1, <3>1, <4>1, RequestFields DEF Visible, TypeOK, ImagesChecked
        <4>3. OnlyClosedReassessed(req[g], image'[g])
          BY <3>1, <4>1, <4>2, MutateIsChecked
        <4>4. req[g].op # "create" /\ req[g].op # "attach_signal"
          BY <4>1 DEF IsUpdate
        <4>5. QED
          BY <2>3, <4>3, <4>4
      <3>3. CASE pc[g] # "load"
        <4>1. /\ pc'[g] \in {"requireEvent", "reserve", "get", "write"} =>
                   /\ pc[g] \in {"requireEvent", "reserve", "get"}
                   /\ image'[g] = image[g]
              /\ pc'[g] = "write" => ~ IsUpdate(req[g])
          BY <2>3, <3>3 DEF Advances
        <4>2. QED
          BY <2>3, <3>1, <4>1 DEF ImagesChecked
      <3>4. QED
        BY <3>2, <3>3
    <2>4. QED
      BY <1>1, <1>3, <2>1, <2>2, <2>3, HandlerMoves
  <1>4. QED
    BY <1>2, <1>3 DEF ImagesChecked

(* The domain guards let nothing reach the constraints that these would    *)
(* refuse, but the reassessment of a closed event.                         *)
THEOREM GuardsAreEnough == Spec => []GuardsImplyChecks
  <1>1. Init => ImagesChecked
    BY SeedAssumption DEF Init, ImagesChecked
  <1>2. HistoryInv /\ ImagesChecked => GuardsImplyChecks
    <2> SUFFICES ASSUME HistoryInv, ImagesChecked, NEW h \in Handlers, pc[h] = "write",
                        image[h] # None, ~ RowChecks(image[h])
                 PROVE  req[h].op = "reassess_severity" /\ image[h].status = "CLOSED"
      BY DEF GuardsImplyChecks
    <2>1. req[h] \in Requests /\ req[h].op \in Operations
      BY RequestFields DEF HistoryInv, HandlerOK
    <2>2. CASE IsUpdate(req[h])
      BY <2>2 DEF ImagesChecked, OnlyClosedReassessed
    <2>3. CASE req[h].op = "create"
      BY <2>3, CreatedIsChecked DEF HistoryInv, HandlerOK, ImagesChecked
    <2>4. CASE req[h].op = "attach_signal"
      BY <2>4 DEF ImagesChecked
    <2>5. QED
      BY <2>1, <2>2, <2>3, <2>4 DEF Operations, IsUpdate
  <1>3. QED
    BY <1>1, <1>2, CheckedStep, HistoryInvariant, PTL DEF Spec
=============================================================================
