--------------------- MODULE ContactOrchestrationProofs ---------------------
(***************************************************************************)
(* Safety of a contact session for any workers, operators, inputs, prompts *)
(* and attempt limit.                                                      *)
(***************************************************************************)
EXTENDS ContactOrchestration, FiniteSetTheorems, TLAPS

Prompts == {"contact.consent", "contact.language", "contact.response"}

(* TypeOK in three parts: the session row, the outbox, the workers.        *)
SessionType ==
    /\ state \in States \cup {None}
    /\ attempts \in 0 .. MaxAttempts
    /\ suppressed \in BOOLEAN
    /\ operator \in Operators \cup {None}
    /\ action \in {"none", "later", "now"}
    /\ received \subseteq Inputs

LeaseType ==
    /\ sessionOwner \in Workers \cup {None}
    /\ sessionLeased \in BOOLEAN
    /\ sessionLeased => sessionOwner # None

OutboxType ==
    /\ status \in [Messages -> {"absent", "pending", "delivered", "cancelled"}]
    /\ prompt \in [Messages -> {None} \cup Prompts]
    /\ owner \in [Messages -> Workers \cup {None}]
    /\ token \in [Messages -> Workers \cup {None}]
    /\ leased \subseteq Pending
    /\ live \subseteq leased
    /\ due \subseteq Pending
    /\ \A m \in leased : owner[m] # None
    /\ \A m \in live : token[m] # None

WorkerType ==
    /\ wpc \in [Workers -> {"timers", "due", "leaving", "outbox", "reserve",
                            "send", "sent", "failed", "release"}]
    /\ batch \in [Workers -> SUBSET Messages]
    /\ current \in [Workers -> Messages \cup {None}]

(* TypeOK is its parts, in a state and in the next.                        *)
LEMMA TypeParts ==
    /\ TypeOK <=> SessionType /\ LeaseType /\ OutboxType /\ WorkerType
    /\ TypeOK' <=> SessionType' /\ LeaseType' /\ OutboxType' /\ WorkerType'
  <1>1. TypeOK <=> SessionType /\ LeaseType /\ OutboxType /\ WorkerType
    BY DEF TypeOK, SessionType, LeaseType, OutboxType, WorkerType, Prompts
  <1>2. TypeOK' <=> SessionType' /\ LeaseType' /\ OutboxType' /\ WorkerType'
    BY DEF TypeOK, SessionType, LeaseType, OutboxType, WorkerType, Prompts
  <1> QED
    BY <1>1, <1>2

-----------------------------------------------------------------------------
(* The statements on the outbox.                                           *)

(* A statement that leaves the outbox alone leaves its type alone.         *)
LEMMA OutboxSame ==
    ASSUME UNCHANGED outbox
    PROVE  /\ OutboxType => OutboxType'
           /\ Pending' = Pending
  BY DEF outbox, OutboxType, Pending

(* So does one that leaves the session's lease or the workers alone.       *)
LEMMA LeaseSame == ASSUME LeaseType, UNCHANGED lease PROVE LeaseType'
  <1>1. sessionOwner' = sessionOwner /\ sessionLeased' = sessionLeased
    BY DEF lease
  <1> QED
    BY <1>1, Zenon DEF LeaseType

LEMMA WorkerSame == ASSUME WorkerType, UNCHANGED worker PROVE WorkerType'
  BY DEF worker, WorkerType

(* Clearing the lease leaves none.                                         *)
LEMMA LeaseCleared == ASSUME ClearLease PROVE LeaseType'
  BY DEF ClearLease, LeaseType

(* insertOutboxIfAbsent adds one pending prompt.                           *)
LEMMA InsertType ==
    ASSUME OutboxType, NEW p \in Prompts, InsertOutbox(p)
    PROVE  OutboxType'
  <1>1. PICK m \in Fresh :
          /\ status' = [status EXCEPT ![m] = "pending"]
          /\ prompt' = [prompt EXCEPT ![m] = p]
          /\ due' = due \cup {m}
          /\ UNCHANGED <<owner, leased, token, live>>
    BY DEF InsertOutbox
  <1>2. m \in Messages /\ m \notin Pending
    BY <1>1 DEF Fresh, Pending
  <1>3. Pending' = Pending \cup {m}
    BY <1>1, <1>2 DEF OutboxType, Pending
  <1> QED
    BY <1>1, <1>2, <1>3 DEF OutboxType

(* cancelPendingAutomation leaves nothing pending.                         *)
LEMMA CancelType ==
    ASSUME OutboxType, CancelPendingAutomation
    PROVE  OutboxType' /\ Pending' = {}
  <1>1. Pending' = {}
    BY DEF OutboxType, CancelPendingAutomation, Pending
  <1>2. leased' = {} /\ live' = {} /\ due' = {}
    BY DEF OutboxType, CancelPendingAutomation, CancelColumns
  <1> QED
    BY <1>1, <1>2
    DEF OutboxType, CancelPendingAutomation, CancelColumns

(* Cancelling and queueing the next prompt leaves exactly that one.        *)
LEMMA CancelInsertType ==
    ASSUME OutboxType, NEW p \in Prompts, CancelThenInsertOutbox(p)
    PROVE  OutboxType'
  <1>1. PICK f \in Fresh :
          /\ CancelColumns
          /\ status' = [m \in Messages |->
                           IF m = f THEN "pending"
                           ELSE IF m \in Pending THEN "cancelled"
                           ELSE status[m]]
          /\ due' = (due \ Pending) \cup {f}
          /\ prompt' = [prompt EXCEPT ![f] = p]
    BY DEF CancelThenInsertOutbox
  <1>2. f \in Messages
    BY DEF Fresh
  <1>3. Pending' = {f}
    BY <1>1, <1>2 DEF Pending
  <1>4. status' \in [Messages -> {"absent", "pending", "delivered",
                                  "cancelled"}]
    BY <1>1, <1>2 DEF OutboxType
  <1>5. leased' = {} /\ live' = {} /\ due' = {f}
    BY <1>1 DEF OutboxType, CancelColumns
  <1> QED
    BY <1>1, <1>2, <1>3, <1>4, <1>5 DEF OutboxType, CancelColumns

-----------------------------------------------------------------------------
(* The protocol's tables.                                                  *)

(* A session that does not await an answer goes to human review on every   *)
(* path; the protocol has that transition from every other state.          *)
LEMMA ReviewAllowed ==
    ASSUME NEW s \in States, s # "HUMAN_REVIEW"
    PROVE  "HUMAN_REVIEW" \in ALLOWED[s]
  BY DEF ALLOWED, States, HumanStates

(* The states a callback asks for, and where it may do so.                 *)
LEMMA CallbackTargets ==
    ASSUME NEW kind \in CallbackKinds, callbackRequestedState(kind) # None
    PROVE  /\ callbackRequestedState(kind) \in
                  {"HUMAN_REVIEW", "LANGUAGE_SELECTION", "CONTACTING",
                   "PARTIAL_RESPONSE", "DISCONNECTED", "RESPONSE_CONFIRMED"}
           /\ kind = "CONSENT_GRANTED" =>
                /\ state = "CONSENT_PENDING"
                /\ callbackRequestedState(kind) = "LANGUAGE_SELECTION"
           /\ callbackRequestedState(kind) = "LANGUAGE_SELECTION" =>
                kind = "CONSENT_GRANTED"
           /\ callbackRequestedState(kind) = "CONTACTING" =>
                kind = "LANGUAGE_SELECTED" /\ state = "LANGUAGE_SELECTION"
           /\ callbackRequestedState(kind)
                  \in {"PARTIAL_RESPONSE", "DISCONNECTED"} =>
                /\ state \in {"AWAITING_RESPONSE", "PARTIAL_RESPONSE"}
                /\ kind \in {"PARTIAL_RESPONSE", "DISCONNECTED"}
  BY DEF callbackRequestedState, CallbackKinds

(* The states a due timer asks for.                                        *)
LEMMA DueTargets ==
    /\ DueState \in {None, "AWAITING_RESPONSE", "NO_RESPONSE", "ESCALATED",
                     "CONTACTING"}
    /\ DueState # None =>
         state \in {"CONTACTING", "PARTIAL_RESPONSE", "AWAITING_RESPONSE",
                   "NO_RESPONSE", "DISCONNECTED"}
  BY DEF DueState

(* The states a Field Companion operation moves to.                        *)
LEMMA DeliverTargets ==
    ASSUME NEW kind \in DeliveryKinds
    PROVE  /\ nextContactState(kind) \in
                  {state, "CONTACTING", "RESPONSE_CONFIRMED", "HUMAN_REVIEW"}
           /\ nextContactState(kind) = "CONTACTING" /\ state # "CONTACTING" =>
                kind = "RECONNECT" /\ state = "DISCONNECTED"
           /\ nextContactState(kind) = "RESPONSE_CONFIRMED"
              /\ state # "RESPONSE_CONFIRMED" =>
                state \in {"AWAITING_RESPONSE", "PARTIAL_RESPONSE"}
           /\ kind \in {"REPLY", "HELP", "IMPACT"} =>
                nextContactState(kind)
                  \in {"RESPONSE_CONFIRMED", "HUMAN_REVIEW"}
  BY DEF nextContactState, DeliveryKinds

-----------------------------------------------------------------------------
(* Type correctness.                                                       *)

LEMMA FailToReviewType ==
    ASSUME SessionType, OutboxType, FailToReview, received' \subseteq Inputs
    PROVE  SessionType' /\ OutboxType'
  BY CancelType DEF FailToReview, SessionType, States

LEMMA HandOverType ==
    ASSUME SessionType, OutboxType, received' = received,
           NEW s \in States, NEW op \in Operators \cup {None},
           HandOver(s, op)
    PROVE  SessionType' /\ LeaseType' /\ OutboxType'
  BY CancelType DEF HandOver, ClearLease, SessionType, LeaseType

LEMMA OpenType == ASSUME TypeOK, Open PROVE TypeOK'
  <1>1. SessionType'
    BY TypeParts, AttemptsAssumption DEF Open, SessionType, States
  <1>2. OutboxType'
    BY TypeParts, InsertType DEF Open, Prompts
  <1>3. LeaseType' /\ WorkerType'
    BY TypeParts, LeaseSame, WorkerSame DEF Open
  <1> QED
    BY <1>1, <1>2, <1>3, TypeParts

LEMMA HandleCallbackType ==
    ASSUME TypeOK, NEW i \in Inputs, HandleCallback(i) PROVE TypeOK'
  <1>1. received' \subseteq Inputs
    BY TypeParts DEF HandleCallback, SessionType
  <1>2. SessionType' /\ OutboxType'
    <2>1. CASE UNCHANGED <<sessionRow, outbox>>
      BY <1>1, <2>1, TypeParts, OutboxSame DEF SessionType, sessionRow
    <2>2. CASE CallbackApproved(i.kind) /\ ApplyCallback(i.kind)
      <3>1. state' \in States
        BY <2>2, CallbackTargets
        DEF HandleCallback, CallbackApproved, ApplyCallback, States
      <3>2. action' \in {"none", "later", "now"}
        BY <2>2 DEF ApplyCallback, CallbackAction
      <3>3. OutboxType'
        BY <2>2, TypeParts, CancelType, CancelInsertType
        DEF ApplyCallback, Prompts
      <3> QED
        BY <1>1, <2>2, <3>1, <3>2, <3>3, TypeParts
        DEF ApplyCallback, SessionType
    <2>3. CASE FailToReview
      BY <1>1, <2>3, TypeParts, FailToReviewType
    <2> QED
      BY <2>1, <2>2, <2>3 DEF HandleCallback
  <1>3. LeaseType' /\ WorkerType'
    BY TypeParts, LeaseSame, WorkerSame DEF HandleCallback
  <1> QED
    BY <1>2, <1>3, TypeParts

LEMMA HumanType ==
    ASSUME TypeOK, NEW op \in Operators, Human(op) PROVE TypeOK'
  <1>1. WorkerType' /\ received' = received
    BY TypeParts
    DEF Human, OperatorTakeover, DashboardMutate, WorkerType, worker
  <1>2. state \in States /\ operator \in Operators \cup {None}
    BY TypeParts
    DEF Human, OperatorTakeover, DashboardMutate, Opened, SessionType
  <1>3. SessionType' /\ LeaseType' /\ OutboxType'
    <2>1. CASE FailToReview /\ UNCHANGED lease
      <3>1. SessionType' /\ OutboxType'
        BY <1>1, <2>1, TypeParts, FailToReviewType DEF SessionType
      <3>2. LeaseType'
        BY <2>1, TypeParts, LeaseSame
      <3> QED
        BY <3>1, <3>2
    <2>2. CASE HandOver("OPERATOR_TAKEOVER", op)
      BY <1>1, <2>2, TypeParts, HandOverType DEF States
    <2>3. CASE HandOver("ESCALATED", operator)
      BY <1>1, <1>2, <2>3, TypeParts, HandOverType DEF States
    <2>4. CASE HandOver(state, op)
      BY <1>1, <1>2, <2>4, TypeParts, HandOverType
    <2> QED
      BY <2>1, <2>2, <2>3, <2>4
      DEF Human, OperatorTakeover, DashboardMutate
  <1> QED
    BY <1>1, <1>3, TypeParts

LEMMA DeliverType ==
    ASSUME TypeOK, NEW i \in Inputs, Deliver(i) PROVE TypeOK'
  <1>1. state' \in States /\ received' \subseteq Inputs
    BY TypeParts, DeliverTargets DEF Deliver, Opened, SessionType, States
  <1>2. SessionType'
    BY <1>1, TypeParts DEF Deliver, SessionType
  <1>3. OutboxType'
    BY TypeParts, CancelType, OutboxSame DEF Deliver
  <1>4. LeaseType' /\ WorkerType'
    BY TypeParts, LeaseCleared, WorkerSame DEF Deliver
  <1> QED
    BY <1>2, <1>3, <1>4, TypeParts

(* A step that writes neither the session row nor the inputs.              *)
LEMMA SessionSame ==
    ASSUME SessionType, UNCHANGED <<sessionRow, received>>
    PROVE  SessionType'
  BY DEF SessionType, sessionRow

LEMMA TimersType ==
    ASSUME TypeOK, NEW w \in Workers,
           ClaimDueSessions(w) \/ ReleaseLease(w) \/ DueFails(w)
    PROVE  TypeOK'
  <1>1. SessionType' /\ OutboxType'
    BY TypeParts, SessionSame, OutboxSame
    DEF ClaimDueSessions, ReleaseLease, DueFails
  <1>2. LeaseType'
    <2>1. CASE UNCHANGED lease
      BY <2>1, TypeParts, LeaseSame
    <2>2. CASE ClearLease
      BY <2>2, LeaseCleared
    <2>3. CASE sessionOwner' = w /\ sessionLeased' = TRUE
      BY <2>3, ContactAssumption DEF LeaseType
    <2> QED
      BY <2>1, <2>2, <2>3 DEF ClaimDueSessions, ReleaseLease, DueFails
  <1>3. WorkerType'
    BY TypeParts
    DEF ClaimDueSessions, ReleaseLease, DueFails, Goto, WorkerType
  <1> QED
    BY <1>1, <1>2, <1>3, TypeParts

LEMMA ProcessDueType ==
    ASSUME TypeOK, NEW w \in Workers, ProcessDue(w) PROVE TypeOK'
  <1>1. WorkerType'
    BY TypeParts DEF ProcessDue, Goto, WorkerType
  <1>2. LeaseType'
    BY TypeParts, LeaseSame DEF ProcessDue
  <1>3. SessionType' /\ OutboxType'
    <2>1. CASE UNCHANGED <<sessionRow, outbox>>
      BY <2>1, TypeParts, SessionSame, OutboxSame DEF ProcessDue
    <2>2. CASE /\ DueState # None
               /\ Approved(state, DueState, "SYSTEM", TRUE, attempts)
               /\ AdvanceDue
      <3>1. state' \in States /\ action' \in {"none", "later", "now"}
        BY <2>2, DueTargets DEF AdvanceDue, States
      <3>2. attempts' \in 0 .. MaxAttempts
        BY <2>2, TypeParts, AttemptsAssumption
        DEF AdvanceDue, Approved, SessionType
      <3>3. OutboxType'
        BY <2>2, TypeParts, InsertType, OutboxSame DEF AdvanceDue, Prompts
      <3> QED
        BY <2>2, <3>1, <3>2, <3>3, TypeParts
        DEF AdvanceDue, ProcessDue, SessionType
    <2>3. CASE FailToReview
      BY <2>3, TypeParts, FailToReviewType DEF ProcessDue, SessionType
    <2> QED
      BY <2>1, <2>2, <2>3 DEF ProcessDue
  <1> QED
    BY <1>1, <1>2, <1>3, TypeParts

LEMMA ClaimDueOutboxType ==
    ASSUME TypeOK, NEW w \in Workers, ClaimDueOutbox(w)
    PROVE  TypeOK' /\ Pending' = Pending
  <1>1. SessionType' /\ LeaseType'
    BY TypeParts, SessionSame, LeaseSame DEF ClaimDueOutbox
  <1>2. Claimable \subseteq Pending /\ Pending \subseteq Messages
    BY DEF Claimable, Pending
  <1>3. Pending' = Pending
    BY DEF ClaimDueOutbox, Pending
  <1>4. OutboxType'
    BY <1>2, <1>3, TypeParts, ContactAssumption
    DEF ClaimDueOutbox, OutboxType
  <1>5. WorkerType'
    BY <1>2, TypeParts DEF ClaimDueOutbox, Goto, WorkerType
  <1> QED
    BY <1>1, <1>3, <1>4, <1>5, TypeParts

LEMMA ReserveType ==
    ASSUME TypeOK, NEW w \in Workers, ReserveOutboxDelivery(w)
    PROVE  TypeOK' /\ Pending' = Pending
  <1>1. SessionType' /\ LeaseType'
    BY TypeParts, SessionSame, LeaseSame DEF ReserveOutboxDelivery
  <1>2. Pending' = Pending
    BY DEF ReserveOutboxDelivery, Pending
  <1>3. PICK m \in batch[w] :
          /\ current' = [current EXCEPT ![w] = m]
          /\ batch' = [batch EXCEPT ![w] = @ \ {m}]
          /\ \/ /\ token' = [token EXCEPT ![m] = w]
                /\ live' = live \cup ({m} \cap leased)
                /\ Goto(w, "send")
             \/ /\ Goto(w, "release")
                /\ UNCHANGED <<token, live>>
    BY DEF ReserveOutboxDelivery
  <1>4. m \in Messages
    BY <1>3, TypeParts DEF WorkerType
  <1>5. UNCHANGED <<status, prompt, owner, leased, due>>
    BY DEF ReserveOutboxDelivery
  <1>6. OutboxType'
    <2>1. CASE UNCHANGED <<token, live>>
      BY <1>2, <1>5, <2>1, TypeParts DEF OutboxType
    <2>2. CASE /\ token' = [token EXCEPT ![m] = w]
               /\ live' = live \cup ({m} \cap leased)
      BY <1>2, <1>4, <1>5, <2>2, TypeParts, ContactAssumption DEF OutboxType
    <2> QED
      BY <1>3, <2>1, <2>2
  <1>7. WorkerType'
    BY <1>3, <1>4, TypeParts DEF Goto, WorkerType
  <1> QED
    BY <1>1, <1>2, <1>6, <1>7, TypeParts

LEMMA FinalizeType ==
    ASSUME TypeOK, NEW w \in Workers, Finalize(w)
    PROVE  TypeOK' /\ Pending' \subseteq Pending
  <1>1. SessionType' /\ LeaseType' /\ WorkerType'
    BY TypeParts, SessionSame, LeaseSame DEF Finalize, Goto, WorkerType
  <1>2. OutboxType' /\ Pending' \subseteq Pending
    <2>1. CASE ~ HoldsFence(w)
      BY <2>1, TypeParts, OutboxSame DEF Finalize
    <2>2. CASE HoldsFence(w)
      <3> DEFINE m == current[w]
      <3>1. PICK s \in {"delivered", "pending"} :
              /\ status' = [status EXCEPT ![m] = s]
              /\ due' = due \ {m}
              /\ owner' = [owner EXCEPT ![m] = None]
              /\ token' = [token EXCEPT ![m] = None]
              /\ leased' = leased \ {m}
              /\ live' = live \ {m}
              /\ prompt' = prompt
        BY <2>2 DEF Finalize
      <3>2. m \in Pending /\ m \in Messages
        BY <2>2 DEF HoldsFence, Pending
      <3>3. Pending \ {m} \subseteq Pending' /\ Pending' \subseteq Pending
        BY <3>1, <3>2, TypeParts DEF Pending, OutboxType
      <3> QED
        BY <3>1, <3>2, <3>3, TypeParts DEF OutboxType
    <2> QED
      BY <2>1, <2>2
  <1> QED
    BY <1>1, <1>2, TypeParts

LEMMA ReleaseOutboxType ==
    ASSUME TypeOK, NEW w \in Workers, ReleaseOutboxLease(w)
    PROVE  TypeOK' /\ Pending' = Pending
  <1>1. SessionType' /\ LeaseType'
    BY TypeParts, SessionSame, LeaseSame DEF ReleaseOutboxLease
  <1>2. Pending' = Pending
    BY DEF ReleaseOutboxLease, Pending
  <1>3. OutboxType'
    BY <1>2, TypeParts DEF ReleaseOutboxLease, OutboxType, Pending
  <1>4. WorkerType'
    BY TypeParts DEF ReleaseOutboxLease, Goto, WorkerType
  <1> QED
    BY <1>1, <1>2, <1>3, <1>4, TypeParts

LEMMA SendType ==
    ASSUME TypeOK, NEW w \in Workers,
           Send(w) \/ SendUnavailable(w) \/ OutboxFails(w) \/ Crash(w)
    PROVE  TypeOK'
  <1>1. SessionType' /\ LeaseType' /\ OutboxType'
    BY TypeParts, SessionSame, LeaseSame, OutboxSame
    DEF Send, SendUnavailable, OutboxFails, Crash
  <1>2. WorkerType'
    BY TypeParts
    DEF Send, SendUnavailable, OutboxFails, Crash, Goto, WorkerType
  <1> QED
    BY <1>1, <1>2, TypeParts

LEMMA TimeType ==
    ASSUME TypeOK,
           ActionDue \/ SessionLeaseExpires \/ \E m \in Messages : Clock(m)
    PROVE  TypeOK' /\ Pending' = Pending
  <1>1. CASE ActionDue
    <2>1. SessionType'
      BY <1>1, TypeParts DEF ActionDue, SessionType
    <2> QED
      BY <1>1, <2>1, TypeParts, LeaseSame, OutboxSame, WorkerSame
      DEF ActionDue
  <1>2. CASE SessionLeaseExpires
    <2>1. LeaseType'
      BY <1>2, TypeParts DEF SessionLeaseExpires, LeaseType
    <2> QED
      BY <1>2, <2>1, TypeParts, SessionSame, OutboxSame, WorkerSame
      DEF SessionLeaseExpires
  <1>3. ASSUME NEW m \in Messages, Clock(m)
        PROVE  TypeOK' /\ Pending' = Pending
    <2>1. SessionType' /\ LeaseType' /\ WorkerType'
      BY <1>3, TypeParts, SessionSame, LeaseSame, WorkerSame
      DEF Clock, MessageDue, DeadlinePasses, MessageLeaseExpires
    <2>2. Pending' = Pending
      BY <1>3
      DEF Clock, MessageDue, DeadlinePasses, MessageLeaseExpires, Pending
    <2>3. OutboxType'
      BY <1>3, <2>2, TypeParts
      DEF Clock, MessageDue, DeadlinePasses, MessageLeaseExpires, OutboxType
    <2> QED
      BY <2>1, <2>2, <2>3, TypeParts
  <1> QED
    BY <1>1, <1>2, <1>3

(* Every step preserves the types and the tables' CHECK constraints.       *)
LEMMA TypeStep == TypeOK /\ [Next]_vars => TypeOK'
  <1> SUFFICES ASSUME TypeOK, [Next]_vars PROVE TypeOK'
    OBVIOUS
  <1>1. CASE UNCHANGED vars
    BY <1>1, TypeParts, SessionSame, LeaseSame, OutboxSame, WorkerSame
    DEF vars
  <1>2. ASSUME NEW w \in Workers, WorkerStep(w) \/ WorkerFault(w)
        PROVE  TypeOK'
    BY <1>2, TimersType, ProcessDueType, ClaimDueOutboxType, ReserveType,
       FinalizeType, ReleaseOutboxType, SendType
    DEF WorkerStep, WorkerFault
  <1> QED
    BY <1>1, <1>2, OpenType, HandleCallbackType, DeliverType, HumanType,
       TimeType
    DEF Next

LEMMA InitType == Init => TypeOK
  <1> SUFFICES ASSUME Init PROVE TypeOK
    OBVIOUS
  <1>1. SessionType
    <2>1. 0 \in 0 .. MaxAttempts
      BY AttemptsAssumption
    <2> QED
      BY <2>1, Zenon DEF Init, SessionType
  <1>2. LeaseType
    BY DEF Init, LeaseType
  <1>3. OutboxType
    BY DEF Init, OutboxType, Pending
  <1>4. WorkerType
    BY DEF Init, WorkerType
  <1> QED
    BY <1>1, <1>2, <1>3, <1>4, TypeParts

(* Type correctness for any number of workers, operators, inputs and       *)
(* prompts: the attempt limit and lease constraints of migration 0006      *)
(* never abort a transaction of the service, the dashboard or a worker.    *)
THEOREM TypeCorrect == Spec => []TypeOK
  BY InitType, TypeStep, PTL DEF Spec

-----------------------------------------------------------------------------
(* The inductive invariant.  What the properties say of a session rests on *)
(* two facts they do not mention: where the timer may be unarmed, and in   *)
(* which states the person must have spoken already.                       *)

Answers == {"RESPONSE", "CONTRADICTORY", "REPLY", "HELP", "IMPACT"}

Said(kinds) == \E i \in received : i.kind \in kinds

Resting == suppressed \/ state \in HumanStates \cup {"RESPONSE_CONFIRMED"}

(* Only an opened session has a timer or is handed to a human.             *)
Unopened == ~ Opened => ~ suppressed /\ action = "none"

(* AnswerIsHeeded.                                                         *)
Heeded == Said(Answers) => Resting

(* An opened session without a timer is with a human or confirmed.         *)
AtRest == Opened /\ action = "none" => Resting

(* The states in which the person has consented, and has a language.       *)
ConsentStates ==
    /\ state \in {"LANGUAGE_SELECTION", "CONTACTING", "AWAITING_RESPONSE",
                  "PARTIAL_RESPONSE", "DISCONNECTED", "NO_RESPONSE"} =>
         Said({"CONSENT_GRANTED"})
    /\ state \in {"CONTACTING", "AWAITING_RESPONSE", "PARTIAL_RESPONSE",
                  "DISCONNECTED", "NO_RESPONSE"} =>
         Said({"LANGUAGE_SELECTED"})

(* ConsentFirst.                                                           *)
ConsentAsked ==
    ResponsePrompts # {} =>
        Said({"CONSENT_GRANTED"}) /\ Said({"LANGUAGE_SELECTED"})

(* Completion needs a confirmed identity, which the runtime never has.     *)
NotCompleted == state # "COMPLETED"

IInv ==
    /\ TypeOK
    /\ Unopened
    /\ NotCompleted
    /\ HumanInCharge
    /\ Heeded
    /\ AtRest
    /\ ConsentStates
    /\ ConsentAsked

(* What was said stays said, and one input adds at most itself.            *)
LEMMA SaidGrows ==
    ASSUME received \subseteq received', NEW K, Said(K)
    PROVE  Said(K)'
  BY DEF Said

LEMMA SaidAdds ==
    ASSUME NEW i, received' = received \cup {i}, NEW K, Said(K)'
    PROVE  Said(K) \/ i.kind \in K
  BY DEF Said

(* A step that queues no prompt asks nothing.                              *)
LEMMA NothingAsked ==
    ASSUME ConsentAsked, received \subseteq received', UNCHANGED prompt
    PROVE  ConsentAsked'
  <1>1. ResponsePrompts' = ResponsePrompts
    BY DEF ResponsePrompts
  <1> QED
    BY <1>1, SaidGrows DEF ConsentAsked

(* A step that leaves the session alone and queues no prompt.              *)
LEMMA QuietSafe ==
    ASSUME IInv, TypeOK', UNCHANGED <<sessionRow, received, prompt>>,
           Pending' \subseteq Pending
    PROVE  IInv'
  <1>1. /\ state' = state
        /\ suppressed' = suppressed
        /\ action' = action
        /\ received' = received
    BY DEF sessionRow
  <1>2. Unopened' /\ NotCompleted' /\ AtRest'
    BY <1>1, Zenon
    DEF IInv, Unopened, NotCompleted, AtRest, Opened, Resting
  <1>3. HumanInCharge'
    <2>1. Pending = {} => Pending' = {}
      OBVIOUS
    <2> QED
      BY <1>1, <2>1, Zenon DEF IInv, HumanInCharge
  <1>4. Heeded' /\ ConsentStates'
    BY <1>1, Zenon DEF IInv, Heeded, Said, Resting, ConsentStates
  <1>5. ConsentAsked'
    BY <1>1, NothingAsked DEF IInv
  <1> QED
    BY <1>2, <1>3, <1>4, <1>5 DEF IInv

(* A failed transition puts the session before a human.                    *)
LEMMA ReviewSafe ==
    ASSUME IInv, TypeOK', Opened, FailToReview, received \subseteq received'
    PROVE  IInv'
  <1>1. /\ state' = "HUMAN_REVIEW"
        /\ action' = "none"
        /\ prompt' = prompt
        /\ Pending' = {}
    BY CancelType, TypeParts DEF IInv, FailToReview, CancelPendingAutomation
  <1>2. Opened'
    BY <1>1, ContactAssumption DEF Opened, States
  <1>3. Resting'
    BY <1>1 DEF Resting, HumanStates
  <1>4. HumanInCharge' /\ NotCompleted' /\ ConsentStates'
    BY <1>1 DEF HumanInCharge, NotCompleted, ConsentStates
  <1>5. ConsentAsked'
    BY <1>1, NothingAsked DEF IInv
  <1> QED
    BY <1>2, <1>3, <1>4, <1>5 DEF IInv, Unopened, Heeded, AtRest

(* So does a takeover, an escalation or an assignment.                     *)
LEMMA HandOverSafe ==
    ASSUME IInv, TypeOK', Opened, received' = received,
           NEW s \in {state, "OPERATOR_TAKEOVER", "ESCALATED"}, NEW op,
           HandOver(s, op)
    PROVE  IInv'
  <1>1. /\ state' = s
        /\ suppressed' = TRUE
        /\ action' = "none"
        /\ prompt' = prompt
        /\ Pending' = {}
    BY CancelType, TypeParts DEF IInv, HandOver, CancelPendingAutomation
  <1>2. Opened'
    BY <1>1, ContactAssumption DEF Opened, States
  <1>3. Resting'
    BY <1>1 DEF Resting
  <1>4. HumanInCharge' /\ NotCompleted'
    BY <1>1 DEF IInv, HumanInCharge, NotCompleted
  <1>5. ConsentStates'
    <2>1. s = state \/ s \in {"OPERATOR_TAKEOVER", "ESCALATED"}
      OBVIOUS
    <2> QED
      BY <1>1, <2>1 DEF IInv, ConsentStates, Said
  <1>6. ConsentAsked'
    BY <1>1, NothingAsked DEF IInv
  <1> QED
    BY <1>2, <1>3, <1>4, <1>5, <1>6 DEF IInv, Unopened, Heeded, AtRest

LEMMA OpenSafe == ASSUME IInv, Open PROVE IInv'
  <1>1. /\ state' = "CONSENT_PENDING"
        /\ action' = "later"
        /\ suppressed' = suppressed
        /\ received' = received
        /\ ~ Opened
    BY DEF Open
  <1>2. Opened' /\ ~ suppressed
    BY <1>1, ContactAssumption DEF IInv, Unopened, Opened, States
  <1>3. ~ Said(Answers)
    BY <1>1, <1>2, ContactAssumption
    DEF IInv, Heeded, Resting, Opened, HumanStates, States
  <1>4. ResponsePrompts' \subseteq ResponsePrompts
    <2>1. PICK m \in Fresh : prompt' = [prompt EXCEPT ![m] = "contact.consent"]
      BY DEF Open, InsertOutbox
    <2> QED
      BY <2>1, TypeParts DEF IInv, ResponsePrompts, OutboxType
  <1>5. ConsentAsked'
    BY <1>1, <1>4 DEF IInv, ConsentAsked, Said
  <1>6. Heeded'
    BY <1>1, <1>3 DEF Heeded, Said
  <1>7. /\ HumanInCharge' /\ AtRest' /\ ConsentStates'
        /\ Unopened' /\ NotCompleted'
    BY <1>1, <1>2
    DEF HumanInCharge, AtRest, ConsentStates, Unopened, NotCompleted
  <1> QED
    BY <1>5, <1>6, <1>7, OpenType DEF IInv

LEMMA HandleCallbackSafe ==
    ASSUME IInv, NEW i \in Inputs, HandleCallback(i) PROVE IInv'
  <1>1. /\ TypeOK'
        /\ Opened
        /\ i.kind \in CallbackKinds
        /\ received' = received \cup {i}
        /\ received \subseteq received'
    BY HandleCallbackType DEF IInv, HandleCallback
  <1>2. CASE CallbackIgnored
    <2>1. UNCHANGED <<sessionRow, outbox>>
      BY <1>2 DEF HandleCallback
    <2>2. /\ state' = state
          /\ suppressed' = suppressed
          /\ action' = action
          /\ prompt' = prompt
          /\ Pending' = Pending
      BY <2>1, OutboxSame DEF sessionRow, outbox
    <2>3. Unopened' /\ NotCompleted' /\ AtRest' /\ HumanInCharge'
      BY <2>2, Zenon DEF IInv, Unopened, NotCompleted, AtRest, HumanInCharge,
                         Opened, Resting
    <2>4. ConsentStates'
      BY <1>1, <2>2, SaidGrows DEF IInv, ConsentStates
    <2>5. Heeded'
      BY <1>2, <2>2, Zenon
      DEF IInv, CallbackIgnored, NotCompleted, Heeded, Resting, HumanStates
    <2>6. ConsentAsked'
      BY <1>1, <2>2, NothingAsked DEF IInv
    <2> QED
      BY <1>1, <2>3, <2>4, <2>5, <2>6 DEF IInv
  <1>3. CASE ~ CallbackIgnored /\ ~ CallbackApproved(i.kind)
    BY <1>1, <1>3, ReviewSafe DEF HandleCallback
  <1>4. CASE ~ CallbackIgnored /\ CallbackApproved(i.kind)
    <2>1. /\ ~ suppressed
          /\ state \notin {"OPERATOR_TAKEOVER", "ESCALATED"}
          /\ ApplyCallback(i.kind)
          /\ callbackRequestedState(i.kind) # None
      BY <1>4 DEF HandleCallback, CallbackIgnored, CallbackApproved
    <2>2. /\ state' = callbackRequestedState(i.kind)
          /\ action' = CallbackAction(state')
          /\ ~ suppressed'
      BY <2>1 DEF ApplyCallback
    <2>3. /\ state' \in
                 {"HUMAN_REVIEW", "LANGUAGE_SELECTION", "CONTACTING",
                  "PARTIAL_RESPONSE", "DISCONNECTED", "RESPONSE_CONFIRMED"}
          /\ i.kind = "CONSENT_GRANTED" => state' = "LANGUAGE_SELECTION"
          /\ state' = "LANGUAGE_SELECTION" =>
               i.kind = "CONSENT_GRANTED" /\ state = "CONSENT_PENDING"
          /\ state' = "CONTACTING" =>
               i.kind = "LANGUAGE_SELECTED" /\ state = "LANGUAGE_SELECTION"
          /\ state' \in {"PARTIAL_RESPONSE", "DISCONNECTED"} =>
               /\ state \in {"AWAITING_RESPONSE", "PARTIAL_RESPONSE"}
               /\ i.kind \in {"PARTIAL_RESPONSE", "DISCONNECTED"}
      BY <1>1, <2>1, <2>2, CallbackTargets
    <2>4. Unopened' /\ NotCompleted' /\ AtRest'
      BY <2>2, <2>3, ContactAssumption
      DEF Unopened, NotCompleted, AtRest, Resting, HumanStates,
          CallbackAction, Opened, States
    <2>5. HumanInCharge'
      <3>1. state' = "HUMAN_REVIEW" => CancelPendingAutomation
        BY <2>1, <2>3 DEF ApplyCallback
      <3>2. state' = "HUMAN_REVIEW" => Pending' = {} /\ action' = "none"
        BY <2>2, <3>1, CancelType, TypeParts DEF IInv, CallbackAction
      <3> QED
        BY <2>2, <2>3, <3>2 DEF HumanInCharge
    <2>6. Heeded'
      <3>1. CASE state' \in {"HUMAN_REVIEW", "RESPONSE_CONFIRMED"}
        BY <3>1 DEF Heeded, Resting, HumanStates
      <3>2. CASE state' \notin {"HUMAN_REVIEW", "RESPONSE_CONFIRMED"}
        <4>1. ~ Resting /\ i.kind \notin Answers
          BY <2>1, <2>3, <3>2 DEF Resting, HumanStates, Answers
        <4>2. ~ Said(Answers)'
          BY <1>1, <4>1, SaidAdds DEF IInv, Heeded
        <4> QED
          BY <4>2 DEF Heeded
      <3> QED
        BY <3>1, <3>2
    <2>7. ConsentStates'
      <3>1. i.kind = "CONSENT_GRANTED" => Said({"CONSENT_GRANTED"})'
        BY <1>1 DEF Said
      <3>2. i.kind = "LANGUAGE_SELECTED" => Said({"LANGUAGE_SELECTED"})'
        BY <1>1 DEF Said
      <3>3. /\ Said({"CONSENT_GRANTED"}) => Said({"CONSENT_GRANTED"})'
            /\ Said({"LANGUAGE_SELECTED"}) => Said({"LANGUAGE_SELECTED"})'
        BY <1>1, SaidGrows
      <3> QED
        BY <2>3, <3>1, <3>2, <3>3 DEF IInv, ConsentStates
    <2>8. ConsentAsked'
      <3>1. ResponsePrompts' \subseteq ResponsePrompts
        <4>1. CASE CancelPendingAutomation
          BY <4>1 DEF CancelPendingAutomation, ResponsePrompts
        <4>2. CASE CancelThenInsertOutbox("contact.language")
          <5>1. PICK m \in Fresh :
                  prompt' = [prompt EXCEPT ![m] = "contact.language"]
            BY <4>2 DEF CancelThenInsertOutbox
          <5> QED
            BY <5>1, TypeParts DEF IInv, ResponsePrompts, OutboxType
        <4> QED
          BY <2>1, <4>1, <4>2 DEF ApplyCallback
      <3> QED
        BY <1>1, <3>1, SaidGrows DEF IInv, ConsentAsked
    <2> QED
      BY <1>1, <2>4, <2>5, <2>6, <2>7, <2>8 DEF IInv
  <1> QED
    BY <1>2, <1>3, <1>4

LEMMA HumanSafe == ASSUME IInv, NEW op \in Operators, Human(op) PROVE IInv'
  <1>1. TypeOK' /\ Opened /\ received' = received
    BY HumanType DEF IInv, Human, OperatorTakeover, DashboardMutate
  <1>2. CASE FailToReview
    BY <1>1, <1>2, ReviewSafe
  <1>3. CASE HandOver("OPERATOR_TAKEOVER", op)
    BY <1>1, <1>3, HandOverSafe
  <1>4. CASE HandOver("ESCALATED", operator)
    BY <1>1, <1>4, HandOverSafe
  <1>5. CASE HandOver(state, op)
    BY <1>1, <1>5, HandOverSafe
  <1> QED
    BY <1>2, <1>3, <1>4, <1>5 DEF Human, OperatorTakeover, DashboardMutate

LEMMA DeliverSafe == ASSUME IInv, NEW i \in Inputs, Deliver(i) PROVE IInv'
  <1>1. /\ TypeOK'
        /\ Opened
        /\ i.kind \in DeliveryKinds
        /\ received' = received \cup {i}
        /\ received \subseteq received'
        /\ state' = nextContactState(i.kind)
    BY DeliverType DEF IInv, Deliver
  <1>2. /\ state' \in {state, "CONTACTING", "RESPONSE_CONFIRMED",
                       "HUMAN_REVIEW"}
        /\ state' = "CONTACTING" /\ state # "CONTACTING" =>
             i.kind = "RECONNECT" /\ state = "DISCONNECTED"
        /\ state' = "RESPONSE_CONFIRMED" /\ state # "RESPONSE_CONFIRMED" =>
             state \in {"AWAITING_RESPONSE", "PARTIAL_RESPONSE"}
        /\ i.kind \in {"REPLY", "HELP", "IMPACT"} =>
             state' \in {"RESPONSE_CONFIRMED", "HUMAN_REVIEW"}
    BY <1>1, DeliverTargets
  <1>3. prompt' = prompt
    BY DEF Deliver, CancelPendingAutomation, outbox
  <1>4. Opened' /\ NotCompleted'
    BY <1>1, <1>2, ContactAssumption
    DEF IInv, Opened, NotCompleted, States
  <1>5. ConsentAsked'
    BY <1>1, <1>3, NothingAsked DEF IInv
  <1>6. ConsentStates'
    <2>1. /\ Said({"CONSENT_GRANTED"}) => Said({"CONSENT_GRANTED"})'
          /\ Said({"LANGUAGE_SELECTED"}) => Said({"LANGUAGE_SELECTED"})'
      BY <1>1, SaidGrows
    <2> QED
      BY <1>2, <2>1 DEF IInv, ConsentStates
  <1>7. CASE state' = "HUMAN_REVIEW"
    <2>1. suppressed' = TRUE /\ action' = "none" /\ Pending' = {}
      BY <1>7, CancelType, TypeParts DEF IInv, Deliver
    <2> QED
      BY <1>1, <1>4, <1>5, <1>6, <2>1
      DEF IInv, Unopened, HumanInCharge, Heeded, AtRest, Resting
  <1>8. CASE state' # "HUMAN_REVIEW"
    <2>1. /\ suppressed' = suppressed
          /\ action' = action
          /\ Pending' = Pending
      BY <1>8, OutboxSame DEF Deliver
    <2>2. Resting => Resting'
      BY <1>2, <1>8, <2>1, Zenon DEF Resting, HumanStates
    <2>3. AtRest'
      BY <1>1, <2>1, <2>2 DEF IInv, AtRest
    <2>4. HumanInCharge'
      BY <1>2, <1>8, <2>1, Zenon DEF IInv, HumanInCharge
    <2>5. Heeded'
      <3>1. i.kind \in Answers => Resting'
        <4>1. i.kind \in Answers => i.kind \in {"REPLY", "HELP", "IMPACT"}
          BY <1>1 DEF Answers, DeliveryKinds
        <4>2. i.kind \in Answers => state' = "RESPONSE_CONFIRMED"
          BY <1>2, <1>8, <4>1
        <4> QED
          BY <4>2, Zenon DEF Resting
      <3> QED
        BY <1>1, <2>2, <3>1, SaidAdds DEF IInv, Heeded
    <2> QED
      BY <1>1, <1>4, <1>5, <1>6, <2>3, <2>4, <2>5 DEF IInv, Unopened
  <1> QED
    BY <1>7, <1>8

LEMMA ProcessDueSafe ==
    ASSUME IInv, NEW w \in Workers, ProcessDue(w) PROVE IInv'
  <1>1. TypeOK' /\ received' = received
    BY ProcessDueType DEF IInv, ProcessDue
  <1>2. CASE UNCHANGED <<sessionRow, outbox>>
    <2>1. prompt' = prompt /\ Pending' = Pending
      BY <1>2, OutboxSame DEF outbox
    <2> QED
      BY <1>1, <1>2, <2>1, QuietSafe
  <1>3. CASE ~ suppressed /\ action = "now" /\ FailToReview
    <2>1. Opened
      BY <1>3 DEF IInv, Unopened
    <2> QED
      BY <1>1, <1>3, <2>1, ReviewSafe
  <1>4. CASE ~ suppressed /\ DueState # None /\ AdvanceDue
    <2>1. /\ state' \in {"AWAITING_RESPONSE", "NO_RESPONSE", "ESCALATED",
                         "CONTACTING"}
          /\ state \in {"CONTACTING", "PARTIAL_RESPONSE",
                        "AWAITING_RESPONSE", "NO_RESPONSE", "DISCONNECTED"}
          /\ state' # "ESCALATED" => action' # "none"
          /\ ~ suppressed'
      BY <1>4, DueTargets DEF AdvanceDue
    <2>2. Opened' /\ NotCompleted' /\ HumanInCharge'
      BY <2>1, ContactAssumption
      DEF Opened, NotCompleted, HumanInCharge, States
    <2>3. AtRest'
      BY <2>1 DEF AtRest, Resting, HumanStates
    <2>4. Heeded'
      <3>1. ~ Resting
        BY <1>4, <2>1 DEF Resting, HumanStates
      <3> QED
        BY <1>1, <3>1 DEF IInv, Heeded, Said
    <2>5. Said({"CONSENT_GRANTED"})' /\ Said({"LANGUAGE_SELECTED"})'
      BY <1>1, <2>1 DEF IInv, ConsentStates, Said
    <2> QED
      BY <1>1, <2>2, <2>3, <2>4, <2>5
      DEF IInv, Unopened, ConsentStates, ConsentAsked
  <1> QED
    BY <1>2, <1>3, <1>4 DEF ProcessDue, IInv, TypeOK

(* A worker step other than ProcessDue, or one of time, leaves the session *)
(* as it is, except that its timer falls due.                              *)
LEMMA WorkerSafe ==
    ASSUME IInv, NEW w \in Workers, WorkerStep(w) \/ WorkerFault(w)
    PROVE  IInv'
  <1>1. CASE ProcessDue(w)
    BY <1>1, ProcessDueSafe
  <1>2. CASE ClaimDueSessions(w) \/ ReleaseLease(w) \/ DueFails(w)
    <2>1. UNCHANGED <<sessionRow, received, outbox>> /\ TypeOK'
      BY <1>2, TimersType DEF IInv, ClaimDueSessions, ReleaseLease, DueFails
    <2> QED
      BY <2>1, OutboxSame, QuietSafe DEF outbox
  <1>3. CASE Send(w) \/ SendUnavailable(w) \/ OutboxFails(w) \/ Crash(w)
    <2>1. UNCHANGED <<sessionRow, received, outbox>> /\ TypeOK'
      BY <1>3, SendType DEF IInv, Send, SendUnavailable, OutboxFails, Crash
    <2> QED
      BY <2>1, OutboxSame, QuietSafe DEF outbox
  <1>4. CASE ClaimDueOutbox(w)
    BY <1>4, ClaimDueOutboxType, QuietSafe DEF IInv, ClaimDueOutbox
  <1>5. CASE ReserveOutboxDelivery(w)
    BY <1>5, ReserveType, QuietSafe DEF IInv, ReserveOutboxDelivery
  <1>6. CASE Finalize(w)
    <2>1. UNCHANGED <<sessionRow, received, prompt>>
      BY <1>6 DEF Finalize, outbox
    <2> QED
      BY <1>6, <2>1, FinalizeType, QuietSafe DEF IInv
  <1>7. CASE ReleaseOutboxLease(w)
    BY <1>7, ReleaseOutboxType, QuietSafe DEF IInv, ReleaseOutboxLease
  <1> QED
    BY <1>1, <1>2, <1>3, <1>4, <1>5, <1>6, <1>7 DEF WorkerStep, WorkerFault

LEMMA TimeSafe ==
    ASSUME IInv,
           ActionDue \/ SessionLeaseExpires \/ \E m \in Messages : Clock(m)
    PROVE  IInv'
  <1>1. TypeOK' /\ Pending' = Pending
    BY TimeType DEF IInv
  <1>2. CASE ActionDue
    <2>1. /\ action = "later" /\ action' = "now"
          /\ UNCHANGED <<state, suppressed, received, prompt>>
      BY <1>2 DEF ActionDue, outbox
    <2>2. Opened /\ ~ suppressed
          /\ state \notin {"HUMAN_REVIEW", "OPERATOR_TAKEOVER"}
      BY <2>1 DEF IInv, Unopened, HumanInCharge
    <2>3. /\ Unopened' /\ NotCompleted' /\ AtRest'
          /\ HumanInCharge' /\ ConsentStates'
      BY <2>1, <2>2 DEF IInv, Unopened, NotCompleted, AtRest, HumanInCharge,
                        ConsentStates, Opened, Said
    <2>4. Heeded'
      BY <2>1, Zenon DEF IInv, Heeded, Said, Resting
    <2>5. ConsentAsked'
      BY <2>1, NothingAsked DEF IInv
    <2> QED
      BY <1>1, <2>3, <2>4, <2>5 DEF IInv
  <1>3. CASE SessionLeaseExpires \/ \E m \in Messages : Clock(m)
    <2>1. UNCHANGED <<sessionRow, received, prompt>>
      BY <1>3 DEF SessionLeaseExpires, Clock, MessageDue, DeadlinePasses,
                  MessageLeaseExpires, outbox
    <2> QED
      BY <1>1, <2>1, QuietSafe
  <1> QED
    BY <1>2, <1>3

LEMMA InvStep == IInv /\ [Next]_vars => IInv'
  <1> SUFFICES ASSUME IInv, [Next]_vars PROVE IInv'
    OBVIOUS
  <1>1. CASE UNCHANGED vars
    <2>1. TypeOK' /\ UNCHANGED <<sessionRow, received, outbox>>
      BY <1>1, TypeStep DEF IInv, vars
    <2> QED
      BY <2>1, OutboxSame, QuietSafe DEF outbox
  <1> QED
    BY <1>1, OpenSafe, HandleCallbackSafe, DeliverSafe, HumanSafe,
       WorkerSafe, TimeSafe
    DEF Next

LEMMA InitInv == Init => IInv
  <1> SUFFICES ASSUME Init PROVE IInv
    OBVIOUS
  <1>1. ~ Opened /\ ~ suppressed /\ action = "none" /\ received = {}
    BY DEF Init, Opened
  <1>2. state \notin States
    BY <1>1, ContactAssumption DEF Opened
  <1>3. ResponsePrompts = {}
    <2>1. \A m \in Messages : prompt[m] # "contact.response"
      BY ContactAssumption DEF Init
    <2> QED
      BY <2>1 DEF ResponsePrompts
  <1>4. Pending = {}
    BY DEF Init, Pending
  <1>5. TypeOK
    BY InitType
  <1>6. Unopened /\ NotCompleted /\ HumanInCharge /\ AtRest
    BY <1>1, <1>2, <1>4
    DEF Unopened, NotCompleted, HumanInCharge, AtRest, States
  <1>7. Heeded /\ ConsentStates /\ ConsentAsked
    BY <1>1, <1>2, <1>3
    DEF Heeded, ConsentStates, ConsentAsked, Said, States
  <1> QED
    BY <1>5, <1>6, <1>7 DEF IInv

LEMMA Inductive == Spec => []IInv
  BY InitInv, InvStep, PTL DEF Spec

-----------------------------------------------------------------------------
(* The properties.                                                         *)

(* Once a human has a session, by takeover, assignment, escalation from    *)
(* the dashboard, human review or a call for help, no timer is armed and   *)
(* no prompt waits, whatever callbacks and workers still have under way.   *)
THEOREM HumanStaysInCharge == Spec => []HumanInCharge
  <1>1. IInv => HumanInCharge
    BY DEF IInv
  <1> QED
    BY <1>1, Inductive, PTL

(* No safety question is queued before consent and language.               *)
THEOREM ConsentComesFirst == Spec => []ConsentFirst
  <1>1. IInv => ConsentFirst
    BY DEF IInv, ConsentAsked, ConsentFirst, Said, Got
  <1> QED
    BY <1>1, Inductive, PTL

(* The person's answer is never lost to a timer, a retry or a late worker. *)
THEOREM AnswersAreHeeded == Spec => []AnswerIsHeeded
  <1>1. IInv => AnswerIsHeeded
    BY DEF IInv, Heeded, Resting, AnswerIsHeeded, Said, Answers, Got
  <1> QED
    BY <1>1, Inductive, PTL

-----------------------------------------------------------------------------
(* What a step does to the outbox, as the action properties see it.        *)

AddsNone ==
    \A m \in Messages : status[m] = "absent" => status'[m] = "absent"

LEMMA SameEffect ==
    ASSUME UNCHANGED outbox
    PROVE  KeepsSettled /\ KeepsFence /\ AddsNone
  BY DEF outbox, KeepsSettled, KeepsFence, AddsNone

LEMMA InsertEffect ==
    ASSUME OutboxType, NEW p, InsertOutbox(p)
    PROVE  KeepsSettled /\ KeepsFence
  BY DEF OutboxType, InsertOutbox, Fresh, KeepsSettled, KeepsFence

LEMMA CancelEffect ==
    ASSUME OutboxType, CancelPendingAutomation
    PROVE  KeepsSettled /\ KeepsFence /\ AddsNone
  <1>1. \A m \in Messages :
          /\ m \in Pending <=> status[m] = "pending"
          /\ status'[m] = IF m \in Pending THEN "cancelled" ELSE status[m]
    BY DEF CancelPendingAutomation, Pending
  <1>2. live \subseteq Pending /\ Pending \subseteq Messages
    BY DEF OutboxType, Pending
  <1> QED
    BY <1>1, <1>2 DEF KeepsSettled, KeepsFence, AddsNone

LEMMA CancelInsertEffect ==
    ASSUME OutboxType, NEW p, CancelThenInsertOutbox(p)
    PROVE  KeepsSettled /\ KeepsFence
  <1>1. PICK f \in Fresh :
          status' = [m \in Messages |->
                        IF m = f THEN "pending"
                        ELSE IF m \in Pending THEN "cancelled"
                        ELSE status[m]]
    BY DEF CancelThenInsertOutbox
  <1>2. status[f] = "absent"
    BY DEF Fresh
  <1>3. \A m \in Messages :
          /\ status[m] \in {"delivered", "cancelled"} => status'[m] = status[m]
          /\ m \in Pending => status'[m] = "cancelled"
    BY <1>1, <1>2 DEF Pending
  <1>4. live \subseteq Pending /\ Pending \subseteq Messages
    BY DEF OutboxType, Pending
  <1> QED
    BY <1>3, <1>4 DEF KeepsSettled, KeepsFence

(* A worker takes a message over only without a running reservation.       *)
LEMMA ClaimEffect ==
    ASSUME TypeOK, NEW w \in Workers, ClaimDueOutbox(w)
    PROVE  KeepsSettled /\ KeepsFence /\ AddsNone
  <1>1. \A m \in live : m \in Messages /\ m \notin Claimable
    BY TypeParts DEF OutboxType, Claimable, Pending
  <1> QED
    BY <1>1 DEF ClaimDueOutbox, KeepsSettled, KeepsFence, AddsNone

LEMMA ReserveEffect ==
    ASSUME TypeOK, NEW w \in Workers, ReserveOutboxDelivery(w)
    PROVE  KeepsSettled /\ KeepsFence /\ AddsNone
  <1>1. KeepsSettled /\ AddsNone
    BY DEF ReserveOutboxDelivery, KeepsSettled, AddsNone
  <1>2. PICK m \in batch[w] :
          \/ /\ token[m] = None \/ m \notin live
             /\ token' = [token EXCEPT ![m] = w]
          \/ token' = token
    BY DEF ReserveOutboxDelivery
  <1>3. \A n \in live : n \in Messages /\ token[n] # None
    BY TypeParts DEF OutboxType, Pending
  <1>4. \A n \in live : token'[n] = token[n]
    BY <1>2, <1>3, TypeParts DEF OutboxType
  <1> QED
    BY <1>1, <1>4 DEF KeepsFence

(* A result is recorded by the worker whose token the message carries.     *)
LEMMA FinalizeEffect ==
    ASSUME TypeOK, NEW w \in Workers, Finalize(w)
    PROVE  KeepsSettled /\ KeepsFence /\ AddsNone
  <1>1. CASE ~ HoldsFence(w)
    BY <1>1, SameEffect DEF Finalize
  <1>2. CASE HoldsFence(w)
    <2> DEFINE m == current[w]
    <2>1. PICK s \in {"delivered", "pending"} :
            /\ status' = [status EXCEPT ![m] = s]
            /\ token' = [token EXCEPT ![m] = None]
            /\ wpc[w] \in {"sent", "failed"}
      BY <1>2 DEF Finalize
    <2>2. m \in Messages /\ status[m] = "pending" /\ token[m] = w
      BY <1>2 DEF HoldsFence, Pending
    <2>3. KeepsSettled /\ AddsNone
      BY <2>1, <2>2, TypeParts DEF OutboxType, KeepsSettled, AddsNone
    <2>4. \A n \in live : n # m => token'[n] = token[n]
      BY <2>1, TypeParts DEF OutboxType, Pending
    <2>5. KeepsFence
      BY <2>1, <2>2, <2>4 DEF KeepsFence
    <2> QED
      BY <2>3, <2>5
  <1> QED
    BY <1>1, <1>2

LEMMA ReleaseEffect ==
    ASSUME NEW w \in Workers, ReleaseOutboxLease(w)
    PROVE  KeepsSettled /\ KeepsFence /\ AddsNone
  BY DEF ReleaseOutboxLease, KeepsSettled, KeepsFence, AddsNone

LEMMA TimeEffect ==
    ASSUME ActionDue \/ SessionLeaseExpires \/ \E m \in Messages : Clock(m)
    PROVE  KeepsSettled /\ KeepsFence /\ AddsNone
  <1>1. UNCHANGED <<status, token>>
    BY DEF ActionDue, SessionLeaseExpires, Clock, MessageDue, DeadlinePasses,
           MessageLeaseExpires, outbox
  <1> QED
    BY <1>1 DEF KeepsSettled, KeepsFence, AddsNone

(* A worker outside ProcessDue never queues a prompt.                      *)
LEMMA WorkerEffect ==
    ASSUME TypeOK, NEW w \in Workers,
           WorkerStep(w) \/ WorkerFault(w), ~ ProcessDue(w)
    PROVE  KeepsSettled /\ KeepsFence /\ AddsNone
  <1>1. CASE \/ ClaimDueSessions(w) \/ ReleaseLease(w) \/ DueFails(w)
             \/ Send(w) \/ SendUnavailable(w) \/ OutboxFails(w) \/ Crash(w)
    BY <1>1, SameEffect
    DEF ClaimDueSessions, ReleaseLease, DueFails, Send, SendUnavailable,
        OutboxFails, Crash
  <1> QED
    BY <1>1, ClaimEffect, ReserveEffect, FinalizeEffect, ReleaseEffect
    DEF WorkerStep, WorkerFault

LEMMA ProcessDueEffect ==
    ASSUME TypeOK, NEW w \in Workers, ProcessDue(w)
    PROVE  /\ KeepsSettled /\ KeepsFence
           /\ action = "none" => AddsNone /\ action' = "none"
  <1>1. CASE UNCHANGED <<sessionRow, outbox>>
    BY <1>1, SameEffect DEF sessionRow
  <1>2. CASE action = "now" /\ (AdvanceDue \/ FailToReview)
    BY <1>2, TypeParts, SameEffect, InsertEffect, CancelEffect
    DEF AdvanceDue, FailToReview
  <1> QED
    BY <1>1, <1>2, TypeParts DEF ProcessDue, SessionType

(* A hand-over and a failed transition only cancel.                        *)
LEMMA HumanEffect ==
    ASSUME TypeOK, NEW op \in Operators, Human(op)
    PROVE  KeepsSettled /\ KeepsFence /\ AddsNone /\ action' = "none"
  BY TypeParts, CancelEffect
  DEF Human, OperatorTakeover, DashboardMutate, HandOver, FailToReview

LEMMA DeliverEffect ==
    ASSUME TypeOK, NEW i \in Inputs, Deliver(i)
    PROVE  /\ KeepsSettled /\ KeepsFence /\ AddsNone
           /\ action' \in {action, "none"}
  BY TypeParts, CancelEffect, SameEffect DEF Deliver

LEMMA HandleCallbackEffect ==
    ASSUME IInv, NEW i \in Inputs, HandleCallback(i)
    PROVE  /\ KeepsSettled /\ KeepsFence
           /\ action = "none" => AddsNone /\ action' = "none"
  <1>1. OutboxType
    BY TypeParts DEF IInv
  <1>2. CASE UNCHANGED <<sessionRow, outbox>>
    BY <1>2, SameEffect DEF sessionRow
  <1>3. CASE FailToReview
    BY <1>1, <1>3, CancelEffect DEF FailToReview
  <1>4. CASE /\ ~ CallbackIgnored /\ CallbackApproved(i.kind)
             /\ ApplyCallback(i.kind)
    <2>1. KeepsSettled /\ KeepsFence
      BY <1>1, <1>4, CancelEffect, CancelInsertEffect DEF ApplyCallback
    <2>2. CASE action = "none"
      <3>1. state \in {"HUMAN_REVIEW", "RESPONSE_CONFIRMED"}
        BY <1>4, <2>2 DEF IInv, AtRest, Resting, HumanStates,
                          CallbackIgnored, HandleCallback
      <3>2. /\ state' \in {"HUMAN_REVIEW", "RESPONSE_CONFIRMED"}
            /\ i.kind # "CONSENT_GRANTED"
        BY <1>4, <3>1, CallbackTargets
        DEF HandleCallback, CallbackApproved, ApplyCallback
      <3> QED
        BY <1>1, <1>4, <2>1, <3>2, CancelEffect
        DEF ApplyCallback, CallbackAction
    <2> QED
      BY <2>1, <2>2
  <1> QED
    BY <1>2, <1>3, <1>4 DEF HandleCallback

LEMMA StepEffect ==
    ASSUME IInv, [Next]_vars
    PROVE  /\ KeepsSettled /\ KeepsFence
           /\ Opened /\ action = "none" => AddsNone /\ action' = "none"
  <1>1. CASE UNCHANGED vars
    BY <1>1, SameEffect DEF vars, sessionRow
  <1>2. CASE Open
    BY <1>2, TypeParts, InsertEffect DEF IInv, Open
  <1>3. ASSUME NEW w \in Workers, WorkerStep(w) \/ WorkerFault(w),
               ~ ProcessDue(w)
        PROVE  /\ KeepsSettled /\ KeepsFence
               /\ Opened /\ action = "none" => AddsNone /\ action' = "none"
    <2>1. action' = action
      BY <1>3
      DEF WorkerStep, WorkerFault, ClaimDueSessions, ReleaseLease, DueFails,
          ClaimDueOutbox, ReserveOutboxDelivery, Send, SendUnavailable,
          Finalize, OutboxFails, ReleaseOutboxLease, Crash, sessionRow
    <2> QED
      BY <1>3, <2>1, WorkerEffect DEF IInv
  <1>4. CASE ActionDue \/ SessionLeaseExpires \/ \E m \in Messages : Clock(m)
    <2>1. action = "none" => action' = "none"
      BY <1>4 DEF ActionDue, SessionLeaseExpires, Clock, MessageDue,
                  DeadlinePasses, MessageLeaseExpires, sessionRow
    <2> QED
      BY <1>4, <2>1, TimeEffect
  <1> QED
    BY <1>1, <1>2, <1>3, <1>4, ProcessDueEffect, HumanEffect, DeliverEffect,
       HandleCallbackEffect
    DEF Next, IInv

(* Reservations fence the delivery: no second one while the first runs,    *)
(* and no late result once a prompt is settled.                            *)
THEOREM DeliveryStaysFenced == Spec => DeliveryIsFenced
  <1>1. IInv /\ [Next]_vars => [KeepsSettled /\ KeepsFence]_vars
    BY StepEffect
  <1> QED
    BY <1>1, Inductive, PTL DEF Spec, DeliveryIsFenced

(* Without an armed timer automation never starts again.                   *)
THEOREM RestStaysFinal == Spec => RestIsFinal
  <1>1. IInv /\ [Next]_vars =>
          [Opened /\ action = "none" => action' = "none" /\ AddsNone]_vars
    BY StepEffect
  <1> QED
    BY <1>1, Inductive, PTL DEF Spec, RestIsFinal, AddsNone

-----------------------------------------------------------------------------
(* Transitions.                                                            *)

Follows == Opened /\ state' # state => state' \in ALLOWED[state]

LEMMA ReviewFollows ==
    ASSUME TypeOK, state' = "HUMAN_REVIEW" PROVE Follows
  BY ReviewAllowed DEF TypeOK, Opened, Follows

LEMMA DeliverFollows ==
    ASSUME TypeOK, NEW i \in Inputs, Deliver(i) PROVE Follows
  <1>1. /\ state' \in {state, "CONTACTING", "RESPONSE_CONFIRMED",
                       "HUMAN_REVIEW"}
        /\ state' = "CONTACTING" /\ state # "CONTACTING" =>
             state = "DISCONNECTED"
        /\ state' = "RESPONSE_CONFIRMED" /\ state # "RESPONSE_CONFIRMED" =>
             state \in {"AWAITING_RESPONSE", "PARTIAL_RESPONSE"}
    BY DeliverTargets DEF Deliver
  <1>2. "CONTACTING" \in ALLOWED["DISCONNECTED"]
    BY DEF ALLOWED, States, HumanStates
  <1>3. /\ "RESPONSE_CONFIRMED" \in ALLOWED["AWAITING_RESPONSE"]
        /\ "RESPONSE_CONFIRMED" \in ALLOWED["PARTIAL_RESPONSE"]
    BY DEF ALLOWED, States, HumanStates
  <1> QED
    BY <1>1, <1>2, <1>3, ReviewFollows DEF Follows

LEMMA StepFollows ==
    ASSUME TypeOK, [Next]_vars PROVE Follows
  <1>1. CASE state' = state
    BY <1>1 DEF Follows
  <1>2. ASSUME NEW i \in Inputs, HandleCallback(i) PROVE Follows
    <2>1. \/ state' = state
          \/ state' = "HUMAN_REVIEW"
          \/ CallbackApproved(i.kind) /\ ApplyCallback(i.kind)
      BY <1>2 DEF HandleCallback, FailToReview, sessionRow
    <2> QED
      BY <1>1, <2>1, ReviewFollows
      DEF CallbackApproved, ApplyCallback, Approved, Follows
  <1>3. ASSUME NEW op \in Operators, Human(op) PROVE Follows
    BY <1>3, ReviewFollows
    DEF Human, OperatorTakeover, DashboardMutate, HumanMay, HandOver,
        FailToReview, Approved, Follows
  <1>4. ASSUME NEW w \in Workers, ProcessDue(w) PROVE Follows
    <2>1. \/ state' = state
          \/ state' = "HUMAN_REVIEW"
          \/ /\ Approved(state, DueState, "SYSTEM", TRUE, attempts)
             /\ state' = DueState
      BY <1>4 DEF ProcessDue, FailToReview, AdvanceDue, sessionRow
    <2> QED
      BY <1>1, <2>1, ReviewFollows DEF Approved, Follows
  <1>5. ASSUME NEW w \in Workers, WorkerStep(w) \/ WorkerFault(w),
               ~ ProcessDue(w)
        PROVE  state' = state
    BY <1>5
    DEF WorkerStep, WorkerFault, ClaimDueSessions, ReleaseLease, DueFails,
        ClaimDueOutbox, ReserveOutboxDelivery, Send, SendUnavailable,
        Finalize, OutboxFails, ReleaseOutboxLease, Crash, sessionRow
  <1>6. CASE \/ UNCHANGED vars
             \/ ActionDue \/ SessionLeaseExpires
             \/ \E m \in Messages : Clock(m)
    <2>1. state' = state
      BY <1>6 DEF ActionDue, SessionLeaseExpires, Clock, MessageDue,
                  DeadlinePasses, MessageLeaseExpires, sessionRow, vars
    <2> QED
      BY <1>1, <2>1
  <1>7. CASE Open
    BY <1>7 DEF Open, Follows
  <1> QED
    BY <1>1, <1>2, <1>3, <1>4, <1>5, <1>6, <1>7, DeliverFollows DEF Next

(* Every change of state is a transition of the contract, although the     *)
(* dashboard, the Field Companion and failToReview write the row without   *)
(* its approval.                                                           *)
THEOREM ProtocolFollowed == Spec => ProtocolIsFollowed
  <1>1. TypeOK /\ [Next]_vars => [Follows]_vars
    BY StepFollows
  <1> QED
    BY <1>1, TypeCorrect, PTL DEF Spec, ProtocolIsFollowed, Follows

-----------------------------------------------------------------------------
(* Questions and what pays for them.                                       *)

(* Until it asks, a session in these states has a question in hand: the    *)
(* first one, a retry, or one that follows up a partial answer.            *)
InHand(s) == IF s \in {"CONSENT_PENDING", "LANGUAGE_SELECTION", "CONTACTING",
                       "PARTIAL_RESPONSE"}
             THEN 1 ELSE 0

(* What was asked or is in hand is paid for.                               *)
Budgeted ==
    /\ IsFiniteSet(ResponsePrompts) /\ IsFiniteSet(received)
    /\ ~ Opened => ResponsePrompts = {}
    /\ Cardinality(ResponsePrompts) + InHand(state) =<
          attempts + Cardinality(Got("PARTIAL_RESPONSE")) + Cardinality(Got("RECONNECT"))

(* The figures are numbers.                                                *)
LEMMA Figures ==
    ASSUME TypeOK, Budgeted
    PROVE  /\ attempts \in Nat
           /\ Cardinality(ResponsePrompts) \in Nat
           /\ IsFiniteSet(Got("PARTIAL_RESPONSE"))
           /\ IsFiniteSet(Got("RECONNECT"))
           /\ Cardinality(Got("PARTIAL_RESPONSE")) \in Nat
           /\ Cardinality(Got("RECONNECT")) \in Nat
           /\ \A s : InHand(s) \in {0, 1}
  <1>1. \A k : Got(k) \in SUBSET received
    BY DEF Got
  <1>2. \A k : IsFiniteSet(Got(k))
    BY <1>1, FS_Subset DEF Budgeted
  <1> QED
    BY <1>2, FS_CardinalityType, AttemptsAssumption DEF Budgeted, TypeOK, InHand

(* An input is counted once, under its kind.                               *)
LEMMA OneMore ==
    ASSUME TypeOK, Budgeted, NEW i, i \notin received, received' = received \cup {i}, NEW k,
           IsFiniteSet(Got(k))
    PROVE  /\ IsFiniteSet(received')
           /\ Cardinality(Got(k)') = IF i.kind = k THEN Cardinality(Got(k)) + 1
                                                   ELSE Cardinality(Got(k))
  <1>1. IsFiniteSet(received')
    BY FS_AddElement DEF Budgeted
  <1>2. CASE i.kind = k
    <2>1. Got(k)' = Got(k) \cup {i} /\ i \notin Got(k)
      BY <1>2 DEF Got
    <2> QED
      BY <1>1, <1>2, <2>1, FS_AddElement
  <1>3. CASE i.kind # k
    <2>1. Got(k)' = Got(k)
      BY <1>3 DEF Got
    <2> QED
      BY <1>1, <1>3, <2>1
  <1> QED
    BY <1>2, <1>3

(* A step that asks nothing, and takes nothing in hand it has not paid.    *)
LEMMA NoQuestion ==
    ASSUME TypeOK, TypeOK', Budgeted, ResponsePrompts' \subseteq ResponsePrompts, Opened',
           attempts' >= attempts,
           \/ received' = received /\ InHand(state') - InHand(state) =< attempts' - attempts
           \/ \E i \in Inputs :
                /\ i \notin received /\ received' = received \cup {i}
                /\ \/ InHand(state') =< InHand(state)
                   \/ i.kind \in {"PARTIAL_RESPONSE", "RECONNECT"}
    PROVE  Budgeted'
  <1>1. /\ IsFiniteSet(ResponsePrompts')
        /\ Cardinality(ResponsePrompts') \in Nat
        /\ Cardinality(ResponsePrompts') =< Cardinality(ResponsePrompts)
    BY FS_Subset, FS_CardinalityType DEF Budgeted
  <1>2. attempts' \in Nat
    BY AttemptsAssumption DEF TypeOK
  <1>3. CASE received' = received /\ InHand(state') - InHand(state) =< attempts' - attempts
    <2>1. \A k : Got(k)' = Got(k)
      BY <1>3 DEF Got
    <2>2. Cardinality(Got("PARTIAL_RESPONSE")') = Cardinality(Got("PARTIAL_RESPONSE"))
      BY <2>1
    <2>3. Cardinality(Got("RECONNECT")') = Cardinality(Got("RECONNECT"))
      BY <2>1
    <2> QED
      BY <1>1, <1>2, <1>3, <2>2, <2>3, Figures DEF Budgeted
  <1>4. ASSUME NEW i \in Inputs, i \notin received, received' = received \cup {i},
               InHand(state') =< InHand(state) \/ i.kind \in {"PARTIAL_RESPONSE", "RECONNECT"}
        PROVE  Budgeted'
    <2>1. IsFiniteSet(received')
      BY <1>4, OneMore, Figures
    <2>2. Cardinality(Got("PARTIAL_RESPONSE")') =
             IF i.kind = "PARTIAL_RESPONSE" THEN Cardinality(Got("PARTIAL_RESPONSE")) + 1
                                            ELSE Cardinality(Got("PARTIAL_RESPONSE"))
      BY <1>4, OneMore, Figures
    <2>3. Cardinality(Got("RECONNECT")') =
             IF i.kind = "RECONNECT" THEN Cardinality(Got("RECONNECT")) + 1
                                     ELSE Cardinality(Got("RECONNECT"))
      BY <1>4, OneMore, Figures
    <2> QED
      BY <1>1, <1>2, <1>4, <2>1, <2>2, <2>3, Figures DEF Budgeted
  <1> QED
    BY <1>3, <1>4

(* A question that is asked was in hand.                                   *)
LEMMA OneQuestion ==
    ASSUME TypeOK, TypeOK', Budgeted, NEW m, ResponsePrompts' \subseteq ResponsePrompts \cup {m},
           Opened', attempts' = attempts, received' = received,
           InHand(state) = 1, InHand(state') = 0
    PROVE  Budgeted'
  <1>1. /\ IsFiniteSet(ResponsePrompts \cup {m})
        /\ Cardinality(ResponsePrompts \cup {m}) =< Cardinality(ResponsePrompts) + 1
    <2>1. IsFiniteSet(ResponsePrompts) /\ Cardinality(ResponsePrompts) \in Nat
      BY Figures DEF Budgeted
    <2>2. /\ IsFiniteSet(ResponsePrompts \cup {m})
          /\ Cardinality(ResponsePrompts \cup {m}) =
                IF m \in ResponsePrompts THEN Cardinality(ResponsePrompts)
                ELSE Cardinality(ResponsePrompts) + 1
      BY <2>1, FS_AddElement, Zenon
    <2> QED
      BY <2>1, <2>2
  <1>2. /\ IsFiniteSet(ResponsePrompts')
        /\ Cardinality(ResponsePrompts') \in Nat
        /\ Cardinality(ResponsePrompts') =< Cardinality(ResponsePrompts \cup {m})
        /\ Cardinality(ResponsePrompts \cup {m}) \in Nat
    BY <1>1, FS_Subset, FS_CardinalityType
  <1>3. \A k : Got(k)' = Got(k)
    BY DEF Got
  <1>4. /\ Cardinality(Got("PARTIAL_RESPONSE")') = Cardinality(Got("PARTIAL_RESPONSE"))
        /\ Cardinality(Got("RECONNECT")') = Cardinality(Got("RECONNECT"))
    BY <1>3
  <1> QED
    BY <1>1, <1>2, <1>4, Figures DEF Budgeted

(* What each statement on the outbox asks.                                 *)
LEMMA InsertAsks ==
    ASSUME OutboxType, NEW p, InsertOutbox(p) \/ CancelThenInsertOutbox(p)
    PROVE  /\ p # "contact.response" => ResponsePrompts' \subseteq ResponsePrompts
           /\ \E m \in Messages : ResponsePrompts' \subseteq ResponsePrompts \cup {m}
  <1>1. PICK m \in Messages : prompt' = [prompt EXCEPT ![m] = p]
    BY DEF InsertOutbox, CancelThenInsertOutbox, Fresh
  <1> QED
    BY <1>1 DEF OutboxType, ResponsePrompts

(* A step that leaves session, inputs and prompts alone.                   *)
LEMMA QuietBudget ==
    ASSUME Budgeted, UNCHANGED <<state, attempts, received, prompt>>
    PROVE  Budgeted'
  BY DEF Budgeted, ResponsePrompts, Got, Opened

LEMMA OpenBudget == ASSUME IInv, Budgeted, Open PROVE Budgeted'
  <1>1. /\ state' = "CONSENT_PENDING" /\ attempts' = 1 /\ received' = received /\ ~ Opened
        /\ InsertOutbox("contact.consent")
    BY DEF Open
  <1>2. ResponsePrompts' = {}
    BY <1>1, InsertAsks, TypeParts DEF IInv, Budgeted
  <1>3. Opened'
    BY <1>1, ContactAssumption DEF Opened, States
  <1>4. \A k : Got(k)' = Got(k)
    BY <1>1 DEF Got
  <1>5. /\ Cardinality(Got("PARTIAL_RESPONSE")') \in Nat
        /\ Cardinality(Got("RECONNECT")') \in Nat
    BY <1>4, Figures DEF IInv
  <1>6. IsFiniteSet(ResponsePrompts') /\ Cardinality(ResponsePrompts') = 0
    BY <1>2, FS_EmptySet
  <1> QED
    BY <1>1, <1>3, <1>5, <1>6 DEF Budgeted, InHand

LEMMA CallbackBudget ==
    ASSUME IInv, Budgeted, NEW i \in Inputs, HandleCallback(i) PROVE Budgeted'
  <1>1. /\ TypeOK /\ TypeOK' /\ OutboxType
        /\ i \notin received /\ received' = received \cup {i}
        /\ i.kind \in CallbackKinds
        /\ state # None
    BY HandleCallbackType, TypeParts DEF IInv, HandleCallback, Opened
  <1>2. CASE CallbackIgnored
    <2>1. state' = state /\ attempts' = attempts /\ prompt' = prompt
      BY <1>2 DEF HandleCallback, sessionRow, outbox
    <2> QED
      BY <1>1, <2>1, NoQuestion, Figures DEF ResponsePrompts, Opened
  <1>3. CASE FailToReview
    <2>1. state' = "HUMAN_REVIEW" /\ attempts' = attempts /\ prompt' = prompt
      BY <1>3 DEF FailToReview, CancelPendingAutomation
    <2>2. Opened' /\ InHand(state') = 0
      BY <2>1, ContactAssumption DEF Opened, States, InHand
    <2> QED
      BY <1>1, <2>1, <2>2, NoQuestion, Figures DEF ResponsePrompts
  <1>4. CASE CallbackApproved(i.kind) /\ ApplyCallback(i.kind)
    <2>1. /\ state' = callbackRequestedState(i.kind) /\ state' # None
          /\ attempts' = attempts
      BY <1>4 DEF ApplyCallback, CallbackApproved
    <2>2. ResponsePrompts' \subseteq ResponsePrompts
      <3>1. CASE CancelPendingAutomation
        BY <3>1 DEF CancelPendingAutomation, ResponsePrompts
      <3>2. CASE CancelThenInsertOutbox("contact.language")
        BY <1>1, <3>2, InsertAsks
      <3> QED
        BY <1>4, <3>1, <3>2 DEF ApplyCallback
    <2>3. InHand(state') =< InHand(state) \/ i.kind = "PARTIAL_RESPONSE"
      <3>1. state' \in {"HUMAN_REVIEW", "DISCONNECTED", "RESPONSE_CONFIRMED"}
              => InHand(state') = 0
        BY DEF InHand
      <3>2. state' = "LANGUAGE_SELECTION" => state = "CONSENT_PENDING"
        BY <1>1, <2>1, CallbackTargets
      <3>3. state' = "CONTACTING" => state = "LANGUAGE_SELECTION"
        BY <1>1, <2>1, CallbackTargets
      <3>4. state' = "PARTIAL_RESPONSE" => i.kind = "PARTIAL_RESPONSE"
        BY <1>1, <2>1 DEF callbackRequestedState, CallbackKinds
      <3>5. state' \in {"HUMAN_REVIEW", "LANGUAGE_SELECTION", "CONTACTING",
                        "PARTIAL_RESPONSE", "DISCONNECTED", "RESPONSE_CONFIRMED"}
        BY <1>1, <2>1, CallbackTargets
      <3> QED
        BY <3>1, <3>2, <3>3, <3>4, <3>5 DEF InHand
    <2> QED
      BY <1>1, <2>1, <2>2, <2>3, NoQuestion, Figures DEF Opened
  <1> QED
    BY <1>2, <1>3, <1>4 DEF HandleCallback

LEMMA HumanBudget == ASSUME IInv, Budgeted, NEW op \in Operators, Human(op) PROVE Budgeted'
  <1>1. TypeOK /\ TypeOK' /\ Opened /\ received' = received
    BY HumanType DEF IInv, Human, OperatorTakeover, DashboardMutate
  <1>2. /\ state' \in {state, "OPERATOR_TAKEOVER", "ESCALATED", "HUMAN_REVIEW"}
        /\ attempts' = attempts /\ prompt' = prompt
    BY DEF Human, OperatorTakeover, DashboardMutate, HandOver, FailToReview,
           CancelPendingAutomation
  <1>3. Opened'
    BY <1>1, <1>2, ContactAssumption DEF Opened, States
  <1>4. state' = state \/ InHand(state') = 0
    BY <1>2 DEF InHand
  <1> QED
    BY <1>1, <1>2, <1>3, <1>4, NoQuestion, Figures DEF ResponsePrompts

LEMMA DeliverBudget == ASSUME IInv, Budgeted, NEW i \in Inputs, Deliver(i) PROVE Budgeted'
  <1>1. /\ TypeOK /\ TypeOK' /\ Opened
        /\ i.kind \in DeliveryKinds
        /\ i \notin received /\ received' = received \cup {i}
        /\ state' = nextContactState(i.kind)
        /\ attempts' = attempts
    BY DeliverType DEF IInv, Deliver
  <1>2. prompt' = prompt
    BY DEF Deliver, CancelPendingAutomation, outbox
  <1>3. /\ state' \in {state, "CONTACTING", "RESPONSE_CONFIRMED", "HUMAN_REVIEW"}
        /\ state' = "CONTACTING" /\ state # "CONTACTING" => i.kind = "RECONNECT"
    BY <1>1, DeliverTargets
  <1>4. Opened'
    BY <1>1, <1>3, ContactAssumption DEF Opened, States
  <1>5. InHand(state') =< InHand(state) \/ i.kind = "RECONNECT"
    BY <1>3 DEF InHand
  <1> QED
    BY <1>1, <1>2, <1>4, <1>5, NoQuestion, Figures DEF ResponsePrompts

LEMMA ProcessDueBudget == ASSUME IInv, Budgeted, NEW w \in Workers, ProcessDue(w) PROVE Budgeted'
  <1>1. /\ TypeOK /\ TypeOK' /\ OutboxType /\ received' = received
        /\ attempts \in Nat
    BY ProcessDueType, TypeParts, Figures DEF IInv, ProcessDue
  <1>2. CASE UNCHANGED <<sessionRow, outbox>>
    BY <1>1, <1>2, QuietBudget DEF sessionRow, outbox
  <1>3. CASE FailToReview
    <2>1. state' = "HUMAN_REVIEW" /\ attempts' = attempts /\ prompt' = prompt
      BY <1>3 DEF FailToReview, CancelPendingAutomation
    <2>2. Opened' /\ InHand(state') = 0
      BY <2>1, ContactAssumption DEF Opened, States, InHand
    <2> QED
      BY <1>1, <2>1, <2>2, NoQuestion, Figures DEF ResponsePrompts
  <1>4. CASE DueState # None /\ AdvanceDue
    <2>1. state' = DueState /\ Opened'
      BY <1>4 DEF AdvanceDue, Opened
    <2>2. CASE state' = "AWAITING_RESPONSE"
      <3>1. InsertOutbox("contact.response") /\ attempts' = attempts
        BY <1>4, <2>2 DEF AdvanceDue
      <3>2. state \in {"CONTACTING", "PARTIAL_RESPONSE"}
        BY <2>1, <2>2, ContactAssumption DEF DueState, States
      <3>3. InHand(state) = 1 /\ InHand(state') = 0
        BY <2>2, <3>2 DEF InHand
      <3>4. PICK m \in Messages : ResponsePrompts' \subseteq ResponsePrompts \cup {m}
        BY <1>1, <3>1, InsertAsks
      <3> QED
        BY <1>1, <2>1, <3>1, <3>3, <3>4, OneQuestion
    <2>3. CASE state' # "AWAITING_RESPONSE"
      <3>1. /\ prompt' = prompt
            /\ attempts' = IF state' = "CONTACTING" THEN attempts + 1 ELSE attempts
        BY <1>4, <2>3 DEF AdvanceDue, outbox
      <3>2. state' \in {"NO_RESPONSE", "ESCALATED", "CONTACTING"}
        BY <1>4, <2>1, <2>3, DueTargets
      <3>3. InHand(state') - InHand(state) =< attempts' - attempts
        BY <1>1, <3>1, <3>2 DEF InHand
      <3> QED
        BY <1>1, <2>1, <3>1, <3>3, NoQuestion DEF ResponsePrompts
    <2> QED
      BY <2>2, <2>3
  <1> QED
    BY <1>2, <1>3, <1>4 DEF ProcessDue

LEMMA BudgetStep == IInv /\ Budgeted /\ [Next]_vars => Budgeted'
  <1> SUFFICES ASSUME IInv, Budgeted, [Next]_vars PROVE Budgeted'
    OBVIOUS
  <1>1. CASE UNCHANGED vars
    BY <1>1, QuietBudget DEF vars, sessionRow, outbox
  <1>2. ASSUME NEW w \in Workers, WorkerStep(w) \/ WorkerFault(w), ~ ProcessDue(w)
        PROVE  Budgeted'
    <2>1. UNCHANGED <<sessionRow, received, prompt>>
      BY <1>2 DEF WorkerStep, WorkerFault, ClaimDueSessions, ReleaseLease, ClaimDueOutbox,
                  ReserveOutboxDelivery, Send, Finalize, ReleaseOutboxLease, DueFails,
                  SendUnavailable, OutboxFails, Crash, outbox
    <2> QED
      BY <2>1, QuietBudget DEF sessionRow
  <1>3. CASE ActionDue \/ SessionLeaseExpires \/ \E m \in Messages : Clock(m)
    <2>1. UNCHANGED <<state, attempts, received, prompt>>
      BY <1>3 DEF ActionDue, SessionLeaseExpires, Clock, MessageDue, DeadlinePasses,
                  MessageLeaseExpires, outbox, sessionRow
    <2> QED
      BY <2>1, QuietBudget
  <1> QED
    BY <1>1, <1>2, <1>3, OpenBudget, CallbackBudget, DeliverBudget, HumanBudget,
       ProcessDueBudget
    DEF Next

LEMMA InitBudget == Init => Budgeted
  <1> SUFFICES ASSUME Init PROVE Budgeted
    OBVIOUS
  <1>1. ResponsePrompts = {}
    <2>1. \A m \in Messages : prompt[m] # "contact.response"
      BY ContactAssumption DEF Init
    <2> QED
      BY <2>1 DEF ResponsePrompts
  <1>2. received = {} /\ attempts = 0 /\ state = None
    BY DEF Init
  <1>3. Got("PARTIAL_RESPONSE") = {} /\ Got("RECONNECT") = {}
    BY <1>2 DEF Got
  <1>4. InHand(state) = 0
    BY <1>2, ContactAssumption DEF InHand, States
  <1>5. IsFiniteSet({}) /\ Cardinality({}) = 0
    BY FS_EmptySet
  <1> QED
    BY <1>1, <1>2, <1>3, <1>4, <1>5 DEF Budgeted

(* No safety question is asked that an attempt, a partial answer or a      *)
(* reconnection does not account for, in processDue and whatever else      *)
(* moves the session.                                                      *)
THEOREM QuestionsStayAccounted == Spec => []QuestionsAccounted
  <1>1. TypeOK /\ Budgeted => QuestionsAccounted
    BY Figures DEF Budgeted, QuestionsAccounted
  <1>2. IInv => TypeOK
    BY DEF IInv
  <1> QED
    BY <1>1, <1>2, InitBudget, BudgetStep, Inductive, PTL DEF Spec
=============================================================================
