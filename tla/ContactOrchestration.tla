------------------------ MODULE ContactOrchestration ------------------------
(***************************************************************************)
(* One contact session: the row of ros_eye_contact_sessions, its prompts   *)
(* in ros_eye_contact_outbox and everybody who writes them: callbacks and  *)
(* takeovers of ContactOrchestrationService, the dashboard's mutate, the   *)
(* Field Companion's deliver, and the contact workers, which run due       *)
(* timers and deliver prompts under leases and delivery tokens.            *)
(*                                                                         *)
(* Each transaction locks the session row and is one action.  Time is what *)
(* its comparisons find: the next action is set and "later" or already     *)
(* "now", a lease or a delivery deadline still runs, a prompt is due.      *)
(***************************************************************************)
EXTENDS HumanContactProtocol, FiniteSets

CONSTANTS
    Workers,    \* contact workers (ROS_CONTACT_WORKER_ID)
    Operators,  \* human operators
    Inputs,     \* records [id, kind]: what the person's side sends
    Messages,   \* ids of outbox messages, a bound on the prompts
    None        \* SQL NULL

CallbackKinds ==
    {"CONSENT_GRANTED", "CONSENT_DECLINED", "LANGUAGE_SELECTED",
     "PARTIAL_RESPONSE", "RESPONSE", "CONTRADICTORY", "DISCONNECTED",
     "CHANNEL_FAILURE", "ACCESSIBILITY_UNAVAILABLE"}

(* Operations of the Field Companion that bypass the service.  REPLY is a  *)
(* plain structured reply, HELP one that asks for help or contradicts      *)
(* itself, IMPACT device metadata showing a possible impact or rollover.   *)
DeliveryKinds == {"RECONNECT", "DEVICE_METADATA", "IMPACT", "REPLY", "HELP"}

ASSUME ContactAssumption ==
    /\ Messages \subseteq Nat
    /\ None \notin Workers
    /\ None \notin Operators
    /\ None \notin Messages
    /\ None \notin States
    /\ None # "contact.response"
    /\ \A i \in Inputs : i.kind \in CallbackKinds \cup DeliveryKinds

VARIABLES
    state,         \* state, None before the session is opened
    attempts,      \* attempt_count
    suppressed,    \* automation_suppressed
    operator,      \* assigned_operator_id
    action,        \* next_action_at: "none", "later" or "now"
    sessionOwner,  \* lease_owner
    sessionLeased, \* lease_expires_at lies ahead
    received,      \* inputs taken: the inbox and the idempotency records
    status,        \* of a message: absent, pending, delivered, cancelled
    prompt,        \* its prompt_id
    owner,         \* its lease_owner
    leased,        \* messages whose lease_expires_at lies ahead
    token,         \* delivery_token, named by the worker that made it
    live,          \* messages whose delivery_deadline_at lies ahead
    due,           \* messages whose available_at has come
    wpc,           \* where a worker is in its cycle
    batch,         \* messages it claimed and has yet to handle
    current        \* the message it is handling

sessionRow == <<state, attempts, suppressed, operator, action>>
lease      == <<sessionOwner, sessionLeased>>
outbox     == <<status, prompt, owner, leased, token, live, due>>
worker     == <<wpc, batch, current>>
vars       == <<sessionRow, lease, received, outbox, worker>>

Opened    == state # None
Pending   == {m \in Messages : status[m] = "pending"}
Got(kind) == {i \in received : i.kind = kind}

Init ==
    /\ state = None
    /\ attempts = 0
    /\ suppressed = FALSE
    /\ operator = None
    /\ action = "none"
    /\ sessionOwner = None
    /\ sessionLeased = FALSE
    /\ received = {}
    /\ status = [m \in Messages |-> "absent"]
    /\ prompt = [m \in Messages |-> None]
    /\ owner = [m \in Messages |-> None]
    /\ leased = {}
    /\ token = [m \in Messages |-> None]
    /\ live = {}
    /\ due = {}
    /\ wpc = [w \in Workers |-> "timers"]
    /\ batch = [w \in Workers |-> {}]
    /\ current = [w \in Workers |-> None]

-----------------------------------------------------------------------------
(* The statements the transactions are made of.                            *)

Fresh == {m \in Messages : /\ status[m] = "absent"
                           /\ \A n \in Messages : n < m => status[n] # "absent"}

(* insertOutboxIfAbsent: a prompt's key holds the session version, which   *)
(* has just advanced, so the key is new.                                   *)
InsertOutbox(promptId) ==
    \E m \in Fresh :
        /\ status' = [status EXCEPT ![m] = "pending"]
        /\ prompt' = [prompt EXCEPT ![m] = promptId]
        /\ due' = due \cup {m}
        /\ UNCHANGED <<owner, leased, token, live>>

CancelColumns ==
    /\ owner' = [m \in Messages |-> IF m \in Pending THEN None ELSE owner[m]]
    /\ token' = [m \in Messages |-> IF m \in Pending THEN None ELSE token[m]]
    /\ leased' = leased \ Pending
    /\ live' = live \ Pending

CancelPendingAutomation ==
    /\ CancelColumns
    /\ status' = [m \in Messages |->
                     IF m \in Pending THEN "cancelled" ELSE status[m]]
    /\ due' = due \ Pending
    /\ UNCHANGED prompt

CancelThenInsertOutbox(promptId) ==
    \E f \in Fresh :
        /\ CancelColumns
        /\ status' = [m \in Messages |->
                         IF m = f THEN "pending"
                         ELSE IF m \in Pending THEN "cancelled"
                         ELSE status[m]]
        /\ due' = (due \ Pending) \cup {f}
        /\ prompt' = [prompt EXCEPT ![f] = promptId]

ClearLease ==
    /\ sessionOwner' = None
    /\ sessionLeased' = FALSE

(* failToReview: whatever the protocol decides about it, the session goes  *)
(* to HUMAN_REVIEW.  Suppression and lease stay as they are.               *)
FailToReview ==
    /\ state' = "HUMAN_REVIEW"
    /\ action' = "none"
    /\ CancelPendingAutomation
    /\ UNCHANGED <<attempts, suppressed, operator>>

-----------------------------------------------------------------------------
(* The service: open, handleCallback, operatorTakeover.                    *)

Open ==
    /\ ~ Opened
    /\ state' = "CONSENT_PENDING"
    /\ attempts' = 1
    /\ action' = "later"
    /\ InsertOutbox("contact.consent")
    /\ UNCHANGED <<suppressed, operator, lease, received, worker>>

callbackRequestedState(kind) ==
    CASE kind = "CONSENT_GRANTED" ->
           IF state = "CONSENT_PENDING" THEN "LANGUAGE_SELECTION" ELSE None
      [] kind = "CONSENT_DECLINED" ->
           IF state = "CONSENT_PENDING" THEN "HUMAN_REVIEW" ELSE None
      [] kind = "LANGUAGE_SELECTED" ->
           IF state = "LANGUAGE_SELECTION" THEN "CONTACTING" ELSE None
      [] kind = "PARTIAL_RESPONSE" ->
           IF state = "AWAITING_RESPONSE" THEN "PARTIAL_RESPONSE" ELSE None
      [] kind = "DISCONNECTED" ->
           IF state \in {"AWAITING_RESPONSE", "PARTIAL_RESPONSE"}
             THEN "DISCONNECTED" ELSE None
      [] kind = "RESPONSE" ->
           IF state \in {"AWAITING_RESPONSE", "PARTIAL_RESPONSE"}
             THEN "RESPONSE_CONFIRMED" ELSE None
      [] OTHER -> "HUMAN_REVIEW"

(* A mutant: an answer that comes too late for its state is dropped.       *)
CallbackIgnored_LateAnswer ==
    \/ suppressed
    \/ state \in {"OPERATOR_TAKEOVER", "ESCALATED", "COMPLETED",
                  "NO_RESPONSE", "CONTACTING"}

(* A mutant: the state alone decides, although an assignment suppresses    *)
(* automation in any state.                                                *)
CallbackIgnored_StateOnly ==
    state \in {"OPERATOR_TAKEOVER", "ESCALATED", "COMPLETED"}

(* A callback to a session nobody automates any more is only noted.        *)
CallbackIgnored ==
    suppressed \/ state \in {"OPERATOR_TAKEOVER", "ESCALATED", "COMPLETED"}

CallbackApproved(kind) ==
    /\ callbackRequestedState(kind) # None
    /\ Approved(state, callbackRequestedState(kind), "SYSTEM",
                kind \notin {"CHANNEL_FAILURE", "ACCESSIBILITY_UNAVAILABLE"},
                attempts)

(* callbackSession: the next action after a callback.                      *)
CallbackAction(next) ==
    CASE next \in {"LANGUAGE_SELECTION", "PARTIAL_RESPONSE", "DISCONNECTED"} ->
           "later"
      [] next = "CONTACTING" -> "now"
      [] OTHER -> "none"

ApplyCallback(kind) ==
    /\ state' = callbackRequestedState(kind)
    /\ action' = CallbackAction(state')
    /\ IF kind = "CONSENT_GRANTED"
         THEN CancelThenInsertOutbox("contact.language")
         ELSE CancelPendingAutomation
    /\ UNCHANGED <<attempts, suppressed, operator>>

HandleCallback(i) ==
    /\ Opened
    /\ i \in Inputs \ received
    /\ i.kind \in CallbackKinds
    /\ received' = received \cup {i}
    /\ IF CallbackIgnored THEN UNCHANGED <<sessionRow, outbox>>
       ELSE IF CallbackApproved(i.kind) THEN ApplyCallback(i.kind)
       ELSE FailToReview
    /\ UNCHANGED <<lease, worker>>

(* A mutant: suppression without cancelling what is already queued.        *)
HandOver_KeepsPrompts(next, op) ==
    /\ state' = next
    /\ operator' = op
    /\ suppressed' = TRUE
    /\ action' = "none"
    /\ ClearLease
    /\ UNCHANGED <<attempts, outbox>>

(* What every hand-over to a human writes.                                 *)
HandOver(next, op) ==
    /\ state' = next
    /\ operator' = op
    /\ suppressed' = TRUE
    /\ action' = "none"
    /\ ClearLease
    /\ CancelPendingAutomation
    /\ UNCHANGED attempts

HumanMay(next) == Approved(state, next, "OPERATOR", TRUE, attempts)

OperatorTakeover(op) ==
    /\ Opened
    /\ ~ (suppressed /\ operator = op)
    /\ IF HumanMay("OPERATOR_TAKEOVER") THEN HandOver("OPERATOR_TAKEOVER", op)
       ELSE FailToReview /\ UNCHANGED lease
    /\ UNCHANGED <<received, worker>>

-----------------------------------------------------------------------------
(* The dashboard and the Field Companion, which write the row themselves.  *)

(* mutate; a stale expectedContactVersion changes nothing.                 *)
DashboardMutate(op) ==
    /\ Opened
    /\ \/ HumanMay("OPERATOR_TAKEOVER") /\ HandOver("OPERATOR_TAKEOVER", op)
       \/ HumanMay("ESCALATED") /\ HandOver("ESCALATED", operator)
       \/ HandOver(state, op)                                \* assignment
    /\ UNCHANGED <<received, worker>>

(* A mutant: a plain reply confirms whatever the session was doing.        *)
nextContactState_AnyReply(kind) ==
    CASE kind = "RECONNECT" ->
           IF state = "DISCONNECTED" THEN "CONTACTING" ELSE state
      [] kind = "DEVICE_METADATA" -> state
      [] kind = "REPLY"           -> "RESPONSE_CONFIRMED"
      [] OTHER                    -> "HUMAN_REVIEW"

nextContactState(kind) ==
    CASE kind = "RECONNECT" ->
           IF state = "DISCONNECTED" THEN "CONTACTING" ELSE state
      [] kind = "DEVICE_METADATA" -> state
      [] kind = "REPLY" /\ state \in {"AWAITING_RESPONSE",
                                      "PARTIAL_RESPONSE"} ->
           "RESPONSE_CONFIRMED"
      [] OTHER -> "HUMAN_REVIEW"

Deliver(i) ==
    /\ Opened
    /\ i \in Inputs \ received
    /\ i.kind \in DeliveryKinds
    /\ received' = received \cup {i}
    /\ state' = nextContactState(i.kind)
    /\ IF state' = "HUMAN_REVIEW"
         THEN /\ suppressed' = TRUE
              /\ action' = "none"
              /\ CancelPendingAutomation
         ELSE UNCHANGED <<suppressed, action, outbox>>
    /\ ClearLease
    /\ UNCHANGED <<attempts, operator, worker>>

-----------------------------------------------------------------------------
(* A worker: runDue, then runOutbox, then again.                           *)

Goto(w, label) == wpc' = [wpc EXCEPT ![w] = label]

(* A mutant: only a session nobody ever leased is claimed.                 *)
SessionClaimable_Unleased ==
    ~ suppressed /\ action = "now" /\ sessionOwner = None

(* claimDueSessions' WHERE.                                                *)
SessionClaimable == ~ suppressed /\ action = "now" /\ ~ sessionLeased

ClaimDueSessions(w) ==
    /\ wpc[w] = "timers"
    /\ IF SessionClaimable
         THEN /\ sessionOwner' = w
              /\ sessionLeased' = TRUE
              /\ Goto(w, "due")
         ELSE /\ Goto(w, "outbox")
              /\ UNCHANGED lease
    /\ UNCHANGED <<sessionRow, received, outbox, batch, current>>

(* A mutant: silence is taken for consent to go on.                        *)
DueState_SilenceIsConsent ==
    CASE state \in {"CONTACTING", "PARTIAL_RESPONSE"} -> "AWAITING_RESPONSE"
      [] state = "AWAITING_RESPONSE" -> "NO_RESPONSE"
      [] state \in {"NO_RESPONSE", "DISCONNECTED"} ->
           IF attempts >= MaxAttempts THEN "ESCALATED" ELSE "CONTACTING"
      [] state = "CONSENT_PENDING"    -> "LANGUAGE_SELECTION"
      [] state = "LANGUAGE_SELECTION" -> "CONTACTING"
      [] OTHER -> None

(* What processDue moves a due session to, None for human review.          *)
DueState ==
    CASE state \in {"CONTACTING", "PARTIAL_RESPONSE"} -> "AWAITING_RESPONSE"
      [] state = "AWAITING_RESPONSE" -> "NO_RESPONSE"
      [] state \in {"NO_RESPONSE", "DISCONNECTED"} ->
           IF attempts >= MaxAttempts THEN "ESCALATED" ELSE "CONTACTING"
      [] OTHER -> None

(* A mutant: a retry is not counted.                                       *)
AdvanceDue_Uncounted ==
    /\ state' = DueState
    /\ action' = CASE state' = "CONTACTING" -> "now"
                   [] state' = "ESCALATED"  -> "none"
                   [] OTHER                 -> "later"
    /\ IF state' = "AWAITING_RESPONSE"
         THEN InsertOutbox("contact.response") ELSE UNCHANGED outbox
    /\ UNCHANGED <<attempts, suppressed, operator>>

AdvanceDue ==
    /\ state' = DueState
    /\ action' = CASE state' = "CONTACTING" -> "now"
                   [] state' = "ESCALATED"  -> "none"
                   [] OTHER                 -> "later"
    /\ attempts' = IF state' = "CONTACTING" THEN attempts + 1 ELSE attempts
    /\ IF state' = "AWAITING_RESPONSE"
         THEN InsertOutbox("contact.response") ELSE UNCHANGED outbox
    /\ UNCHANGED <<suppressed, operator>>

ProcessDue(w) ==
    /\ wpc[w] = "due"
    /\ IF sessionOwner # w \/ suppressed \/ action # "now"
         THEN UNCHANGED <<sessionRow, outbox>>
       ELSE IF DueState # None
               /\ Approved(state, DueState, "SYSTEM", TRUE, attempts)
         THEN AdvanceDue
       ELSE FailToReview
    /\ Goto(w, "leaving")
    /\ UNCHANGED <<lease, received, batch, current>>

(* The transaction fails, or finds that the session was rescheduled by     *)
(* somebody whose clock is ahead of the worker's reading: nothing is done. *)
DueFails(w) ==
    /\ wpc[w] = "due"
    /\ Goto(w, "leaving")
    /\ UNCHANGED <<sessionRow, lease, received, outbox, batch, current>>

ReleaseLease(w) ==
    /\ wpc[w] = "leaving"
    /\ IF sessionOwner = w THEN ClearLease ELSE UNCHANGED lease
    /\ Goto(w, "outbox")
    /\ UNCHANGED <<sessionRow, received, outbox, batch, current>>

(* claimDueOutbox's WHERE; a deadline is earlier than the lease's end.     *)
Claimable ==
    {m \in Pending \cap due :
        IF token[m] = None THEN m \notin leased ELSE m \notin live}

ClaimDueOutbox(w) ==
    /\ wpc[w] = "outbox"
    /\ batch' = [batch EXCEPT ![w] = Claimable]
    /\ owner' = [m \in Messages |-> IF m \in Claimable THEN w ELSE owner[m]]
    /\ token' = [m \in Messages |->
                    IF m \in Claimable THEN None ELSE token[m]]
    /\ leased' = leased \cup Claimable
    /\ live' = live \ Claimable
    /\ Goto(w, IF Claimable = {} THEN "timers" ELSE "reserve")
    /\ UNCHANGED <<sessionRow, lease, received, status, prompt, due,
                   current>>

(* Everything is measured from the start of the cycle: the lease need not  *)
(* run any more, and the new deadline, being earlier, has then passed too. *)
ReserveOutboxDelivery(w) ==
    /\ wpc[w] = "reserve"
    /\ \E m \in batch[w] :
         /\ current' = [current EXCEPT ![w] = m]
         /\ batch' = [batch EXCEPT ![w] = @ \ {m}]
         /\ IF m \in Pending /\ owner[m] = w
               /\ (token[m] = None \/ m \notin live)
              THEN /\ token' = [token EXCEPT ![m] = w]
                   /\ live' = live \cup ({m} \cap leased)
                   /\ Goto(w, "send")
              ELSE /\ Goto(w, "release")
                   /\ UNCHANGED <<token, live>>
    /\ UNCHANGED <<sessionRow, lease, received, status, prompt, owner, leased,
                   due>>

(* sendWithDeadline: the provider accepts, or the call fails or times out, *)
(* which does not tell whether the person will see the prompt.             *)
Send(w) ==
    /\ wpc[w] = "send"
    /\ Goto(w, "sent")
    /\ UNCHANGED <<sessionRow, lease, received, outbox, batch, current>>

SendUnavailable(w) ==
    /\ wpc[w] = "send"
    /\ Goto(w, "failed")
    /\ UNCHANGED <<sessionRow, lease, received, outbox, batch, current>>

(* A mutant: the result is written by message id alone.                    *)
HoldsFence_ById(w) == TRUE

HoldsFence(w) ==
    /\ current[w] \in Pending
    /\ owner[current[w]] = w
    /\ token[current[w]] = w

(* markOutboxDelivered or markOutboxRetry.                                 *)
Finalize(w) ==
    /\ wpc[w] \in {"sent", "failed"}
    /\ IF HoldsFence(w)
         THEN LET m == current[w]
                  ok == wpc[w] = "sent" /\ m \in live
              IN  /\ status' = [status EXCEPT ![m] =
                                   IF ok THEN "delivered" ELSE "pending"]
                  /\ due' = due \ {m}
                  /\ owner' = [owner EXCEPT ![m] = None]
                  /\ token' = [token EXCEPT ![m] = None]
                  /\ leased' = leased \ {m}
                  /\ live' = live \ {m}
                  /\ UNCHANGED prompt
         ELSE UNCHANGED outbox
    /\ Goto(w, "release")
    /\ UNCHANGED <<sessionRow, lease, received, batch, current>>

(* A statement on the outbox fails; finally still releases the lease, and  *)
(* the error ends the loop.                                                *)
OutboxFails(w) ==
    /\ \/ /\ wpc[w] = "reserve"
          /\ \E m \in batch[w] : current' = [current EXCEPT ![w] = m]
       \/ /\ wpc[w] \in {"send", "sent", "failed"}
          /\ UNCHANGED current
    /\ batch' = [batch EXCEPT ![w] = {}]
    /\ Goto(w, "release")
    /\ UNCHANGED <<sessionRow, lease, received, outbox>>

ReleaseOutboxLease(w) ==
    /\ wpc[w] = "release"
    /\ LET m == current[w] IN
       IF m \in Pending /\ owner[m] = w /\ (token[m] = None \/ m \notin live)
         THEN /\ owner' = [owner EXCEPT ![m] = None]
              /\ leased' = leased \ {m}
         ELSE UNCHANGED <<owner, leased>>
    /\ current' = [current EXCEPT ![w] = None]
    /\ Goto(w, IF batch[w] = {} THEN "timers" ELSE "reserve")
    /\ UNCHANGED <<sessionRow, lease, received, status, prompt, token, live,
                   due, batch>>

(* The process dies or stops after an error, and is started again.         *)
Crash(w) ==
    /\ wpc[w] # "timers"
    /\ Goto(w, "timers")
    /\ batch' = [batch EXCEPT ![w] = {}]
    /\ current' = [current EXCEPT ![w] = None]
    /\ UNCHANGED <<sessionRow, lease, received, outbox>>

-----------------------------------------------------------------------------
(* Time.                                                                   *)

ActionDue ==
    /\ action = "later"
    /\ action' = "now"
    /\ UNCHANGED <<state, attempts, suppressed, operator, lease, received,
                   outbox, worker>>

SessionLeaseExpires ==
    /\ sessionLeased
    /\ sessionLeased' = FALSE
    /\ UNCHANGED <<sessionRow, sessionOwner, received, outbox, worker>>

MessageDue(m) ==
    /\ m \in Pending \ due
    /\ due' = due \cup {m}
    /\ UNCHANGED <<sessionRow, lease, received, status, prompt, owner, leased,
                   token, live, worker>>

(* deliveryTimeoutMs is shorter than outboxLeaseMs and both are counted    *)
(* from the start of the worker's cycle, so the deadline passes first.     *)
DeadlinePasses(m) ==
    /\ m \in live
    /\ live' = live \ {m}
    /\ UNCHANGED <<sessionRow, lease, received, status, prompt, owner, leased,
                   token, due, worker>>

MessageLeaseExpires(m) ==
    /\ m \in leased \ live
    /\ leased' = leased \ {m}
    /\ UNCHANGED <<sessionRow, lease, received, status, prompt, owner, token,
                   live, due, worker>>

-----------------------------------------------------------------------------
WorkerStep(w) ==
    \/ ClaimDueSessions(w) \/ ProcessDue(w) \/ ReleaseLease(w)
    \/ ClaimDueOutbox(w) \/ ReserveOutboxDelivery(w) \/ Send(w)
    \/ Finalize(w) \/ ReleaseOutboxLease(w)

WorkerFault(w) ==
    DueFails(w) \/ SendUnavailable(w) \/ OutboxFails(w) \/ Crash(w)

Human(op) == OperatorTakeover(op) \/ DashboardMutate(op)

Clock(m) == MessageDue(m) \/ DeadlinePasses(m) \/ MessageLeaseExpires(m)

Next ==
    \/ Open
    \/ \E i \in Inputs : HandleCallback(i) \/ Deliver(i)
    \/ \E op \in Operators : Human(op)
    \/ \E w \in Workers : WorkerStep(w) \/ WorkerFault(w)
    \/ ActionDue
    \/ SessionLeaseExpires
    \/ \E m \in Messages : Clock(m)

Spec == Init /\ [][Next]_vars

-----------------------------------------------------------------------------
(* Fairness.  A worker polls for ever and is restarted when it dies; time  *)
(* passes.  What may go wrong may do so any number of times, but not for   *)
(* ever: an abandoned transaction, an unavailable provider, a crash, and a *)
(* lease or deadline that runs out under a worker still at work.           *)

Handles(w, m) == m \in batch[w] \/ current[w] = m

Overrun ==
    \/ \E w \in Workers : /\ wpc[w] \in {"due", "leaving"}
                         /\ sessionOwner = w
                         /\ SessionLeaseExpires
    \/ \E w \in Workers, m \in Messages :
          /\ owner[m] = w
          /\ Handles(w, m)
          /\ DeadlinePasses(m) \/ MessageLeaseExpires(m)

(* Where a fault has the effect of an ordinary step (dying with nothing in *)
(* hand), it is none.                                                      *)
Fault == Overrun \/ \E w \in Workers : WorkerFault(w) /\ ~ WorkerStep(w)

Fairness ==
    /\ \A w \in Workers : WF_vars(WorkerStep(w))
    /\ WF_vars(ActionDue)
    /\ WF_vars(SessionLeaseExpires)
    /\ \A m \in Messages : WF_vars(Clock(m))

LiveSpec == Spec /\ Fairness /\ <>[][~ Fault]_vars

-----------------------------------------------------------------------------
(* Properties                                                              *)

(* Types, and the tables' CHECK constraints: the attempt limit, and that a *)
(* lease or a delivery deadline belongs to somebody.                       *)
TypeOK ==
    /\ state \in States \cup {None}
    /\ attempts \in 0 .. MaxAttempts
    /\ suppressed \in BOOLEAN
    /\ operator \in Operators \cup {None}
    /\ action \in {"none", "later", "now"}
    /\ sessionOwner \in Workers \cup {None}
    /\ sessionLeased \in BOOLEAN
    /\ sessionLeased => sessionOwner # None
    /\ received \subseteq Inputs
    /\ status \in [Messages -> {"absent", "pending", "delivered", "cancelled"}]
    /\ prompt \in [Messages -> {None, "contact.consent", "contact.language",
                                "contact.response"}]
    /\ owner \in [Messages -> Workers \cup {None}]
    /\ token \in [Messages -> Workers \cup {None}]
    /\ leased \subseteq Pending
    /\ live \subseteq leased
    /\ due \subseteq Pending
    /\ \A m \in leased : owner[m] # None
    /\ \A m \in live : token[m] # None
    /\ wpc \in [Workers -> {"timers", "due", "leaving", "outbox", "reserve",
                            "send", "sent", "failed", "release"}]
    /\ batch \in [Workers -> SUBSET Messages]
    /\ current \in [Workers -> Messages \cup {None}]

ResponsePrompts == {m \in Messages : prompt[m] = "contact.response"}

(* No safety question before the person consented and chose a language,    *)
(* whatever timers, retries and reconnections do in between.               *)
ConsentFirst ==
    ResponsePrompts # {} =>
        Got("CONSENT_GRANTED") # {} /\ Got("LANGUAGE_SELECTED") # {}

(* Every safety question is paid for: by a counted attempt, by a partial   *)
(* answer it follows up, or by a reconnection of the person's device.  Two *)
(* workers or a crash never ask a second time on the same account.         *)
QuestionsAccounted ==
    Cardinality(ResponsePrompts) =<
        attempts + Cardinality(Got("PARTIAL_RESPONSE"))
                 + Cardinality(Got("RECONNECT"))

(* Once a human has the session, or automation is suppressed, no timer is  *)
(* armed and no prompt waits to be sent.                                   *)
HumanInCharge ==
    suppressed \/ state \in {"HUMAN_REVIEW", "OPERATOR_TAKEOVER"} =>
        action = "none" /\ Pending = {}

(* An answer is never lost: once the person has answered, in whatever      *)
(* state and through whichever path, the session is confirmed or with a    *)
(* human, and does not go back to asking.                                  *)
AnswerIsHeeded ==
    (\E kind \in {"RESPONSE", "CONTRADICTORY", "REPLY", "HELP", "IMPACT"} :
        Got(kind) # {}) =>
        suppressed \/ state \in HumanStates \cup {"RESPONSE_CONFIRMED"}

(* A prompt that was cancelled or delivered stays so: the late result of a *)
(* worker overtaken by a takeover, a callback or another worker is void.   *)
KeepsSettled ==
    \A m \in Messages :
        status[m] \in {"delivered", "cancelled"} => status'[m] = status[m]

(* Nobody takes a live reservation from the worker that made it, except by *)
(* cancelling the prompt: a second transport call waits for the deadline.  *)
KeepsFence ==
    \A m \in live :
        token'[m] # token[m] =>
            \/ status'[m] = "cancelled"
            \/ \E w \in Workers : /\ token[m] = w
                                 /\ current[w] = m
                                 /\ wpc[w] \in {"sent", "failed"}

(* The delivery of a prompt is fenced: while it runs nobody else delivers  *)
(* it, and once it is settled no late result changes that                  *)
(* (reserveOutboxDelivery, markOutboxDelivered, markOutboxRetry).          *)
DeliveryIsFenced == [][KeepsSettled /\ KeepsFence]_vars

(* Although the dashboard and the Field Companion write the row without    *)
(* the service, and failToReview does so against the protocol's decision,  *)
(* every change of state is a transition of the protocol.                  *)
ProtocolIsFollowed ==
    [][Opened /\ state' # state => state' \in ALLOWED[state]]_vars

(* Automation that has come to rest stays at rest: without an armed timer  *)
(* none is armed again and no further prompt is queued.                    *)
RestIsFinal ==
    [][Opened /\ action = "none" =>
          /\ action' = "none"
          /\ \A m \in Messages : status[m] = "absent" => status'[m] = "absent"
      ]_vars

(* An opened session comes to rest: with a human, or confirmed.            *)
EventuallyAtRest == Opened ~> Opened /\ action = "none"

(* Every prompt is delivered or cancelled in the end.                      *)
PromptsSettle ==
    \A m \in Messages :
        status[m] = "pending" ~> status[m] \in {"delivered", "cancelled"}

(* Timers and deliveries come to an end: the session rests and no prompt   *)
(* is left waiting, whatever workers died on the way (runOnce).            *)
ContactSettles == EventuallyAtRest /\ PromptsSettle

(* "Automated contact attempts are bounded by the #29 contract": there are *)
(* no more safety questions than attempts and follow-ups.                  *)
QuestionsBounded ==
    Cardinality(ResponsePrompts) =<
        MaxAttempts + Cardinality(Got("PARTIAL_RESPONSE"))
=============================================================================
