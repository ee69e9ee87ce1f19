--------------------------- MODULE AgencyConsumer ---------------------------
(***************************************************************************)
(* SimulatedAgencyConsumer over PostgresConsumerIdempotencyStore: several  *)
(* processes of one agency consume entries of the integration stream, and  *)
(* the table processed_integration_events decides who records a            *)
(* notification.                                                           *)
(*                                                                         *)
(* How entries reach a consumer is not in the repository.  What consume    *)
(* assumes is at-least-once delivery: any entry of the stream may be       *)
(* handed to any process, any number of times.                             *)
(***************************************************************************)
EXTENDS Naturals

CONSTANTS
    Consumers,   \* processes of one consumer name
    Messages,    \* routed RoadEvent messages
    None

ASSUME ConsumerAssumption ==
    None \notin Messages /\ None \notin {"PROCESSING", "COMPLETED"}

VARIABLES
    stream,      \* the messages that have an entry in the Redis stream
    ledger,      \* message -> its row's status, or None
    claimed,     \* message -> the row's locked_until lies in the future
    effects,     \* message -> notifications recorded: 0, 1 or 2 for "many"
    cpc,         \* process -> what consume does next
    handling     \* process -> the message it consumes

consumerVars == <<ledger, claimed, effects, cpc, handling>>
vars == <<stream, consumerVars>>

-----------------------------------------------------------------------------
InitConsumers ==
    /\ ledger = [m \in Messages |-> None]
    /\ claimed = [m \in Messages |-> FALSE]
    /\ effects = [m \in Messages |-> 0]
    /\ cpc = [c \in Consumers |-> "idle"]
    /\ handling = [c \in Consumers |-> None]

Init == stream = {} /\ InitConsumers

Return(c) ==
    /\ cpc' = [cpc EXCEPT ![c] = "idle"]
    /\ handling' = [handling EXCEPT ![c] = None]

Continue(c, label) ==
    /\ cpc' = [cpc EXCEPT ![c] = label]
    /\ UNCHANGED handling

(* tryBegin that never takes over the row of a process that died.          *)
Acquirable_OnlyNew(m) == ledger[m] = None

(* tryBegin inserts the row, or takes it over when it is not COMPLETED and *)
(* its lease has run out.                                                  *)
Acquirable(m) ==
    \/ ledger[m] = None
    \/ ledger[m] = "PROCESSING" /\ ~ claimed[m]

(* consume up to tryBegin.  When the row cannot be acquired the answer is  *)
(* 'duplicate' and nothing changes.                                        *)
Begin(c, m) ==
    /\ cpc[c] = "idle"
    /\ m \in stream
    /\ Acquirable(m)
    /\ ledger' = [ledger EXCEPT ![m] = "PROCESSING"]
    /\ claimed' = [claimed EXCEPT ![m] = TRUE]
    /\ handling' = [handling EXCEPT ![c] = m]
    /\ cpc' = [cpc EXCEPT ![c] = "record"]
    /\ UNCHANGED <<stream, effects>>

Effect(m) == effects' = [effects EXCEPT ![m] = IF @ = 0 THEN 1 ELSE 2]

(* sink.record, acknowledged.                                              *)
Record(c) ==
    /\ cpc[c] = "record"
    /\ Effect(handling[c])
    /\ Continue(c, "complete")
    /\ UNCHANGED <<stream, ledger, claimed>>

(* record's rejection swallowed: complete follows all the same.            *)
RecordFails_Swallowed(c) ==
    /\ cpc[c] = "record"
    /\ Continue(c, "complete")
    /\ UNCHANGED <<stream, ledger, claimed, effects>>

(* sink.record rejected without having taken effect, the contract the      *)
(* catch of consume relies on.                                             *)
RecordFails(c) ==
    /\ cpc[c] = "record"
    /\ Continue(c, "release")
    /\ UNCHANGED <<stream, ledger, claimed, effects>>

(* UPDATE ... WHERE status = 'PROCESSING': no owner is compared, and an    *)
(* update of no row is not an error.                                       *)
SetCompleted(m) ==
    /\ ledger' = [ledger EXCEPT ![m] =
                    IF @ = "PROCESSING" THEN "COMPLETED" ELSE @]
    /\ claimed' = [claimed EXCEPT ![m] =
                    IF ledger[m] = "PROCESSING" THEN FALSE ELSE @]

Complete(c) ==
    /\ cpc[c] = "complete"
    /\ SetCompleted(handling[c])
    /\ Return(c)
    /\ UNCHANGED <<stream, effects>>

(* complete rejected, before or after its commit.                          *)
CompleteFails(c) ==
    /\ cpc[c] = "complete"
    /\ SetCompleted(handling[c]) \/ UNCHANGED <<ledger, claimed>>
    /\ Continue(c, "release")
    /\ UNCHANGED <<stream, effects>>

(* release that deletes the row whatever its status.                       *)
Delete_AnyStatus(m) ==
    /\ ledger' = [ledger EXCEPT ![m] = None]
    /\ claimed' = [claimed EXCEPT ![m] = FALSE]

(* DELETE ... WHERE status = 'PROCESSING', again without an owner.         *)
Delete(m) ==
    /\ ledger' = [ledger EXCEPT ![m] = IF @ = "PROCESSING" THEN None ELSE @]
    /\ claimed' = [claimed EXCEPT ![m] =
                    IF ledger[m] = "PROCESSING" THEN FALSE ELSE @]

(* The catch of consume: release, successful or not, and rethrow.          *)
Release(c) ==
    /\ cpc[c] = "release"
    /\ Delete(handling[c]) \/ UNCHANGED <<ledger, claimed>>
    /\ Return(c)
    /\ UNCHANGED <<stream, effects>>

Die(c) ==
    /\ cpc[c] # "idle"
    /\ Return(c)
    /\ UNCHANGED <<stream, ledger, claimed, effects>>

ClaimExpires(m) ==
    /\ claimed[m]
    /\ claimed' = [claimed EXCEPT ![m] = FALSE]
    /\ UNCHANGED <<stream, ledger, effects, cpc, handling>>

Consume(c) ==
    \/ \E m \in Messages : Begin(c, m)
    \/ Record(c) \/ RecordFails(c)
    \/ Complete(c) \/ CompleteFails(c)
    \/ Release(c) \/ Die(c)

ConsumerNext ==
    \/ \E c \in Consumers : Consume(c)
    \/ \E m \in Messages : ClaimExpires(m)

(* Some worker appends an entry.                                           *)
EntryAppears(m) ==
    /\ m \notin stream
    /\ stream' = stream \cup {m}
    /\ UNCHANGED consumerVars

Next == ConsumerNext \/ \E m \in Messages : EntryAppears(m)

Spec == Init /\ [][Next]_vars

Busy(m) == \E c \in Consumers : handling[c] = m

(* Failures of the sink or the store, deaths, and processes that outlive   *)
(* their own lease strike any number of times, but not for ever.           *)
ConsumerFault ==
    \/ \E c \in Consumers : RecordFails(c) \/ CompleteFails(c) \/ Die(c)
    \/ \E m \in Messages : Busy(m) /\ ClaimExpires(m)

(* The transport redelivers: a process that is idle is eventually handed   *)
(* an entry it can acquire.                                                *)
ConsumerFairness ==
    /\ <>[][~ ConsumerFault]_vars
    /\ \A c \in Consumers : WF_vars(Record(c) \/ Complete(c) \/ Release(c))
    /\ \A m \in Messages :
         /\ WF_vars(\E c \in Consumers : Begin(c, m))
         /\ WF_vars(~ Busy(m) /\ ClaimExpires(m))

FairSpec == Spec /\ ConsumerFairness

-----------------------------------------------------------------------------
(* Properties.                                                             *)

(* Type correctness, with the CHECK constraint                             *)
(* processed_event_state_complete: only PROCESSING rows carry a lease.     *)
ConsumerTypeOK ==
    /\ stream \subseteq Messages
    /\ ledger \in [Messages -> {"PROCESSING", "COMPLETED", None}]
    /\ claimed \in [Messages -> BOOLEAN]
    /\ effects \in [Messages -> 0..2]
    /\ cpc \in [Consumers -> {"idle", "record", "complete", "release"}]
    /\ handling \in [Consumers -> Messages \cup {None}]
    /\ \A m \in Messages : claimed[m] => ledger[m] = "PROCESSING"

(* COMPLETED is never a lie: a row is completed only after a notification  *)
(* was recorded, although complete and release compare no owner and may    *)
(* act on the row another process holds by now.                            *)
CompletedWasRecorded ==
    \A m \in Messages : ledger[m] = "COMPLETED" => effects[m] > 0

(* A completed message stays completed: the late complete or release of a  *)
(* process that lost its lease does not reopen it for another round.       *)
CompletionIsFinal ==
    [][\A m \in Messages :
         ledger[m] = "COMPLETED" => ledger'[m] = "COMPLETED"]_vars

(* "eventId and consumer-side durable idempotency fence duplicate effects" *)
(* (the comment in OutboxWorkerRuntime.runOnce): no agency is notified     *)
(* twice of one message.                                                   *)
EffectAtMostOnce == \A m \in Messages : effects[m] <= 1
=============================================================================
