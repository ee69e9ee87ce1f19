-------------------------- MODULE DeliveryPipeline --------------------------
(***************************************************************************)
(* Outbox workers and agency consumers joined by the Redis stream: from a  *)
(* committed outbox row to a recorded notification.  The workers take the  *)
(* place of EntryAppears.                                                  *)
(***************************************************************************)
EXTENDS AgencyConsumer

CONSTANTS Workers, MaxAttempts, BatchSize

(* The options of the outbox, as OutboxDelivery assumes them.              *)
ASSUME PipelineAssumption ==
    /\ Messages \subseteq Nat
    /\ MaxAttempts \in Nat \ {0}
    /\ BatchSize \in Nat \ {0}
    /\ None \notin Workers

VARIABLES status, lockedBy, leased, due, retries, redisUp,
          pc, current, seen, taken

Outbox == INSTANCE OutboxDelivery

(* The workers' own state, besides the stream.                             *)
outboxVars == <<status, lockedBy, leased, due, retries, redisUp,
                pc, current, seen, taken>>
pipelineVars == <<outboxVars, vars>>

PipelineInit == Outbox!Init /\ InitConsumers

PipelineNext ==
    \/ Outbox!Next /\ UNCHANGED consumerVars
    \/ ConsumerNext /\ UNCHANGED outboxVars

PipelineSpec ==
    /\ PipelineInit
    /\ [][PipelineNext]_pipelineVars
    /\ Outbox!Fairness
    /\ ConsumerFairness

(* Nothing is lost between commit and agency: every outbox row ends up     *)
(* either notified and completed, or dead-lettered, which pages an         *)
(* operator.                                                               *)
EventuallyHandled ==
    \A m \in Messages : <>(status[m] = "dead" \/ ledger[m] = "COMPLETED")
=============================================================================
