--------------------------- MODULE DeliveryProofs ---------------------------
(***************************************************************************)
(* Proofs about AgencyConsumer and DeliveryPipeline, for any workers,      *)
(* processes and messages.                                                 *)
(***************************************************************************)
EXTENDS DeliveryPipeline, TLAPS

(* A process that is about to complete has recorded its notification.      *)
RecordedBeforeComplete ==
    \A c \in Consumers :
      /\ cpc[c] # "idle" => handling[c] \in Messages
      /\ cpc[c] = "complete" => effects[handling[c]] > 0

ConsumerInv ==
    ConsumerTypeOK /\ RecordedBeforeComplete /\ CompletedWasRecorded

(* Recording only adds to the count of notifications.                      *)
LEMMA EffectGrows ==
    ASSUME ConsumerTypeOK, NEW m \in Messages, Effect(m)
    PROVE  /\ effects' \in [Messages -> 0..2]
           /\ effects'[m] > 0
           /\ \A n \in Messages : effects[n] > 0 => effects'[n] > 0
  BY DEF Effect, ConsumerTypeOK

(* Completing, deleting or keeping a row never makes it COMPLETED unless   *)
(* its message has been recorded.                                          *)
LEMMA LedgerStep ==
    ASSUME ConsumerInv, NEW m \in Messages,
           \/ SetCompleted(m) /\ effects[m] > 0
           \/ Delete(m)
           \/ UNCHANGED <<ledger, claimed>>,
           UNCHANGED effects
    PROVE  /\ ledger' \in [Messages -> {"PROCESSING", "COMPLETED", None}]
           /\ claimed' \in [Messages -> BOOLEAN]
           /\ \A n \in Messages : claimed'[n] => ledger'[n] = "PROCESSING"
           /\ CompletedWasRecorded'
           /\ \A n \in Messages :
                ledger[n] = "COMPLETED" => ledger'[n] = "COMPLETED"
  <1> USE DEF ConsumerInv, ConsumerTypeOK, CompletedWasRecorded
  <1>1. CASE SetCompleted(m) /\ effects[m] > 0
    <2>1. /\ ledger' \in [Messages -> {"PROCESSING", "COMPLETED", None}]
          /\ \A n \in Messages \ {m} : ledger'[n] = ledger[n]
          /\ ledger[m] = "COMPLETED" => ledger'[m] = "COMPLETED"
      BY <1>1 DEF SetCompleted
    <2>2. /\ claimed' \in [Messages -> BOOLEAN]
          /\ \A n \in Messages : claimed'[n] => ledger'[n] = "PROCESSING"
      <3>1. CASE ledger[m] = "PROCESSING"
        BY <1>1, <3>1 DEF SetCompleted
      <3>2. CASE ledger[m] # "PROCESSING"
        BY <1>1, <3>2 DEF SetCompleted
      <3>3. QED
        BY <3>1, <3>2
    <2>3. QED
      BY <1>1, <2>1, <2>2
  <1>2. CASE Delete(m)
    <2>1. /\ ledger' \in [Messages -> {"PROCESSING", "COMPLETED", None}]
          /\ \A n \in Messages \ {m} : ledger'[n] = ledger[n]
          /\ ledger[m] = "COMPLETED" => ledger'[m] = "COMPLETED"
          /\ ledger'[m] = "COMPLETED" => ledger[m] = "COMPLETED"
      <3>1. CASE ledger[m] = "PROCESSING"
        BY <1>2, <3>1, ConsumerAssumption DEF Delete
      <3>2. CASE ledger[m] # "PROCESSING"
        BY <1>2, <3>2 DEF Delete
      <3>3. QED
        BY <3>1, <3>2
    <2>2. /\ claimed' \in [Messages -> BOOLEAN]
          /\ \A n \in Messages : claimed'[n] => ledger'[n] = "PROCESSING"
      <3>1. CASE ledger[m] = "PROCESSING"
        BY <1>2, <3>1 DEF Delete
      <3>2. CASE ledger[m] # "PROCESSING"
        BY <1>2, <3>2 DEF Delete
      <3>3. QED
        BY <3>1, <3>2
    <2>3. QED
      BY <2>1, <2>2
  <1>3. CASE UNCHANGED <<ledger, claimed>>
    BY <1>3
  <1>4. QED
    BY <1>1, <1>2, <1>3

(* Every step keeps the invariant and every completed row.                 *)
LEMMA ConsumerStep ==
    ASSUME ConsumerInv, [Next]_vars
    PROVE  /\ ConsumerInv'
           /\ \A n \in Messages :
                ledger[n] = "COMPLETED" => ledger'[n] = "COMPLETED"
  <1> DEFINE Kept == \A n \in Messages :
                       ledger[n] = "COMPLETED" => ledger'[n] = "COMPLETED"
  <1>1. ASSUME NEW c \in Consumers, NEW m \in Messages, Begin(c, m)
        PROVE  ConsumerInv' /\ Kept
    BY <1>1, ConsumerAssumption DEF Begin, Acquirable, ConsumerInv,
       ConsumerTypeOK, RecordedBeforeComplete, CompletedWasRecorded
  <1>2. ASSUME NEW c \in Consumers, Record(c) \/ RecordFails(c)
        PROVE  ConsumerInv' /\ Kept
    <2>1. handling[c] \in Messages /\ cpc[c] = "record"
      BY <1>2 DEF Record, RecordFails, ConsumerInv, RecordedBeforeComplete
    <2>2. UNCHANGED <<stream, ledger, claimed, handling>>
      BY <1>2 DEF Record, RecordFails, Continue
    <2>3. CASE Record(c)
      <3>1. /\ effects' \in [Messages -> 0..2]
            /\ effects'[handling[c]] > 0
            /\ \A n \in Messages : effects[n] > 0 => effects'[n] > 0
        BY <2>1, <2>3, EffectGrows DEF Record, ConsumerInv
      <3>2. cpc' = [cpc EXCEPT ![c] = "complete"]
        BY <2>3 DEF Record, Continue
      <3>3. QED
        BY <2>1, <2>2, <3>1, <3>2 DEF ConsumerInv, ConsumerTypeOK,
           RecordedBeforeComplete, CompletedWasRecorded
    <2>4. CASE RecordFails(c)
      BY <2>1, <2>2, <2>4 DEF RecordFails, Continue, ConsumerInv,
         ConsumerTypeOK, RecordedBeforeComplete, CompletedWasRecorded
    <2>5. QED
      BY <1>2, <2>3, <2>4
  <1>3. ASSUME NEW c \in Consumers,
               Complete(c) \/ CompleteFails(c) \/ Release(c) \/ Die(c)
        PROVE  ConsumerInv' /\ Kept
    <2>1. handling[c] \in Messages
          /\ (cpc[c] = "complete" => effects[handling[c]] > 0)
      BY <1>3 DEF Complete, CompleteFails, Release, Die, ConsumerInv,
         RecordedBeforeComplete
    <2>2. /\ UNCHANGED <<stream, effects>>
          /\ \/ SetCompleted(handling[c]) /\ effects[handling[c]] > 0
             \/ Delete(handling[c])
             \/ UNCHANGED <<ledger, claimed>>
          /\ Return(c) \/ Continue(c, "release")
          /\ Continue(c, "release") => cpc[c] # "idle"
      BY <1>3, <2>1 DEF Complete, CompleteFails, Release, Die
    <2>3. /\ ledger' \in [Messages -> {"PROCESSING", "COMPLETED", None}]
          /\ claimed' \in [Messages -> BOOLEAN]
          /\ \A n \in Messages : claimed'[n] => ledger'[n] = "PROCESSING"
          /\ CompletedWasRecorded'
          /\ Kept
      BY <2>1, <2>2, LedgerStep
    <2>4. ConsumerTypeOK' /\ RecordedBeforeComplete'
      BY <2>1, <2>2, <2>3 DEF Return, Continue, ConsumerInv,
         ConsumerTypeOK, RecordedBeforeComplete
    <2>5. QED
      BY <2>3, <2>4 DEF ConsumerInv
  <1>4. ASSUME NEW m \in Messages, ClaimExpires(m) \/ EntryAppears(m)
        PROVE  ConsumerInv' /\ Kept
    BY <1>4 DEF ClaimExpires, EntryAppears, consumerVars, ConsumerInv,
       ConsumerTypeOK, RecordedBeforeComplete, CompletedWasRecorded
  <1>5. CASE UNCHANGED vars
    BY <1>5 DEF vars, consumerVars, ConsumerInv, ConsumerTypeOK,
       RecordedBeforeComplete, CompletedWasRecorded
  <1>6. QED
    BY <1>1, <1>2, <1>3, <1>4, <1>5 DEF Next, ConsumerNext, Consume

(* The consumer invariant holds in every reachable state.                  *)
THEOREM ConsumerInvariant == Spec => []ConsumerInv
  <1>1. Init => ConsumerInv
    BY ConsumerAssumption DEF Init, InitConsumers, ConsumerInv,
       ConsumerTypeOK, RecordedBeforeComplete, CompletedWasRecorded
  <1>2. ConsumerInv /\ [Next]_vars => ConsumerInv'
    BY ConsumerStep
  <1>3. QED
    BY <1>1, <1>2, PTL DEF Spec

(* No message is marked COMPLETED without a recorded notification.         *)
THEOREM CompletedOnlyIfRecorded == Spec => []CompletedWasRecorded
  <1>1. ConsumerInv => CompletedWasRecorded
    BY DEF ConsumerInv
  <1>2. QED
    BY <1>1, ConsumerInvariant, PTL

(* No late process reopens a completed message.                            *)
THEOREM CompletedForGood == Spec => CompletionIsFinal
  <1>1. ConsumerInv /\ [Next]_vars =>
          [\A m \in Messages :
             ledger[m] = "COMPLETED" => ledger'[m] = "COMPLETED"]_vars
    BY ConsumerStep
  <1>2. QED
    BY <1>1, ConsumerInvariant, PTL DEF Spec, CompletionIsFinal

-----------------------------------------------------------------------------
(* The composition of outbox workers and agency consumers.                 *)

(* What is proved of the outbox alone, about the pipeline's own variables. *)
OutboxFacts == INSTANCE OutboxDeliveryProofs

(* OutboxDelivery and the module of its proofs speak of the same program.  *)
LEMMA SameOutbox ==
    /\ Outbox!Init = OutboxFacts!Init
    /\ Outbox!Next = OutboxFacts!Next
    /\ Outbox!vars = OutboxFacts!vars
    /\ Outbox!StatusIsTrue = OutboxFacts!StatusIsTrue
  <1> USE DEF Outbox!Goto, OutboxFacts!Goto, Outbox!EndBatch,
        OutboxFacts!EndBatch, Outbox!Unlock, OutboxFacts!Unlock,
        Outbox!Owned, OutboxFacts!Owned, Outbox!Claimable,
        OutboxFacts!Claimable, Outbox!SetPublished,
        OutboxFacts!SetPublished, Outbox!SetFailed, OutboxFacts!SetFailed,
        Outbox!rowVars, OutboxFacts!rowVars, Outbox!workerVars,
        OutboxFacts!workerVars
  <1>1. Outbox!Init = OutboxFacts!Init
    BY DEF Outbox!Init, OutboxFacts!Init
  <1>2. ASSUME NEW w \in Workers
        PROVE  Outbox!Work(w) = OutboxFacts!Work(w)
    BY DEF Outbox!Work, OutboxFacts!Work, Outbox!Step, OutboxFacts!Step,
       Outbox!Preflight, OutboxFacts!Preflight, Outbox!Claim,
       OutboxFacts!Claim, Outbox!Rest, OutboxFacts!Rest, Outbox!Publish,
       OutboxFacts!Publish, Outbox!PublishFails, OutboxFacts!PublishFails,
       Outbox!MarkPublished, OutboxFacts!MarkPublished,
       Outbox!MarkPublishedLost, OutboxFacts!MarkPublishedLost,
       Outbox!MarkFailed, OutboxFacts!MarkFailed, Outbox!MarkFailedLost,
       OutboxFacts!MarkFailedLost, Outbox!Restart, OutboxFacts!Restart,
       Outbox!MarkPublishedErrors, OutboxFacts!MarkPublishedErrors,
       Outbox!MarkFailedErrors, OutboxFacts!MarkFailedErrors,
       Outbox!Crash, OutboxFacts!Crash
  <1>3. /\ Outbox!Clock = OutboxFacts!Clock
        /\ Outbox!Redis = OutboxFacts!Redis
    BY DEF Outbox!Clock, OutboxFacts!Clock, Outbox!Redis,
       OutboxFacts!Redis, Outbox!LeaseExpires, OutboxFacts!LeaseExpires,
       Outbox!BackoffElapses, OutboxFacts!BackoffElapses,
       Outbox!RedisFails, OutboxFacts!RedisFails, Outbox!RedisRecovers,
       OutboxFacts!RedisRecovers
  <1>4. Outbox!Next = OutboxFacts!Next
    BY <1>2, <1>3, Zenon DEF Outbox!Next, OutboxFacts!Next
  <1>5. Outbox!vars = OutboxFacts!vars
    BY DEF Outbox!vars, OutboxFacts!vars
  <1>6. Outbox!StatusIsTrue = OutboxFacts!StatusIsTrue
    BY DEF Outbox!StatusIsTrue, OutboxFacts!StatusIsTrue,
       Outbox!DeadExactlyAtLimit, OutboxFacts!DeadExactlyAtLimit,
       Outbox!PublishedIsInStream, OutboxFacts!PublishedIsInStream
  <1>7. QED
    BY <1>1, <1>4, <1>5, <1>6

(* A step of the pipeline is a step of the outbox, or leaves it alone:     *)
(* consumers only read the stream.                                         *)
LEMMA OutboxStutters ==
    ASSUME [PipelineNext]_pipelineVars
    PROVE  [Outbox!Next]_(Outbox!vars)
  <1>1. CASE Outbox!Next
    BY <1>1
  <1>2. CASE ConsumerNext /\ UNCHANGED outboxVars
    <2>1. UNCHANGED stream
      BY <1>2 DEF ConsumerNext, Consume, Begin, Record, RecordFails,
         Complete, CompleteFails, Release, Die, ClaimExpires
    <2>2. QED
      BY <1>2, <2>1 DEF outboxVars, Outbox!vars, Outbox!rowVars,
         Outbox!workerVars
  <1>3. CASE UNCHANGED pipelineVars
    BY <1>3 DEF pipelineVars, outboxVars, vars, Outbox!vars,
       Outbox!rowVars, Outbox!workerVars
  <1>4. QED
    BY <1>1, <1>2, <1>3 DEF PipelineNext

(* Joining the consumers to the stream does not disturb the outbox: the    *)
(* pipeline implements the outbox's specification.                         *)
THEOREM PipelineKeepsOutbox == PipelineSpec => Outbox!Spec
  <1>1. PipelineInit => Outbox!Init
    BY DEF PipelineInit
  <1>2. [PipelineNext]_pipelineVars => [Outbox!Next]_(Outbox!vars)
    BY OutboxStutters
  <1>3. QED
    BY <1>1, <1>2, PTL DEF PipelineSpec, Outbox!Spec

(* The invariant of the outbox is one of the pipeline.                     *)
LEMMA PipelineOutboxInv == PipelineSpec => []OutboxFacts!OutboxInv
  <1>1. Outbox!Init => OutboxFacts!OutboxInv
    BY SameOutbox, OutboxFacts!OutboxInit, PipelineAssumption,
       ConsumerAssumption
  <1>2. [Outbox!Next]_(Outbox!vars) => [OutboxFacts!Next]_(OutboxFacts!vars)
    BY SameOutbox DEF Outbox!vars, Outbox!rowVars, Outbox!workerVars,
       OutboxFacts!vars, OutboxFacts!rowVars, OutboxFacts!workerVars
  <1>3. OutboxFacts!OutboxInv /\ [Outbox!Next]_(Outbox!vars)
          => OutboxFacts!OutboxInv'
    BY <1>2, OutboxFacts!OutboxStep, PipelineAssumption, ConsumerAssumption
  <1>4. QED
    BY <1>1, <1>3, PipelineKeepsOutbox, PTL DEF Outbox!Spec

(* What a worker appends to the stream is what it claimed, a message.      *)
LEMMA StreamStep ==
    ASSUME OutboxFacts!OutboxInv, Outbox!Next
    PROVE  stream' = stream \/ \E m \in Messages : stream' = stream \cup {m}
  <1>1. ASSUME NEW w \in Workers, Outbox!Work(w)
        PROVE  stream' = stream \/ \E m \in Messages : stream' = stream \cup {m}
    <2>1. CASE pc[w] = "publish" /\ stream' = stream \cup {current[w]}
      <3>1. current[w] \in Messages
        BY <2>1 DEF OutboxFacts!OutboxInv, OutboxFacts!ClaimIsHeld
      <3>2. QED
        BY <2>1, <3>1
    <2>2. (pc[w] = "publish" /\ stream' = stream \cup {current[w]})
            \/ stream' = stream
      BY <1>1 DEF Outbox!Work, Outbox!Step, Outbox!Preflight,
         Outbox!Claim, Outbox!Rest, Outbox!Publish, Outbox!PublishFails,
         Outbox!MarkPublished, Outbox!MarkPublishedLost,
         Outbox!MarkPublishedErrors, Outbox!MarkFailed,
         Outbox!MarkFailedLost, Outbox!MarkFailedErrors, Outbox!Crash,
         Outbox!Restart
    <2>3. QED
      BY <2>1, <2>2
  <1>2. CASE Outbox!Clock \/ Outbox!Redis
    BY <1>2 DEF Outbox!Clock, Outbox!LeaseExpires, Outbox!BackoffElapses,
       Outbox!Redis, Outbox!RedisFails, Outbox!RedisRecovers
  <1>3. QED
    BY <1>1, <1>2 DEF Outbox!Next

(* A step of the pipeline is a step of the consumers, of the workers that  *)
(* feed them (EntryAppears), or leaves the consumers alone.                *)
LEMMA ConsumersStutter ==
    ASSUME OutboxFacts!OutboxInv, [PipelineNext]_pipelineVars
    PROVE  [Next]_vars
  <1>1. CASE Outbox!Next /\ UNCHANGED consumerVars
    <2>1. CASE stream' = stream
      BY <1>1, <2>1 DEF vars
    <2>2. ASSUME NEW m \in Messages, stream' = stream \cup {m}
          PROVE  [Next]_vars
      <3>1. CASE m \in stream
        <4>1. stream' = stream
          BY <2>2, <3>1
        <4>2. QED
          BY <1>1, <4>1 DEF vars
      <3>2. CASE m \notin stream
        BY <1>1, <2>2, <3>2 DEF Next, EntryAppears
      <3>3. QED
        BY <3>1, <3>2
    <2>3. QED
      BY <1>1, <2>1, <2>2, StreamStep
  <1>2. CASE ConsumerNext
    BY <1>2 DEF Next
  <1>3. CASE UNCHANGED pipelineVars
    BY <1>3 DEF pipelineVars
  <1>4. QED
    BY <1>1, <1>2, <1>3 DEF PipelineNext

(* The workers do for the consumers what EntryAppears promises: the        *)
(* pipeline implements the consumers' specification.                       *)
THEOREM PipelineFeedsConsumers == PipelineSpec => Spec
  <1>1. PipelineInit => Init
    BY DEF PipelineInit, Init, Outbox!Init
  <1>2. OutboxFacts!OutboxInv /\ [PipelineNext]_pipelineVars => [Next]_vars
    BY ConsumersStutter
  <1>3. QED
    BY <1>1, <1>2, PipelineOutboxInv, PTL DEF PipelineSpec, Spec

(* No consumer knows of a message the stream does not have.                *)
LedgerFollowsStream == \A m \in Messages : ledger[m] # None => m \in stream

(* Only Begin makes a row, for an entry of the stream.                     *)
LEMMA LedgerFollows ==
    ASSUME ConsumerInv, LedgerFollowsStream, [Next]_vars
    PROVE  LedgerFollowsStream'
  <1> USE DEF LedgerFollowsStream
  <1>1. ASSUME NEW c \in Consumers, NEW m \in Messages, Begin(c, m)
        PROVE  LedgerFollowsStream'
    BY <1>1 DEF Begin, ConsumerInv, ConsumerTypeOK
  <1>2. ASSUME NEW m \in Messages, SetCompleted(m) \/ Delete(m),
               UNCHANGED stream
        PROVE  LedgerFollowsStream'
    BY <1>2, ConsumerAssumption
    DEF SetCompleted, Delete, ConsumerInv, ConsumerTypeOK
  <1>3. ASSUME UNCHANGED ledger, stream \subseteq stream'
        PROVE  LedgerFollowsStream'
    BY <1>3
  <1>4. ASSUME NEW c \in Consumers, Consume(c)
        PROVE  LedgerFollowsStream'
    <2>1. CASE \E m \in Messages : Begin(c, m)
      BY <2>1, <1>1
    <2>2. CASE Record(c) \/ RecordFails(c) \/ Die(c)
      BY <2>2, <1>3 DEF Record, RecordFails, Die
    <2>3. CASE Complete(c) \/ CompleteFails(c) \/ Release(c)
      <3>1. handling[c] \in Messages
        BY <2>3 DEF Complete, CompleteFails, Release, ConsumerInv,
           RecordedBeforeComplete
      <3>2. /\ UNCHANGED stream
            /\ \/ SetCompleted(handling[c]) \/ Delete(handling[c])
               \/ UNCHANGED ledger
        BY <2>3 DEF Complete, CompleteFails, Release
      <3>3. QED
        BY <3>1, <3>2, <1>2, <1>3
    <2>4. QED
      BY <1>4, <2>1, <2>2, <2>3 DEF Consume
  <1>5. CASE \E m \in Messages : ClaimExpires(m) \/ EntryAppears(m)
    BY <1>5, <1>3 DEF ClaimExpires, EntryAppears, consumerVars
  <1>6. CASE UNCHANGED vars
    BY <1>6, <1>3 DEF vars, consumerVars
  <1>7. QED
    BY <1>4, <1>5, <1>6 DEF Next, ConsumerNext

(* End to end, a message is completed only after it was appended and       *)
(* recorded, and a row's status tells what became of it (StatusIsTrue),    *)
(* whichever workers and consumers lost their leases or died on the way.   *)
THEOREM PipelineIsSound ==
    PipelineSpec => /\ []CompletedWasRecorded
                    /\ CompletionIsFinal
                    /\ []LedgerFollowsStream
                    /\ []Outbox!StatusIsTrue
  <1>1. OutboxFacts!OutboxInv => Outbox!StatusIsTrue
    BY SameOutbox DEF OutboxFacts!OutboxInv, OutboxFacts!StatusIsTrue
  <1>2. Init => LedgerFollowsStream
    BY DEF Init, InitConsumers, LedgerFollowsStream
  <1>3. ConsumerInv /\ LedgerFollowsStream /\ [Next]_vars
          => LedgerFollowsStream'
    BY LedgerFollows
  <1>4. Spec => []LedgerFollowsStream
    BY <1>2, <1>3, ConsumerInvariant, PTL DEF Spec
  <1>5. QED
    BY <1>1, <1>4, PipelineOutboxInv, PipelineFeedsConsumers,
       CompletedOnlyIfRecorded, CompletedForGood, PTL
=============================================================================
