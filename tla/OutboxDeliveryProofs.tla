------------------------ MODULE OutboxDeliveryProofs ------------------------
(***************************************************************************)
(* Proofs about OutboxDelivery, for any workers, messages and options.     *)
(***************************************************************************)
EXTENDS OutboxDelivery, TLAPS

(* A worker past its claim has a message, and past publish the stream has  *)
(* that message.                                                           *)
ClaimIsHeld ==
    \A w \in Workers :
      /\ pc[w] \in {"publish", "mark", "fail"} => current[w] \in Messages
      /\ pc[w] = "mark" => current[w] \in stream

(* As long as a worker owns its row, the count it read is the row's.       *)
SeenIsCurrent ==
    \A w \in Workers :
      pc[w] \in {"publish", "mark", "fail"} /\ Owned(w, current[w])
        => seen[w] = retries[current[w]]

OutboxInv ==
    TypeOK /\ ClaimIsHeld /\ SeenIsCurrent
      /\ DeadExactlyAtLimit /\ PublishedIsInStream

(* The invariant holds initially: nothing is claimed, counted or settled.  *)
LEMMA OutboxInit == Init => OutboxInv
  BY OptionsAssumption
  DEF Init, OutboxInv, TypeOK, ClaimIsHeld, SeenIsCurrent, Owned,
      DeadExactlyAtLimit, PublishedIsInStream

(* A committed markPublished keeps the invariant of the rows.              *)
LEMMA SetPublishedStep ==
    ASSUME OutboxInv, NEW w \in Workers, pc[w] = "mark",
           Owned(w, current[w]), SetPublished(w),
           UNCHANGED <<stream, redisUp>>,
           current' = current, seen' = seen, taken' = taken,
           NEW l \in {"claim", "fail"}, Goto(w, l)
    PROVE  OutboxInv'
  <1> USE DEF OutboxInv
  <1>1. current[w] \in Messages /\ current[w] \in stream
    BY DEF ClaimIsHeld
  <1>2. TypeOK'
    BY <1>1 DEF SetPublished, Unlock, Goto, TypeOK
  <1>3. ClaimIsHeld'
    BY <1>1 DEF Goto, ClaimIsHeld, TypeOK
  <1>4. SeenIsCurrent'
    BY <1>1 DEF SetPublished, Unlock, Goto, SeenIsCurrent, Owned, TypeOK
  <1>5. DeadExactlyAtLimit'
    BY <1>1 DEF SetPublished, DeadExactlyAtLimit, Owned, TypeOK
  <1>6. PublishedIsInStream'
    BY <1>1 DEF SetPublished, PublishedIsInStream, TypeOK
  <1>7. QED
    BY <1>2, <1>3, <1>4, <1>5, <1>6

(* A committed markFailed keeps it too: the row is owned, so the count     *)
(* read at claim time is the stored one, and the row dies exactly when the *)
(* stored count reaches the limit.                                         *)
LEMMA SetFailedStep ==
    ASSUME OutboxInv, NEW w \in Workers, pc[w] = "fail",
           Owned(w, current[w]), SetFailed(w),
           UNCHANGED <<stream, redisUp>>,
           NEW l \in {"preflight", "down"}, EndBatch(w, l)
    PROVE  OutboxInv'
  <1> USE DEF OutboxInv
  <1> DEFINE m == current[w]
  <1>1. /\ m \in Messages /\ seen[w] = retries[m]
        /\ status[m] = "pending"
    BY DEF ClaimIsHeld, SeenIsCurrent, Owned
  <1>2. retries[m] \in 0..MaxAttempts /\ retries[m] # MaxAttempts
    BY <1>1 DEF TypeOK, DeadExactlyAtLimit
  <1>3. retries[m] + 1 \in 0..MaxAttempts
    BY <1>2, OptionsAssumption
  <1>4. /\ retries' = [retries EXCEPT ![m] = retries[m] + 1]
        /\ status' = [status EXCEPT ![m] =
                        IF retries[m] + 1 >= MaxAttempts
                        THEN "dead" ELSE "pending"]
        /\ lockedBy' = [lockedBy EXCEPT ![m] = None]
        /\ due' = [due EXCEPT ![m] = FALSE]
        /\ leased' = [leased EXCEPT ![m] = FALSE]
    <2>1. (IF seen[w] + 1 >= MaxAttempts THEN "dead" ELSE status[m])
            = (IF retries[m] + 1 >= MaxAttempts THEN "dead" ELSE "pending")
      BY <1>1
    <2>2. status' = [status EXCEPT ![m] =
                       IF retries[m] + 1 >= MaxAttempts
                       THEN "dead" ELSE "pending"]
      BY <2>1 DEF SetFailed
    <2>3. QED
      BY <2>2 DEF SetFailed, Unlock
  <1>5. TypeOK'
    <2>1. status' \in [Messages -> {"pending", "published", "dead"}]
      BY <1>4 DEF TypeOK
    <2>2. /\ retries' \in [Messages -> 0..MaxAttempts]
          /\ lockedBy' \in [Messages -> Workers \cup {None}]
          /\ due' \in [Messages -> BOOLEAN]
          /\ leased' \in [Messages -> BOOLEAN]
      BY <1>3, <1>4 DEF TypeOK
    <2>3. /\ pc' = [pc EXCEPT ![w] = l]
          /\ current' = [current EXCEPT ![w] = None]
          /\ seen' = [seen EXCEPT ![w] = 0]
          /\ taken' = [taken EXCEPT ![w] = 0]
          /\ 0 \in 0..MaxAttempts /\ 0 \in 0..BatchSize
      BY OptionsAssumption DEF EndBatch, Goto
    <2>4. \A n \in Messages :
            leased'[n] => lockedBy'[n] # None /\ status'[n] = "pending"
      BY <1>1, <1>4 DEF TypeOK
    <2>5. QED
      BY <2>1, <2>2, <2>3, <2>4 DEF TypeOK
  <1>6. ClaimIsHeld'
    BY DEF EndBatch, Goto, ClaimIsHeld, TypeOK
  <1>7. SeenIsCurrent'
    <2> SUFFICES ASSUME NEW v \in Workers,
                        pc'[v] \in {"publish", "mark", "fail"},
                        Owned(v, current[v])'
                 PROVE  seen'[v] = retries'[current'[v]]
      BY DEF SeenIsCurrent
    <2>1. v # w
      BY DEF EndBatch, Goto, TypeOK
    <2>2. /\ pc'[v] = pc[v] /\ current'[v] = current[v] /\ seen'[v] = seen[v]
          /\ current[v] \in Messages
      BY <2>1 DEF EndBatch, Goto, ClaimIsHeld, TypeOK
    <2>3. current[v] # m
      BY <1>1, <1>4, <2>2, OptionsAssumption DEF Owned, TypeOK
    <2>4. Owned(v, current[v]) /\ retries'[current[v]] = retries[current[v]]
      BY <1>1, <1>4, <2>2, <2>3 DEF Owned, TypeOK
    <2>5. QED
      BY <2>2, <2>4 DEF SeenIsCurrent
  <1>8. DeadExactlyAtLimit'
    BY <1>1, <1>2, <1>3, <1>4, OptionsAssumption
    DEF DeadExactlyAtLimit, TypeOK
  <1>9. PublishedIsInStream'
    BY <1>1, <1>4 DEF PublishedIsInStream, TypeOK
  <1>10. QED
    BY <1>5, <1>6, <1>7, <1>8, <1>9

(* A claim opens a lease on a row and reads its count.                     *)
LEMMA ClaimStep ==
    ASSUME OutboxInv, NEW w \in Workers, Claim(w)
    PROVE  OutboxInv'
  <1> USE DEF OutboxInv
  <1>1. PICK m \in Messages :
          /\ Claimable(m)
          /\ lockedBy' = [lockedBy EXCEPT ![m] = w]
          /\ leased' = [leased EXCEPT ![m] = TRUE]
          /\ current' = [current EXCEPT ![w] = m]
          /\ seen' = [seen EXCEPT ![w] = retries[m]]
    BY DEF Claim
  <1>2. /\ pc' = [pc EXCEPT ![w] = "publish"]
        /\ taken' = [taken EXCEPT ![w] = taken[w] + 1]
        /\ taken[w] + 1 \in 0..BatchSize
        /\ UNCHANGED <<status, due, retries, stream, redisUp>>
    BY OptionsAssumption DEF Claim, Goto, TypeOK
  <1>3. TypeOK'
    <2>1. \A n \in Messages :
            leased'[n] => lockedBy'[n] # None /\ status'[n] = "pending"
      BY <1>1, <1>2, OptionsAssumption DEF Claimable, TypeOK
    <2>2. QED
      BY <1>1, <1>2, <2>1 DEF TypeOK
  <1>4. ClaimIsHeld'
    BY <1>1, <1>2 DEF ClaimIsHeld, TypeOK
  <1>5. SeenIsCurrent'
    <2> SUFFICES ASSUME NEW v \in Workers,
                        pc'[v] \in {"publish", "mark", "fail"},
                        Owned(v, current[v])'
                 PROVE  seen'[v] = retries'[current'[v]]
      BY DEF SeenIsCurrent
    <2>1. CASE v = w
      BY <1>1, <1>2, <2>1 DEF TypeOK
    <2>2. CASE v # w
      <3>1. /\ pc'[v] = pc[v] /\ current'[v] = current[v]
            /\ seen'[v] = seen[v] /\ current[v] \in Messages
        BY <1>1, <1>2, <2>2 DEF ClaimIsHeld, TypeOK
      <3>2. Owned(v, current[v])
        BY <1>1, <1>2, <2>2, <3>1 DEF Owned, TypeOK
      <3>3. QED
        BY <1>2, <3>1, <3>2 DEF SeenIsCurrent
    <2>3. QED
      BY <2>1, <2>2
  <1>6. DeadExactlyAtLimit' /\ PublishedIsInStream'
    BY <1>2 DEF DeadExactlyAtLimit, PublishedIsInStream
  <1>7. QED
    BY <1>3, <1>4, <1>5, <1>6

(* Everything a worker does preserves the invariant.                       *)
LEMMA WorkStep ==
    ASSUME OutboxInv, NEW w \in Workers, Work(w)
    PROVE  OutboxInv'
  <1>1. CASE Preflight(w)
    BY <1>1 DEF Preflight, Goto, rowVars, OutboxInv, TypeOK, ClaimIsHeld,
       SeenIsCurrent, Owned, DeadExactlyAtLimit, PublishedIsInStream
  <1>2. CASE Claim(w)
    BY <1>2, ClaimStep
  <1>3. CASE Rest(w) \/ MarkFailedLost(w) \/ Crash(w)
    <2>1. /\ UNCHANGED <<rowVars, stream, redisUp>>
          /\ \E l \in {"preflight", "down"} : EndBatch(w, l)
      BY <1>3 DEF Rest, MarkFailedLost, Crash
    <2>2. QED
      BY <2>1, OptionsAssumption DEF EndBatch, Goto, rowVars, OutboxInv,
         TypeOK, ClaimIsHeld, SeenIsCurrent, Owned, DeadExactlyAtLimit,
         PublishedIsInStream
  <1>4. CASE Publish(w) \/ PublishFails(w)
    <2>1. current[w] \in Messages
      BY <1>4 DEF Publish, PublishFails, OutboxInv, ClaimIsHeld
    <2>2. UNCHANGED <<rowVars, redisUp, current, seen, taken>>
      BY <1>4 DEF Publish, PublishFails
    <2>3. stream \subseteq stream' /\ stream' \subseteq Messages
      BY <1>4, <2>1 DEF Publish, PublishFails, OutboxInv, TypeOK
    <2>4. \/ pc' = [pc EXCEPT ![w] = "mark"] /\ current[w] \in stream'
          \/ pc' = [pc EXCEPT ![w] = "fail"]
      BY <1>4 DEF Publish, PublishFails, Goto
    <2>5. pc[w] = "publish"
      BY <1>4 DEF Publish, PublishFails
    <2>6. TypeOK' /\ ClaimIsHeld'
      BY <2>1, <2>2, <2>3, <2>4
      DEF OutboxInv, rowVars, TypeOK, ClaimIsHeld
    <2>7. SeenIsCurrent'
      BY <2>1, <2>2, <2>4, <2>5
      DEF OutboxInv, rowVars, TypeOK, SeenIsCurrent, Owned
    <2>8. DeadExactlyAtLimit' /\ PublishedIsInStream'
      BY <2>2, <2>3
      DEF OutboxInv, rowVars, DeadExactlyAtLimit, PublishedIsInStream
    <2>9. QED
      BY <2>6, <2>7, <2>8 DEF OutboxInv
  <1>5. CASE MarkPublished(w)
    BY <1>5, SetPublishedStep DEF MarkPublished
  <1>6. CASE MarkPublishedLost(w) \/ (MarkPublishedErrors(w)
                                      /\ UNCHANGED rowVars)
    BY <1>6 DEF MarkPublishedLost, MarkPublishedErrors, Goto, rowVars,
       OutboxInv, TypeOK, ClaimIsHeld, SeenIsCurrent, Owned,
       DeadExactlyAtLimit, PublishedIsInStream
  <1>7. CASE MarkPublishedErrors(w) /\ SetPublished(w)
    BY <1>7, SetPublishedStep DEF MarkPublishedErrors
  <1>8. CASE MarkFailed(w)
    BY <1>8, SetFailedStep DEF MarkFailed
  <1>9. CASE MarkFailedErrors(w) /\ SetFailed(w)
    BY <1>9, SetFailedStep DEF MarkFailedErrors
  <1>10. CASE MarkFailedErrors(w) /\ UNCHANGED rowVars
    BY <1>10, OptionsAssumption DEF MarkFailedErrors, EndBatch, Goto,
       rowVars, OutboxInv, TypeOK, ClaimIsHeld, SeenIsCurrent, Owned,
       DeadExactlyAtLimit, PublishedIsInStream
  <1>11. CASE Restart(w)
    BY <1>11 DEF Restart, Goto, rowVars, OutboxInv, TypeOK, ClaimIsHeld,
       SeenIsCurrent, Owned, DeadExactlyAtLimit, PublishedIsInStream
  <1>12. QED
    BY <1>1, <1>2, <1>3, <1>4, <1>5, <1>6, <1>7, <1>8, <1>9, <1>10, <1>11
    DEF Work, Step, MarkPublishedErrors, MarkFailedErrors

(* The invariant is inductive.                                             *)
LEMMA OutboxStep == OutboxInv /\ [Next]_vars => OutboxInv'
  <1> SUFFICES ASSUME OutboxInv, [Next]_vars
               PROVE  OutboxInv'
    OBVIOUS
  <1>1. CASE \E w \in Workers : Work(w)
    BY <1>1, WorkStep
  <1>2. CASE Clock
    <2>1. UNCHANGED <<status, lockedBy, retries, stream, redisUp, workerVars>>
      BY <1>2 DEF Clock, LeaseExpires, BackoffElapses
    <2>2. /\ leased' \in [Messages -> BOOLEAN]
          /\ due' \in [Messages -> BOOLEAN]
          /\ \A m \in Messages : leased'[m] => leased[m]
      BY <1>2 DEF Clock, LeaseExpires, BackoffElapses, OutboxInv, TypeOK
    <2>3. TypeOK'
      BY <2>1, <2>2, Zenon DEF workerVars, OutboxInv, TypeOK
    <2>4. (ClaimIsHeld /\ SeenIsCurrent /\ DeadExactlyAtLimit
             /\ PublishedIsInStream)'
      BY <2>1 DEF workerVars, OutboxInv, ClaimIsHeld, SeenIsCurrent, Owned,
         DeadExactlyAtLimit, PublishedIsInStream
    <2>5. QED
      BY <2>3, <2>4 DEF OutboxInv
  <1>3. CASE Redis
    <2>1. UNCHANGED <<rowVars, stream, workerVars>> /\ redisUp' \in BOOLEAN
      BY <1>3 DEF Redis, RedisFails, RedisRecovers
    <2>2. TypeOK'
      BY <2>1, Zenon DEF rowVars, workerVars, OutboxInv, TypeOK
    <2>3. (ClaimIsHeld /\ SeenIsCurrent /\ DeadExactlyAtLimit
             /\ PublishedIsInStream)'
      BY <2>1 DEF rowVars, workerVars, OutboxInv, ClaimIsHeld,
         SeenIsCurrent, Owned, DeadExactlyAtLimit, PublishedIsInStream
    <2>4. QED
      BY <2>2, <2>3 DEF OutboxInv
  <1>4. CASE UNCHANGED vars
    BY <1>4 DEF vars, rowVars, workerVars, OutboxInv, TypeOK, ClaimIsHeld,
       SeenIsCurrent, Owned, DeadExactlyAtLimit, PublishedIsInStream
  <1>5. QED
    BY <1>1, <1>2, <1>3, <1>4 DEF Next

(* The outbox invariant holds in every reachable state.                    *)
THEOREM OutboxInvariant == Spec => []OutboxInv
  BY OutboxInit, OutboxStep, PTL DEF Spec

(* The outbox tables and the workers' memory have the types of TypeOK; in  *)
(* particular retry_count never exceeds maximumAttempts.                   *)
THEOREM OutboxTypeCorrect == Spec => []TypeOK
  <1>1. OutboxInv => TypeOK
    BY DEF OutboxInv
  <1>2. QED
    BY <1>1, OutboxInvariant, PTL

(* Rows are dead-lettered exactly at the attempt limit, for any number of  *)
(* workers stealing each other's expired leases.                           *)
THEOREM DeadLetteredAtLimit == Spec => []DeadExactlyAtLimit
  <1>1. OutboxInv => DeadExactlyAtLimit
    BY DEF OutboxInv
  <1>2. QED
    BY <1>1, OutboxInvariant, PTL

(* Nothing is marked published that the stream does not hold.              *)
THEOREM PublishedOnlyIfAppended == Spec => []PublishedIsInStream
  <1>1. OutboxInv => PublishedIsInStream
    BY DEF OutboxInv
  <1>2. QED
    BY <1>1, OutboxInvariant, PTL

(* The status of a row says what happened to its message: dead exactly at  *)
(* the attempt limit, published only if the stream holds it.               *)
THEOREM StatusStaysTrue == Spec => []StatusIsTrue
  <1>1. DeadExactlyAtLimit /\ PublishedIsInStream => StatusIsTrue
    BY DEF StatusIsTrue
  <1>2. QED
    BY <1>1, DeadLetteredAtLimit, PublishedOnlyIfAppended, PTL
=============================================================================
