--------------------------- MODULE OutboxDelivery ---------------------------
(***************************************************************************)
(* Delivery of outbox_events rows to the Redis stream: OutboxWorkerRuntime *)
(* and OutboxWorker over PostgresOutboxRepository and                      *)
(* NodeRedisStreamClient.                                                  *)
(*                                                                         *)
(* A worker claims one row under a lease, appends it to the stream and     *)
(* marks it published, or counts a failure.  Time is abstracted to two     *)
(* facts about a row: whether its lease still runs and whether its next    *)
(* attempt is due.  A lease may run out at any moment, because nothing     *)
(* bounds how long a paused process or a slow query takes.  Every          *)
(* statement may fail before it commits, or commit and lose its answer.    *)
(***************************************************************************)
EXTENDS Naturals

CONSTANTS
    Workers,      \* worker processes, each with its own worker id
    Messages,     \* outbox rows; the order of <occurred_at, id> is <
    MaxAttempts,  \* options.maximumAttempts
    BatchSize,    \* options.batchSize
    None

ASSUME MessagesAssumption == Messages \subseteq Nat

ASSUME OptionsAssumption ==
    /\ MaxAttempts \in Nat \ {0}
    /\ BatchSize \in Nat \ {0}
    /\ None \notin Workers \cup Messages

VARIABLES
    status,    \* message -> "pending", "published" or "dead"
    lockedBy,  \* message -> locked_by
    leased,    \* message -> locked_until lies in the future
    due,       \* message -> next_attempt_at has passed
    retries,   \* message -> retry_count
    stream,    \* the messages that have an entry in the Redis stream
    redisUp,   \* whether Redis accepts commands
    pc,        \* worker -> what it does next
    current,   \* worker -> the message it claimed
    seen,      \* worker -> the retryCount the claim returned
    taken      \* worker -> rows claimed in this batch

rowVars == <<status, lockedBy, leased, due, retries>>
workerVars == <<pc, current, seen, taken>>
vars == <<rowVars, stream, redisUp, workerVars>>

-----------------------------------------------------------------------------
Init ==
    /\ status = [m \in Messages |-> "pending"]
    /\ lockedBy = [m \in Messages |-> None]
    /\ leased = [m \in Messages |-> FALSE]
    /\ due = [m \in Messages |-> TRUE]
    /\ retries = [m \in Messages |-> 0]
    /\ stream = {}
    /\ redisUp = TRUE
    /\ pc = [w \in Workers |-> "preflight"]
    /\ current = [w \in Workers |-> None]
    /\ seen = [w \in Workers |-> 0]
    /\ taken = [w \in Workers |-> 0]

Goto(w, label) == pc' = [pc EXCEPT ![w] = label]

(* The row is unlocked; nobody else's lease is touched.                    *)
Unlock(m) ==
    /\ lockedBy' = [lockedBy EXCEPT ![m] = None]
    /\ leased' = [leased EXCEPT ![m] = FALSE]

(* The batch is over: the worker forgets its message and returns to the    *)
(* runtime loop, or dies.                                                  *)
EndBatch(w, label) ==
    /\ Goto(w, label)
    /\ current' = [current EXCEPT ![w] = None]
    /\ seen' = [seen EXCEPT ![w] = 0]
    /\ taken' = [taken EXCEPT ![w] = 0]

(* Redis is verified before PostgreSQL grants a lease.                     *)
Preflight(w) ==
    /\ pc[w] = "preflight"
    /\ redisUp
    /\ Goto(w, "claim")
    /\ UNCHANGED <<rowVars, stream, redisUp, current, seen, taken>>

(* The candidates of claimBatch that ignore rows locked by a worker that   *)
(* died.                                                                   *)
Claimable_OnlyUnlocked(m) ==
    /\ status[m] = "pending"
    /\ due[m]
    /\ lockedBy[m] = None

Claimable(m) ==
    /\ status[m] = "pending"
    /\ due[m]
    /\ ~ leased[m]

(* claimBatch(workerId, 1, lockDurationMs): the oldest candidate, under a  *)
(* fresh lease.                                                            *)
Claim(w) ==
    /\ pc[w] = "claim"
    /\ taken[w] < BatchSize
    /\ \E m \in Messages :
         /\ Claimable(m)
         /\ \A n \in Messages : Claimable(n) => m <= n
         /\ lockedBy' = [lockedBy EXCEPT ![m] = w]
         /\ leased' = [leased EXCEPT ![m] = TRUE]
         /\ current' = [current EXCEPT ![w] = m]
         /\ seen' = [seen EXCEPT ![w] = retries[m]]
    /\ taken' = [taken EXCEPT ![w] = @ + 1]
    /\ Goto(w, "publish")
    /\ UNCHANGED <<status, due, retries, stream, redisUp>>

(* Nothing to claim, or the batch is full: back to the runtime loop.       *)
Rest(w) ==
    /\ pc[w] = "claim"
    /\ \/ taken[w] = BatchSize
       \/ \A m \in Messages : ~ Claimable(m)
    /\ EndBatch(w, "preflight")
    /\ UNCHANGED <<rowVars, stream, redisUp>>

(* XADD, acknowledged.                                                     *)
Publish(w) ==
    /\ pc[w] = "publish"
    /\ redisUp
    /\ stream' = stream \cup {current[w]}
    /\ Goto(w, "mark")
    /\ UNCHANGED <<rowVars, redisUp, current, seen, taken>>

(* XADD refused, timed out or interrupted by destroying the socket, with   *)
(* or without having been applied.                                         *)
PublishFails(w) ==
    /\ pc[w] = "publish"
    /\ \/ redisUp /\ stream' = stream \cup {current[w]}
       \/ UNCHANGED stream
    /\ Goto(w, "fail")
    /\ UNCHANGED <<rowVars, redisUp, current, seen, taken>>

(* executeOwnedUpdate trusting the claim: no locked_by in the WHERE.       *)
Owned_AnyWorker(w, m) == status[m] = "pending"

(* The WHERE clause of executeOwnedUpdate's statements.                    *)
Owned(w, m) == lockedBy[m] = w /\ status[m] = "pending"

SetPublished(w) ==
    /\ status' = [status EXCEPT ![current[w]] = "published"]
    /\ Unlock(current[w])
    /\ UNCHANGED <<due, retries>>

(* markPublished, acknowledged; the loop claims the next row.              *)
MarkPublished(w) ==
    /\ pc[w] = "mark"
    /\ Owned(w, current[w])
    /\ SetPublished(w)
    /\ Goto(w, "claim")
    /\ UNCHANGED <<stream, redisUp, current, seen, taken>>

(* The row is no longer owned by this worker: markPublished throws into    *)
(* the same catch as publish.                                              *)
MarkPublishedLost(w) ==
    /\ pc[w] = "mark"
    /\ ~ Owned(w, current[w])
    /\ Goto(w, "fail")
    /\ UNCHANGED <<rowVars, stream, redisUp, current, seen, taken>>

(* The statement failed, before or after its commit.                       *)
MarkPublishedErrors(w) ==
    /\ pc[w] = "mark"
    /\ Owned(w, current[w])
    /\ UNCHANGED rowVars \/ SetPublished(w)
    /\ Goto(w, "fail")
    /\ UNCHANGED <<stream, redisUp, current, seen, taken>>

(* One more failed attempt; the last one allowed dead-letters the row.     *)
(* The limit is compared with the count the claim returned.                *)
SetFailed(w) ==
    LET m == current[w]
        isDeadLetter == seen[w] + 1 >= MaxAttempts
    IN
    /\ retries' = [retries EXCEPT ![m] = @ + 1]
    /\ due' = [due EXCEPT ![m] = FALSE]
    /\ status' = [status EXCEPT ![m] = IF isDeadLetter THEN "dead" ELSE @]
    /\ Unlock(m)

(* markFailed, acknowledged: break out of the batch.                       *)
MarkFailed(w) ==
    /\ pc[w] = "fail"
    /\ Owned(w, current[w])
    /\ SetFailed(w)
    /\ EndBatch(w, "preflight")
    /\ UNCHANGED <<stream, redisUp>>

(* markFailed threw because ownership was lost.  The error is fatal to the *)
(* required worker, and with it the process stops.                         *)
MarkFailedLost(w) ==
    /\ pc[w] = "fail"
    /\ ~ Owned(w, current[w])
    /\ EndBatch(w, "down")
    /\ UNCHANGED <<rowVars, stream, redisUp>>

(* The statement failed, before or after its commit: fatal as well.        *)
MarkFailedErrors(w) ==
    /\ pc[w] = "fail"
    /\ Owned(w, current[w])
    /\ UNCHANGED rowVars \/ SetFailed(w)
    /\ EndBatch(w, "down")
    /\ UNCHANGED <<stream, redisUp>>

(* A crash, a shutdown signal (which leaves the lease), or a fatal error   *)
(* of a statement or of the preflight.                                     *)
Crash(w) ==
    /\ pc[w] # "down"
    /\ EndBatch(w, "down")
    /\ UNCHANGED <<rowVars, stream, redisUp>>

Restart(w) ==
    /\ pc[w] = "down"
    /\ Goto(w, "preflight")
    /\ UNCHANGED <<rowVars, stream, redisUp, current, seen, taken>>

LeaseExpires(m) ==
    /\ leased[m]
    /\ leased' = [leased EXCEPT ![m] = FALSE]
    /\ UNCHANGED <<status, lockedBy, due, retries, stream, redisUp,
                   workerVars>>

BackoffElapses(m) ==
    /\ ~ due[m]
    /\ due' = [due EXCEPT ![m] = TRUE]
    /\ UNCHANGED <<status, lockedBy, leased, retries, stream, redisUp,
                   workerVars>>

RedisFails ==
    /\ redisUp
    /\ redisUp' = FALSE
    /\ UNCHANGED <<rowVars, stream, workerVars>>

RedisRecovers ==
    /\ ~ redisUp
    /\ redisUp' = TRUE
    /\ UNCHANGED <<rowVars, stream, workerVars>>

Step(w) ==
    \/ Preflight(w) \/ Claim(w) \/ Rest(w)
    \/ Publish(w) \/ PublishFails(w)
    \/ MarkPublished(w) \/ MarkPublishedLost(w)
    \/ MarkFailed(w) \/ MarkFailedLost(w)
    \/ Restart(w)

Work(w) ==
    Step(w) \/ MarkPublishedErrors(w) \/ MarkFailedErrors(w) \/ Crash(w)

Clock == \E m \in Messages : LeaseExpires(m) \/ BackoffElapses(m)

Redis == RedisFails \/ RedisRecovers

Next == (\E w \in Workers : Work(w)) \/ Clock \/ Redis

Spec == Init /\ [][Next]_vars

(* A worker is busy with m under a lease of its own.                       *)
Held(m) == \E w \in Workers : current[w] = m /\ lockedBy[m] = w

(* Publishing may go on failing for ever.  The other faults (processes     *)
(* die, Redis or PostgreSQL goes away, a worker is so slow that it         *)
(* outlives its own lease, although lockDurationMs exceeds                 *)
(* publishTimeoutMs by a second) may strike any number of times but not    *)
(* for ever.                                                               *)
Fault ==
    \/ RedisFails
    \/ \E w \in Workers : MarkPublishedErrors(w) \/ MarkFailedErrors(w)
                            \/ Crash(w)
    \/ \E m \in Messages : Held(m) /\ LeaseExpires(m)

(* Running workers keep executing, dead ones are restarted, clocks advance *)
(* and Redis comes back.                                                   *)
Fairness ==
    /\ <>[][~ Fault]_vars
    /\ WF_vars(RedisRecovers)
    /\ \A w \in Workers : WF_vars(Step(w))
    /\ \A m \in Messages : /\ WF_vars(BackoffElapses(m))
                            /\ WF_vars(~ Held(m) /\ LeaseExpires(m))

FairSpec == Spec /\ Fairness

-----------------------------------------------------------------------------
(* Properties.                                                             *)

(* Type correctness, with the CHECK constraint outbox_lock_complete: a     *)
(* lease has an owner, and only a pending row has one.                     *)
TypeOK ==
    /\ status \in [Messages -> {"pending", "published", "dead"}]
    /\ lockedBy \in [Messages -> Workers \cup {None}]
    /\ leased \in [Messages -> BOOLEAN]
    /\ due \in [Messages -> BOOLEAN]
    /\ retries \in [Messages -> 0..MaxAttempts]
    /\ stream \subseteq Messages
    /\ redisUp \in BOOLEAN
    /\ pc \in [Workers -> {"preflight", "claim", "publish", "mark", "fail",
                           "down"}]
    /\ current \in [Workers -> Messages \cup {None}]
    /\ seen \in [Workers -> 0..MaxAttempts]
    /\ taken \in [Workers -> 0..BatchSize]
    /\ \A m \in Messages :
         leased[m] => lockedBy[m] # None /\ status[m] = "pending"

(* A row is dead-lettered exactly when its attempts are used up, although  *)
(* the worker compares the limit with a count it read at claim time and    *)
(* the statement increments the count stored in the row: no lost lease     *)
(* makes a row die early or be retried past the limit.                     *)
DeadExactlyAtLimit ==
    \A m \in Messages : status[m] = "dead" <=> retries[m] = MaxAttempts

(* A row is marked published only when the stream has it, whichever of     *)
(* the workers that held it in turn appended it.                           *)
PublishedIsInStream ==
    \A m \in Messages : status[m] = "published" => m \in stream

(* The final status of a row tells what happened to it, although it is     *)
(* written by workers that may have lost the row in the meantime           *)
(* (markPublished, markFailed).                                            *)
StatusIsTrue == DeadExactlyAtLimit /\ PublishedIsInStream

(* Every outbox row is eventually published or dead-lettered: a worker     *)
(* that dies with a lease, an outage of Redis or a lost acknowledgement    *)
(* strands nothing, even if every publish fails.                           *)
EventuallySettled == \A m \in Messages : <>(status[m] # "pending")
=============================================================================
