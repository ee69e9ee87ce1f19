--------------------------- MODULE ServiceRuntime ---------------------------
(***************************************************************************)
(* The life of the API's processes: migration of the shared database under *)
(* an advisory lock, the checks before the server listens, the background  *)
(* workers and their supervisor, the Redis client they share, and shutdown *)
(* on a signal or on a worker's failure.  Processes of different releases  *)
(* start, crash and restart side by side, as in a rolling deployment.      *)
(***************************************************************************)
EXTENDS Naturals, FiniteSetsExt

CONSTANTS
    Processes,    \* instances of the API
    Releases,     \* migrations directories: checksums by the number of the file
    Malformed,    \* checksums of files prepareMigrationSql refuses
    Required,     \* migrations that create the relations and columns probed for
    MaxRequests,  \* bound on the requests in flight in a process
    MaxStarts,    \* bound on the processes started
    Vacant        \* no checksum, no holder, no process

Workers == {"outbox", "contact"}
Running == {"idle", "probing", "fallback", "busy"}

Stages == {"locking", "migrating", "body", "probing", "linking", "warming",
           "listening", "draining", "stopping", "closing", "ended"}

Process ==
    [pc : Stages, files : Releases, at : Nat,
     link : {"shut", "queued", "connecting", "ready", "lost"}, closing : BOOLEAN,
     requests : Nat, aborted : BOOLEAN, failed : BOOLEAN,
     workers : [Workers -> Running \cup {"off", "done", "failed"}]]

ASSUME RuntimeAssumption ==
    /\ \A files \in Releases :
          /\ DOMAIN files \subseteq Nat \ {0}
          /\ \A n \in DOMAIN files : files[n] # Vacant
    /\ {MaxRequests, MaxStarts} \subseteq Nat
    /\ Vacant \notin Processes \cup Process

VARIABLES
    ledger,  \* schema_migrations: checksums by name
    lock,    \* holder of pg_advisory_lock('ros-schema-migrations')
    procs,   \* the running processes
    starts   \* processes started so far

runtimeVars == <<ledger, lock, procs, starts>>

Names == UNION {DOMAIN files : files \in Releases}

RuntimeInit ==
    /\ ledger = [n \in Names |-> Vacant]
    /\ lock = Vacant
    /\ procs = [p \in Processes |-> Vacant]
    /\ starts = 0

InStage(p, pc) == procs[p] # Vacant /\ procs[p].pc = pc
Enter(p, pc) == procs' = [procs EXCEPT ![p].pc = pc]

(* The end of a process, or of its startup: its sessions end, and with     *)
(* them a transaction under way and the advisory lock.                     *)
ProcessEnds(p) ==
    /\ procs' = [procs EXCEPT ![p] = Vacant]
    /\ lock' = IF lock = p THEN Vacant ELSE lock
    /\ UNCHANGED <<ledger, starts>>

boot(p) ==
    /\ procs[p] = Vacant
    /\ starts < MaxStarts
    /\ starts' = starts + 1
    /\ \E files \in Releases :
          procs' = [procs EXCEPT ![p] =
             [pc |-> "locking", files |-> files, at |-> 0, link |-> "shut",
              closing |-> FALSE, requests |-> 0, aborted |-> FALSE,
              failed |-> FALSE, workers |-> [w \in Workers |-> "off"]]]
    /\ UNCHANGED <<ledger, lock>>

----------------------------------------------------------------------------
(* runPostgresMigrations                                                   *)

lockMigrations(p) ==
    /\ InStage(p, "locking")
    /\ lock = Vacant
    /\ lock' = p
    /\ Enter(p, "migrating")
    /\ UNCHANGED <<ledger, starts>>

Remaining(p) == {n \in DOMAIN procs[p].files : n > procs[p].at}

AppliedByName(n, checksum) == ledger[n] # Vacant
Applied(n, checksum) == ledger[n] = checksum

(* The next file in lexical order: skipped when it is applied already;     *)
(* refused, like any other failure, when the ledger has another checksum   *)
(* or the file is malformed; begun otherwise.                              *)
examine(p) ==
    /\ InStage(p, "migrating")
    /\ Remaining(p) # {}
    /\ LET n == Min(Remaining(p))
           checksum == procs[p].files[n]
       IN \/ /\ Applied(n, checksum)
             /\ procs' = [procs EXCEPT ![p].at = n]
          \/ /\ ledger[n] = Vacant
             /\ checksum \notin Malformed
             /\ procs' = [procs EXCEPT ![p].at = n, ![p].pc = "body"]
    /\ UNCHANGED <<ledger, lock, starts>>

(* The body and its row commit together, or roll back together.  The       *)
(* primary key refuses a second row.                                       *)
commitMigration(p) ==
    /\ InStage(p, "body")
    /\ ledger[procs[p].at] = Vacant
    /\ ledger' = [ledger EXCEPT ![procs[p].at] = procs[p].files[procs[p].at]]
    /\ Enter(p, "migrating")
    /\ UNCHANGED <<lock, starts>>

unlockMigrations(p) ==
    /\ InStage(p, "migrating")
    /\ Remaining(p) = {}
    /\ lock' = IF lock = p THEN Vacant ELSE lock
    /\ Enter(p, "probing")
    /\ UNCHANGED <<ledger, starts>>

----------------------------------------------------------------------------
(* The rest of bootstrapRoadEventRuntime, and main up to listen            *)

verifyReadiness(p) ==
    /\ InStage(p, "probing")
    /\ \A n \in Required : ledger[n] # Vacant
    /\ Enter(p, "linking")
    /\ UNCHANGED <<ledger, lock, starts>>

redisVerified(p) ==
    /\ InStage(p, "linking")
    /\ procs[p].link = "ready"
    /\ Enter(p, "warming")
    /\ UNCHANGED <<ledger, lock, starts>>

(* One cycle of each worker succeeded: the server listens and the          *)
(* supervisor starts the workers.                                          *)
listen(p) ==
    /\ InStage(p, "warming")
    /\ procs' = [procs EXCEPT ![p].pc = "listening",
                              ![p].workers = [w \in Workers |-> "idle"]]
    /\ UNCHANGED <<ledger, lock, starts>>

(* Whatever fails before listen: resources are closed and startup is       *)
(* refused.                                                                *)
bootFails(p) ==
    /\ procs[p] # Vacant
    /\ procs[p].pc \in {"locking", "migrating", "body", "probing", "linking", "warming"}
    /\ ProcessEnds(p)

crash(p) == procs[p] # Vacant /\ ProcessEnds(p)

----------------------------------------------------------------------------
(* The Redis client.  "queued" is an attempt startConnect has scheduled,   *)
(* "lost" an open client that reconnects by itself.                        *)

Link(p, link) ==
    /\ procs' = [procs EXCEPT ![p].link = link]
    /\ UNCHANGED <<ledger, lock, starts>>

IsOpen(link) == link \in {"connecting", "ready", "lost"}

(* bootstrap, the outbox worker and the readiness probe of a request call  *)
(* ensureConnected.                                                        *)
Using(p) ==
    /\ procs[p] # Vacant
    /\ InStage(p, "linking") \/ procs[p].workers["outbox"] = "probing" \/ procs[p].requests > 0

(* ensureConnected: one attempt at a time.                                 *)
startConnect(p) ==
    /\ Using(p)
    /\ ~procs[p].closing
    /\ procs[p].link = "shut"
    /\ Link(p, "queued")

attempt(p) ==
    /\ procs[p] # Vacant
    /\ procs[p].link = "queued"
    /\ Link(p, IF procs[p].closing THEN "shut" ELSE "connecting")

(* Outcomes of the network, and of the bounded reconnect strategy.         *)
linkChanges(p) ==
    /\ procs[p] # Vacant
    /\ \E change \in {<<"connecting", "ready">>, <<"connecting", "shut">>,
                      <<"ready", "lost">>, <<"lost", "ready">>, <<"lost", "shut">>} :
          /\ procs[p].link = change[1]
          /\ Link(p, change[2])

----------------------------------------------------------------------------
(* The workers and BackgroundWorkerSupervisor                              *)

Work(p, w, from, to) ==
    /\ procs[p] # Vacant
    /\ procs[p].workers[w] = from
    /\ procs' = [procs EXCEPT ![p].workers[w] = to]
    /\ UNCHANGED <<ledger, lock, starts>>

(* A rejected worker: the supervisor notes it and shutdown begins, once.   *)
WorkerFails(p, w) ==
    /\ procs' = [procs EXCEPT ![p].workers[w] = "failed", ![p].failed = TRUE,
                              ![p].pc = IF @ = "listening" THEN "draining" ELSE @]
    /\ UNCHANGED <<ledger, lock, starts>>

(* The head of both loops; the outbox worker verifies Redis first.         *)
cycle(p, w) ==
    /\ procs[p] # Vacant
    /\ Work(p, w, "idle",
            CASE procs[p].aborted -> "done" [] w = "outbox" -> "probing" [] OTHER -> "busy")

(* verifyConnection in the outbox worker: answered, failed or aborted.     *)
verified(p) ==
    /\ procs[p] # Vacant
    /\ procs[p].link = "ready"
    /\ Work(p, "outbox", "probing", IF procs[p].aborted THEN "done" ELSE "busy")

unverified(p) ==
    /\ procs[p] # Vacant
    /\ procs[p].aborted \/ procs[p].closing \/ procs[p].link \in {"shut", "lost", "ready"}
    /\ Work(p, "outbox", "probing", IF procs[p].aborted THEN "done" ELSE "fallback")

(* PostgreSQL is probed before the outbox worker waits for Redis.          *)
postgresAnswers(p) == Work(p, "outbox", "fallback", "idle")

cycleEnds(p, w) == Work(p, w, "busy", "idle")

(* A cycle's query fails.  Only the outbox worker's runOnce excuses a      *)
(* failure after the abort, which may also have cut its XADD by destroying *)
(* the Redis socket.                                                       *)
cycleFails(p, w) ==
    /\ procs[p] # Vacant
    /\ \/ /\ procs[p].workers[w] = "busy"
          /\ IF w = "outbox" /\ procs[p].aborted
             THEN \E link \in {procs[p].link,
                               IF IsOpen(procs[p].link) THEN "shut" ELSE procs[p].link} :
                     /\ procs' = [procs EXCEPT ![p].workers[w] = "done", ![p].link = link]
                     /\ UNCHANGED <<ledger, lock, starts>>
             ELSE WorkerFails(p, w)
       \/ procs[p].workers[w] = "fallback" /\ WorkerFails(p, w)

----------------------------------------------------------------------------
(* Traffic and shutdown                                                    *)

request(p) ==
    /\ InStage(p, "listening")
    /\ procs[p].requests < MaxRequests
    /\ procs' = [procs EXCEPT ![p].requests = @ + 1]
    /\ UNCHANGED <<ledger, lock, starts>>

respond(p) ==
    /\ procs[p] # Vacant
    /\ procs[p].requests > 0
    /\ procs' = [procs EXCEPT ![p].requests = @ - 1]
    /\ UNCHANGED <<ledger, lock, starts>>

(* SIGTERM or SIGINT; later ones find shuttingDown set.                    *)
shutdown(p) ==
    /\ InStage(p, "listening")
    /\ Enter(p, "draining")
    /\ UNCHANGED <<ledger, lock, starts>>

(* server.close calls back once no request is in flight; stop aborts.      *)
serverClosed(p) ==
    /\ InStage(p, "draining")
    /\ procs[p].requests = 0
    /\ procs' = [procs EXCEPT ![p].pc = "stopping", ![p].aborted = TRUE]
    /\ UNCHANGED <<ledger, lock, starts>>

(* Promise.all settles when every worker is done or when one has failed.   *)
Settled(p) ==
    \/ procs[p].failed
    \/ \A w \in Workers : procs[p].workers[w] = "done"

LinkAfterEagerClose(link) == IF link = "ready" THEN "shut" ELSE link
LinkAfterClose(link) == IF IsOpen(link) THEN "shut" ELSE link

(* stop returns and runtime.close begins: Redis is destroyed, the pool     *)
(* refuses new clients.                                                    *)
close(p) ==
    /\ InStage(p, "stopping")
    /\ Settled(p)
    /\ procs' = [procs EXCEPT ![p].pc = "closing", ![p].closing = TRUE,
                              ![p].link = LinkAfterClose(@)]
    /\ UNCHANGED <<ledger, lock, starts>>

(* The tracked connection attempt has settled and pool.end has returned.   *)
closed(p) ==
    /\ InStage(p, "closing")
    /\ procs[p].link \notin {"queued", "connecting"}
    /\ Enter(p, "ended")
    /\ UNCHANGED <<ledger, lock, starts>>

StartupNext(p) ==
    \/ boot(p) \/ lockMigrations(p) \/ examine(p) \/ commitMigration(p) \/ unlockMigrations(p)
    \/ verifyReadiness(p) \/ redisVerified(p) \/ listen(p) \/ bootFails(p) \/ crash(p)

WorkNext(p) ==
    \/ startConnect(p) \/ attempt(p) \/ linkChanges(p)
    \/ verified(p) \/ unverified(p) \/ postgresAnswers(p)
    \/ \E w \in Workers : cycle(p, w) \/ cycleEnds(p, w) \/ cycleFails(p, w)

StopNext(p) ==
    request(p) \/ respond(p) \/ shutdown(p) \/ serverClosed(p) \/ close(p) \/ closed(p)

RuntimeNext == \E p \in Processes : StartupNext(p) \/ WorkNext(p) \/ StopNext(p)

RuntimeSpec == RuntimeInit /\ [][RuntimeNext]_runtimeVars

----------------------------------------------------------------------------
(* A process that runs the body of a migration is alone: nobody applied    *)
(* that migration since the ledger was read, so no deployment fails        *)
(* because another one migrates at the same time.                          *)
BodyIsNew ==
    \A p \in Processes : InStage(p, "body") => ledger[procs[p].at] = Vacant /\ lock = p

(* A process takes requests and runs workers only on a database that holds *)
(* every migration of its own release, as that release has it, whatever    *)
(* other releases have done to the ledger meanwhile.                       *)
ServingIsMigrated ==
    \A p \in Processes :
       procs[p] # Vacant /\ procs[p].pc \in {"warming", "listening", "draining", "stopping"}
          => \A n \in DOMAIN procs[p].files : ledger[n] = procs[p].files[n]

(* Releases deployed side by side do not hurt each other: one migrates at  *)
(* a time, and each serves on its own schema or not at all                 *)
(* (runPostgresMigrations).                                                *)
DeploymentIsSafe == BodyIsNew /\ ServingIsMigrated

(* The pool and the Redis client are closed only when no request is in     *)
(* flight and, unless a worker has failed, every worker has returned.      *)
ClosedWhenQuiet ==
    \A p \in Processes :
       procs[p] # Vacant /\ procs[p].closing
          => /\ procs[p].requests = 0
             /\ procs[p].failed \/ \A w \in Workers : procs[p].workers[w] = "done"

(* Once runtime.close has returned, no connection attempt, begun before or *)
(* after it, leaves the Redis client open.                                 *)
ClosedStaysClosed ==
    \A p \in Processes : InStage(p, "ended") => procs[p].link = "shut"

(* Shutdown is orderly, from whatever moment it begins: nothing is closed  *)
(* under a request or a healthy worker, and what is closed does not open   *)
(* again (main, NodeRedisStreamClient.close).                              *)
ShutdownIsClean == ClosedWhenQuiet /\ ClosedStaysClosed

(* What BackgroundWorkerSupervisor's comment promises: runtime resources   *)
(* cannot be closed while a worker is still using them.                    *)
ResourcesOutliveWorkers ==
    \A p \in Processes :
       procs[p] # Vacant /\ procs[p].closing
          => \A w \in Workers : procs[p].workers[w] \notin Running
=============================================================================
