# Verification of ROS, the Road Operating System

TLA+ models of the parts of ROS whose correctness depends on the order in which
things happen: concurrent requests, database transactions, leases, retries,
crashes and an unreliable broker. TLC checks them on small instances; TLAPS
proves the most important safety properties for every instance. `PROJECT.json`
maps each definition to the source lines it translates, each property to the
run that checks it, and each hazard of the code to the properties that guard it.

## 1. The system

ROS receives reports of road incidents, keeps one **RoadEvent** per incident
through a status machine that ends in a human-authorized closure, and tells
agencies about every change. Around that core it contacts people at risk,
exchanges messages with partner systems, stores evidence, weighs safety signals
and supports a field app and an operations dashboard.

| Component | State it keeps | Operations | What makes it hard | What makes it correct |
|---|---|---|---|---|
| RoadEvent aggregate (`packages/domain`) | status, severity, closure authorization, version | `transitionTo`, `assessSeverity`, `authorizeClosure` | legal calls in unexpected orders | severe events close only on a current authorization; terminal statuses are final |
| RoadEvent command path (`application`, `persistence/postgres`) | `road_events`, `audit_logs`, `outbox_events`, `road_event_signals`, `idempotency_reservations`, `idempotency_records` | create, reassess, transition, authorize closure, attach signal | four transactions per command; crashes between them; retries and reused keys; concurrent writers | at most once, no lost update, truthful replay, access scope |
| Reconciliation runbook (`docs`, `database`) | the reservations left by failed commands | classes A and C of the runbook | acting on a reservation that is still needed | an ambiguous command stays blocked |
| Outbox worker (`messaging`, `runtime`) | `outbox_events` leases and retry counts | preflight, claim, publish, mark published / failed | leases outlived, lost acknowledgements, Redis outages, restarts | nothing stranded, nothing marked published that was not, dead letters exactly at the limit |
| Redis stream | stream entries | `XADD`, `PING` | outage, command applied without answer | external |
| Agency consumer (`messaging`) | `processed_integration_events` | `tryBegin`, `record`, `complete`, `release` | ownerless updates, expired leases | completed means recorded; completion is final; every message is eventually dealt with |
| Human contact protocol and orchestration (`contracts`, `ros-eye`) | contact sessions, delivery outbox, callbacks, assignments | open, callback, takeover, due timers, delivery | timers racing answers and takeovers; stale deliveries | no prompt after a human took over; bounded attempts; every session reaches a person or an end |
| Partner integration lifecycle (`integrations`) | integration requests, callback replay records | prepare, send, status, cancel, callback | callbacks out of order, duplicated, after cancellation | terminal states final; callback accepted once |
| Token verification (`integrations`, `http`) | cached keys, one fetch in flight | verify, refresh | requests that wait for a fetch with an old clock; key rotation; failing fetches | withdrawn keys and expired tokens are forgotten in time |
| Evidence store (`evidence`) | metadata, objects, audit, idempotency, signed URLs | declare, upload, complete, quarantine, download | row and object storage commit separately; scans that disagree; rotating credentials | only what was scanned is served; one verdict; no access without its audit entry |
| Signal ingestion (`ros-eye`) | queue, admission nonces, raw evidence, provenance, intents | enqueue, drain, ingest, quarantine | every port may fail at every stage; two calls about one nonce | no replay accepted; accepted is recoverable; no intent left alone |
| Safety fusion (`ros-eye`) | none; receipts and rules in registries | recommend | failing guards, clock and authority; fixed-point thresholds | failure and silence never calm a case |
| Privacy and oversight (`ros-eye`, `database`) | leases, rate windows, alerts, audit, grants, approvals, executions | break-glass access, execution | expiry and revocation racing use; locks waited for | every full access is backed; windows count; high risk executes on an approval that stood |
| Field companion (`apps/mobile`, `http`) | offline queue, receipts, `localStorage` | consent, reply, share, device, flush, reload | overlapping flushes, lost answers, reloads | nothing applied twice or in another session, nothing forgotten but what boot cannot use |
| Device registry, notifications (`http`) | device bindings, deliveries, acknowledgements | register, renew, acknowledge | two requests find no row to lock | one owner; acknowledged once |
| Command center (`operations-dashboard`, `http`) | the operator's view; idempotency records | load, select, act, resolve | the case changes behind the view; lost answers | actions hit what was seen; one effect per submission |
| Runtime (`runtime`, `main`, `persistence`, `messaging`) | schema ledger, advisory lock, pool, Redis connection, workers | migrate, start, fail, shut down | rolling deployments, reconnection racing close, failing workers | serves only its own schema; resources outlive users |
| Perception (`perception`) | none; documents passed from call to call | admit, assure, build state and map, advise, conflict | each document ages on its own | advice only on what is covered and current |
| Staging review (`e2e`, `runtime`) | plan and reports in the output directory | plan-only run, review | minutes between reading, planning and reporting; edits and other runs meanwhile | a favourable decision names an analyzed plan; reports are of one run |
| Maps, pilot, regulatory, partner trust | none that outlives a call | validation and projection of documents | boundary values | not modelled |

Interactions. An HTTP handler calls the application service, which calls the
idempotency adapter, the repository and the attachment adapter, one PostgreSQL
transaction each. The repository writes row, audit entry and outbox row in one
transaction. Worker processes poll `outbox_events` and append to one Redis
stream. Agency consumers take entries from it and keep their own ledger in
PostgreSQL. Nothing else couples the three; that is why they are three modules
joined by the outbox (in `RoadEventCommands`) and by `stream` (in
`DeliveryPipeline`). The contact session is shared by the service, its workers,
the dashboard and the Field Companion, and these are one module,
`ContactOrchestration`; `CommandCenter` and `FieldCompanion` model the two
clients, their transport and their idempotency, and treat what others do to the
session as an environment. `HumanContactProtocol` is shared by both sides.
Evidence, tokens, callbacks, ingestion, fusion and oversight meet only through
identifiers.

## 2. Modules

| Module | Models | State | Actions |
|---|---|---|---|
| `RoadEvent` | the aggregate and the table's CHECK constraints, as operators on a row | none | `Can…` is the guard of a domain method, the operator named like the method its effect |
| `RoadEventCommands` | handlers, idempotency, repository, attachment, reconciliation | six tables; per handler `pc`, `req`, `fence`, `image` | one action per database statement or transaction (below) |
| `OutboxDelivery` | `OutboxWorkerRuntime`, `OutboxWorker`, `PostgresOutboxRepository`, the Redis client as used | rows, stream, `redisUp`; per worker `pc`, `current`, `seen`, `taken` | one action per statement and outcome |
| `AgencyConsumer` | `SimulatedAgencyConsumer`, `PostgresConsumerIdempotencyStore` | ledger, leases, recorded notifications; per process `cpc`, `handling` | one action per call and outcome |
| `DeliveryPipeline` | workers and consumers sharing the stream | both | both, interleaved |
| `HumanContactProtocol` | the contract's transition, authority and attempt rules, as operators | none | `Approved` is `decideHumanContactTransition` |
| `ContactOrchestration` | one contact session: `ContactOrchestrationService`, `PostgresContactStore`, the contact worker, and the dashboard and Field Companion handlers that write the session themselves | session row and lease, inputs taken, delivery outbox; per worker `wpc`, `batch`, `current` | one action per transaction, provider call or clock event |
| `CallbackAuthentication` | `verifyCallbackHmac`, `PostgresCallbackReplayStore` | the database's clock, claimed nonces; per verifier the callback it is `checking` | check, claim, failed claim, pruning, time |
| `IntegrationLifecycle` | `PostgresIntegrationSandbox` and migration 0014 | deliveries, recorded callbacks, receipts returned | `Prepare`, `Send`, `Cancel`, `HandleCallback` |
| `TokenVerification` | the key cache, the fetcher and the claims' check | clock, published keys, cache, the fetch in flight, waiting callers | `Resolve`, `Resume`, fetch outcomes, `RotateKeys`, time |
| `EvidenceCustody` | what the evidence store promises | items, verdicts, accesses noted and served | `TakeIn`, `Judge`, `Note`, `Serve` |
| `EvidenceStore` | `EvidenceService`, its routes, repository, storage and scanner | rows, objects, audit, idempotency, URLs; per request its stage | one action per await |
| `SignalIngestion` | `MultimodalSignalIngestionService` and its adapters | queue, nonces, three stores, source trust; per call its step | one action per port call |
| `SafetyFusion` | the governed orchestrator over the fusion | clock, receipts, contact state, severity, the advice | `recommend` with what fails; the environment |
| `PrivacyOversight` | `PrivacyAccessOrchestrator`, the functions and triggers of migrations 0007 and 0008, `RecommendationExecutionOrchestrator` | tables; per access its transaction's writes and locks | one action per statement that waits or decides |
| `FieldCompanion` | controller, gateway and delivery route | memory, `localStorage`, flushes, requests on the wire, reservations and records | user calls, flush steps, server steps, reload, loss |
| `MobileRegistry` | registration and acknowledgement routes | bindings, reservations, records, notices | one action per statement |
| `CommandCenter` | controller and page of the command center, the handler behind it | rows, keys, handlers; the screen, submissions and fetches | one action per await, and what others do |
| `ServiceRuntime` | `main`, bootstrap, migration runner, supervisor, Redis client, pool | ledger, lock; per process stage, workers, connection attempts | start, migrate, work, fail, stop, crash |
| `RoadCognition` | the perception pipeline | clock, observations, leases, claims' state, map, prediction, the answer | one action per function, and arriving evidence |
| `StagingReview` | the PLAN_ONLY runner and the review command | input files by version, output files; per run what it has read | one action per file read or written |
| `MC…` | instances for TLC | | |
| `…Proofs` | theorems | | |

### RoadEventCommands

A handler walks through the statements of one request: `Submit` (role check and
input validation, before any statement), `RequireEvent` (attachments only),
`Reserve` (`executeExclusively`'s INSERT), `Get` (replay lookup), `Load`
(`requireEvent`, `expectedVersion`, domain method), `WriteCreate` /
`WriteUpdate` / `WriteAttach` (the mutation transaction), `Put` (replay record)
and `Release` (DELETE under the fence). `Crash` between any two of them covers a
dying process, a lost connection, a database error, and a commit whose answer
never arrived. An exception thrown inside the reservation and a crash are the
same to every other party: the reservation stays. `Leave` is therefore the one
way out, and only `Release` removes a reservation.

`ReconcileUncommitted` and `ReconcileCompleted` are what the runbook permits an
operator to do about a reservation, with the evidence it demands first.

Requests are records; the fingerprint is the tuple of the fields the code
hashes, so two requests have equal fingerprints exactly when their bodies are
equal (collisions are not modelled). A slot is operation, actor and key: tenant,
purpose and roles of the scope hash are functions of the actor's token.
Location, score, confidence and reason codes never influence control and are
left out. Audit, outbox and attachments are kept per event, because no property
compares the order of entries of different events.

### OutboxDelivery

Time is two facts about a row: its lease still runs (`leased`), its next attempt
is due (`due`). `LeaseExpires` may happen at any moment, because nothing bounds
how long a process is paused. Every statement has three outcomes: acknowledged,
refused because the row is no longer owned, and failed with or without having
committed. `taken` is the loop index of `runOnce`.

### AgencyConsumer

`complete` and `release` compare the status only, never an owner, and an update
of no row is no error: the model keeps that. `effects` counts notifications up
to two, which stands for "many". How entries travel from the stream to a process
is not in the repository; any entry may be handed to any process at any time.

### ContactOrchestration

Every transaction of this component locks the session row first, so that each is
one action: `Open`, `HandleCallback`, `OperatorTakeover`, `DashboardMutate`
(takeover, escalation, assignment), `Deliver` (the Field Companion's operations)
and the workers' `ProcessDue`. What is not atomic is a worker: it claims a
session, processes it and releases the lease in three transactions
(`ClaimDueSessions`, `ProcessDue`, `ReleaseLease`), and handles a prompt in five
steps (`ClaimDueOutbox`, `ReserveOutboxDelivery`, `Send`, `Finalize`,
`ReleaseOutboxLease`), with the provider call outside any transaction. The
others write in between. `Finalize` is `markOutboxDelivered` or
`markOutboxRetry`, which differ only in what they set; `OutboxFails` is a failed
statement, after which the `finally` still releases; `Crash` loses everything a
worker remembers.

A callback is refused by `callbackRequestedState` or by the protocol, and then
`failToReview` writes HUMAN_REVIEW all the same. `Deliver` and `DashboardMutate`
bypass the service and compute the next state with rules of their own
(`nextContactState`, `HumanMay`); that they agree with the protocol is
`ProtocolIsFollowed`, not an assumption.

Abstractions. Times are what the comparisons find: `action` is unset, ahead or
due; `sessionLeased`, `leased`, `live` and `due` say that a lease, a delivery
deadline or `available_at` lies on the far or near side of now. A delivery token
is fresh for every claim and only compared with the worker's own, so it is named
by the worker. Inputs are distinct records of a kind; the inbox and the
idempotency records make each count once, which is `received`. The session's
version, the audit entries, channels, the language chosen and the unconfirmed
identity do not steer anything and are left out; completion, which needs a
confirmed identity, is therefore never approved. Where the code offers a service
method that nothing in the repository calls over HTTP (callbacks, takeover), the
method is modelled as an action anybody may take.

### CallbackAuthentication

Freshness is decided by the verifier's clock, uniqueness and the constraint
`expires_at > claimed_at` by the database's; between the two the verifier awaits
a connection. `Check` and `Claim` are therefore two actions, and a verifier's
clock may be `Drift` off in either direction. `ClaimFails` is a store that
fails with or without having written the row: the callback is refused either
way. `Prune` deletes expired nonces, for which the table has an index and the
repository no code. Callbacks are authentic; a bad signature is refused before
anything is read or written.

### IntegrationLifecycle

Every operation is one transaction that locks the delivery's row, and is one
action. A profile is its id and its scope (partner, purpose and tenant), because
the unique key of a delivery uses the id alone and the lookups use both. The
projection never changes and is one value, `body`. Refused and repeated
operations change nothing and have no action, except a repeated `Send`, whose
receipt is part of the state. `status` only reads. The guard trigger of the
migration is not built into the actions: that the code never relies on it is
`GuardNeverRaises`.

### TokenVerification

A request reads the clock once; whoever finds a fetch in flight awaits that one.
`Resolve` is the synchronous stretch up to the first await, `Resume` the one
after it, with the clock of the first. A fetch answers with the issuer's document
of some moment of its duration, fails, or times out. Signatures are authentic.

### EvidenceStore and EvidenceCustody

A completion is `Check`, `inspect`, `scan`, `quarantine`, `transition`; a
download `Sign`, `appendAccessAudit`, `Downloadable`. Any other request, an
upload with a URL still valid, a rotation of credentials and a failure may come
in between. `EvidenceCustody` says the same without requests, scanners or
storage. The mapping takes the declared content, the row's status, the audit
log and the answers given; `ImplementsCustody` is the refinement.

### SignalIngestion, SafetyFusion

`ingest` awaits seven ports; each call of a port may fail. The queue is drained
by one loop. A digest is the tuple it is computed from. The fusion computes in
units of 1/10000, as the code rounds, so that its thresholds are exact;
`recommend` chooses which guards and ports fail.

### PrivacyOversight

The access runs in one transaction, but waits for two row locks, between which
time passes and others commit: its writes are kept with the access and reach the
tables at commit. A denial commits what was written; an exception rolls back.

The execution of a recommendation is a call of its own (`Orders`): it is made for a
time the caller names, looks the approval up (`findApproval`), judges it
(`validApproval`: status, scope, action, risk, proposer, explanation, term), and in a
second call of the authority has the execution recorded (`authorizeExecution`, one
per key). Humans approve (`Approve`) and withdraw or expire approvals
(`EndApproval`) at any moment in between. The authority has no implementation in
the repository; its two tables are modelled, and any call of it may fail, refuse
or lose its answer.

### FieldCompanion, MobileRegistry

Every method changes the state and saves it synchronously, then flushes. A flush
works on the copy of the queue it started with, awaits one delivery after the
other, and at its end merges and saves. The server reserves, looks up, applies
and records in separate transactions, as in `RoadEventCommands`.

Stored state, requests and records carry a scope, which stands for all that `boot`
compares a stored state with: tenant, case, session, simulation, and the versions of
schema and privacy policy. `Reload` opens the page for any scope. `validPersisted`
then discards a state of another scope or with an overfull queue (`Unusable`), and one
older than the retention, whose operations have all expired; its check of the
consent holds for every state this code saved. The operations it drops with an
unusable state are collected in `abandoned`. The page is open once at a time, and
`localStorage` neither loses nor garbles what was saved. The restart button of the
simulation, which puts a second controller beside the first one's flush, is left out.

### CommandCenter

The browser keeps a view, when it was fetched, and whether it is stale. An
action is submitted with a fresh key and the versions of the view; the handler
reads the backing rows, mutates in one transaction and stores the result in
another. `updateSession`, `openSession`, `updateEvent` and `recordEvidence` are
what the runtime and colleagues do meanwhile.

### ServiceRuntime

A process goes through the stages of `main`: migrate under the advisory lock,
check, listen, start workers; then serve, or fail and shut down. Requests,
worker cycles, and connection attempts of the Redis client are counted or
staged; `close` may overtake any of them. A release is a sequence of migrations;
different contents under one name are different elements.

### RoadCognition

The functions are pure; what can go wrong is that their arguments come from
different moments. Each action calls one function with what earlier calls
returned. Geometry is integral: the conflict time is compared with the horizon
by the signs of polynomials, without a root, and `ConflictAgrees` compares the
quadratic with the closest approach, which the code computes separately.

### StagingReview

A file is the version of its bytes and a digest is that version. A run reads the
manifest, the checkout and the tfvars, lets Terraform plan, hashes tfvars and
manifest again, has the plan shown between two digests of it, hashes the
evidence and verifies it, and writes four reports. `Edit` changes an input
between any two steps; a second run, planning or reviewing, shares the output
directory. What a manifest claims is one fact, whether it blocks; whether a plan
is harmless is Terraform's choice. A run that throws or dies is `End`.

## 3. Runs

| Run | Instance | Checks | Shows |
|---|---|---|---|
| `commands` | 2 handlers, 3 fences; scenario *closure*: one S3 event in RECOVERY, 7 requests of a supervisor and an operator with early and late versions; scenario *idempotency*: 1 key, 2 events, 5 actors in 2 tenants, 9 requests | `NoLostUpdate`, `ClosureIsAuthorized`, `GuardsImplyChecks`, `TerminalIsFinal`, `Idempotent`, `ReplayIsTruthful`, `AttachedInScope` | however authorizing, reassessing and closing interleave with crashes, the log is one unbroken chain and no stale authorization closes the event; retries, reused keys and foreign actors neither repeat nor misreport a command |
| `outbox` | 2 workers, 2 rows, 2 attempts, batches of 2, under fairness | `StatusIsTrue`, `EventuallySettled` | stolen leases neither miscount attempts nor mark an unpublished row, and no row stays pending |
| `agency_duplicate` | 2 processes, 1 message | `EffectAtMostOnce` (violated) | see Findings |
| `pipeline` | 2 workers, 2 consumers, 1 row, under fairness | `CompletedWasRecorded`, `CompletionIsFinal`, `EventuallyHandled` | ownerless updates never falsify or undo a completion; a committed row reaches an agency or a dead letter |
| `contact_protocol` | scene *sole*: 1 worker, 1 operator, 5 prompts, 2 attempts; consent, language, partial answer, disconnection and reconnection; scene *pair*: 2 workers, 2 operators, 2 prompts; consent given and declined, a reply | `ConsentFirst`, `QuestionsAccounted`, `ProtocolIsFollowed`, `RestIsFinal`, `DeliveryIsFenced` | four independent writers of one session keep to the protocol, never ask before consent and never resume on their own; the late result of an overtaken delivery is void, and no reservation is stolen while it runs |
| `contact_answers` | 1 worker, 1 operator, 4 prompts, under fairness; consent, language, response, disconnection, reply and request for help | `AnswerIsHeeded`, `HumanInCharge`, `ContactSettles` | an answer that races a timer, a retry or a takeover ends with a human or a confirmation; timers and deliveries survive crashes and abandoned leases |
| `contact_reconnect` | 1 worker, a disconnection and a reconnection | `QuestionsBounded` (violated) | see Findings |
| `trust` | seven components, one per behaviour (below) | *callbacks* `AcceptedOnce`, `AcceptedInTime`; *integration* `ExchangeIsSound`, `GuardNeverRaises`; *evidence* `EvidenceIsSafe`, `ImplementsCustody`; *tokens* `TrustLapses`; *registry* `RegistryIsTrue`; *runtime* `DeploymentIsSafe`, `ShutdownIsClean`; *staging* `ReviewIsGrounded` | what comes from outside is accepted once, from the right party and on the word of what was checked; the store implements its abstract specification; releases side by side never serve a foreign schema; a staging review names what was analyzed |
| `safety` | six components, one per behaviour (below) | *ingestion* `IngestionAccounts`; *fusion* `AdviceIsCautious`; *oversight* `AccessIsBacked`, `HighRiskIsApproved`; *command center* `ActionsAreInformed`, `SubmissionsAreTrue`; *companion* `DeliveredAndKept`; *perception* `AdviceIsGrounded`, `ConflictAgrees` | on the way from a signal to a decision nothing is lost, done twice, decided on stale ground or calmed by a failure |
| `field_retry` | 2 operations, 2 flushes, 2 upsets, 1 scope, queues of 1, `MaxSends` 1 | `RetryIsReconciled` (violated) | see Findings |
| `command_retry` | 2 submissions | `RetryIsDisabled` (violated) | see Findings |
| `worker_shutdown` | 1 process | `ResourcesOutliveWorkers` (violated) | see Findings |

Where a component promises several things about the same state, they are named
parts of one invariant, which is what the run checks:

| Property | Parts |
|---|---|
| `Idempotent` | `AtMostOnce`, `AmbiguousIsBlocked`, `AnswersAreDurable` |
| `AttachedInScope` | `ScopeIsRespected`, `AttachedOnce` |
| `StatusIsTrue` | `DeadExactlyAtLimit`, `PublishedIsInStream` |
| `DeliveryIsFenced` | `KeepsSettled`, `KeepsFence` |
| `ContactSettles` | `EventuallyAtRest`, `PromptsSettle` |
| `ExchangeIsSound` | `LifecycleTypeOK`, `OneReceipt`, `OneDeliveryPerKey`, `OutcomeStands`, `StateIsWitnessed` |
| `EvidenceIsSafe` | `PreservedIsScanned`, `OneVerdict`, `QuarantineKeeps`, `UrlOutlived` |
| `TrustLapses` | `WithdrawnIsForgotten`, `ExpiryIsMet` |
| `RegistryIsTrue` | `RegisteredOwns`, `AcknowledgedOnce` |
| `DeploymentIsSafe` | `BodyIsNew`, `ServingIsMigrated` |
| `ShutdownIsClean` | `ClosedWhenQuiet`, `ClosedStaysClosed` |
| `ReviewIsGrounded` | `PlanIsAnalyzed`, `PackageIsSnapshot`, `InputsAreBound`, `ReportsAreOneRun` |
| `IngestionAccounts` | `ReplayIsRefused`, `AcceptedIsRecoverable`, `IntentAccounted` |
| `AdviceIsCautious` | `FusionTypeOK`, `UnreviewedIsVouched`, `FailureNeverCalms`, `SilenceIsNotSafety` |
| `AccessIsBacked` | `GrantIsBacked`, `WindowCountsUses` |
| `ActionsAreInformed` | `ActsOnTheSeen`, `ResolutionIsVouched` |
| `SubmissionsAreTrue` | `OneEffectPerSubmission`, `SuccessTookEffect` |
| `DeliveredAndKept` | `FieldTypeOK`, `AppliedOnce`, `NothingForgotten`, `SentInOwnScope`, `SettledIsStored` |
| `AdviceIsGrounded` | `AdviceIsCovered`, `AdviceIsCurrent` |

The type invariants `TypeOK` of the command path, of the outbox and of contact
orchestration, and `ConsumerTypeOK`, are part of the inductive invariants and
are proved (section 5).

`MCTrust` and `MCSafety` put modules that share no variable into one behaviour:
`focus`, chosen initially, names the one that acts, and the others keep their
initial state, so the numbers of states add up. `MCRoadEventCommands` and
`MCContactScenes` do the same with two scenarios of one module.

Bounds. Every race in the code is between two parties: the holder of a
reservation, lease or stale image, and one rival. Two handlers, workers or
processes give all of them; a third only repeats the second's role, and the
theorems of section 5 cover any number. Three fences are one more than can be
held by two handlers, so that a reservation left by a dead handler coexists with
two live ones; when all are in use `Reserve` waits, which removes only
behaviours with more abandoned reservations. The requests name versions one
before and one after each other so that both the winning and the losing order of
every pair occurs; the number of writes, and with it versions and logs, is
bounded because every request names a version and every slot mutates once.
`MaxAttempts = 2` has a first, a last and an exhausted attempt; `BatchSize = 2`
lets a worker hold on to its batch while a rival takes the second row.
`pipeline` and `agency_duplicate` have one message because the consumers' races
concern one row; the theorems of `OutboxDelivery` and `AgencyConsumer` hold for
any number of rows and any batch size.

The contact runs have one input of each kind they name: a second copy meets the session in a
state that the first, or a crash and a retry, already reached. `MaxAttempts = 2`
has a retry that is granted and one that is refused. `Messages` bounds the
prompts ever queued: one each for consent and language, a question, its retry and
one after a reconnection; where the outbox is full the queueing transaction
waits. One worker
suffices where the question is about the row, since a dead worker's successor is
itself; the scene *pair* has two because its question is about reservations.
CONTRADICTORY, CHANNEL_FAILURE, ACCESSIBILITY_UNAVAILABLE and IMPACT, which no
passing run names, send the session to human review as a late answer and HELP
do, and DEVICE_METADATA leaves it as it is; the theorems cover them.

In `trust`: callbacks run to time 10, past the expiry of the latest callback plus
the drift, with a window of two seconds and a skew of one, so that every boundary
is passed by one. Two lifecycle times are enough for earlier, equal and later;
two profiles share an id; two callback ids give a repetition and a rival. One evidence item suffices because
items do not interact; two requests give every overlap of completions and
downloads, two keys a repetition and a rival. Token time runs to 8 with a cache
of 4, an interval of 2, a skew of 1 and tokens that expire before and after. Two
registrations race for one device; notices follow them, because the two share
only the binding, which stays. Two processes start three times in all, from
four releases: one, its successor, one with the first migration changed and one
that is refused; once both have started up nothing more is explored, because
they share only ledger and lock. Two staging runs overlap, over two evidence
files and one edit (`MaxEdits`): a file changes before or after it was read, and
a second edit of it is never mistaken for the first bytes.

In `safety`: two ingestion calls over three envelopes, of which two share a nonce
and two a signal; every subset of four items of evidence of every quality, and one
item whose code is not listed, with at most one of nine failures; two accesses over two leases of one officer with
one use per window; two orders, each for any of five requests and any time from 0 to
2, over an approval by another (which lasts one tick and may be given and
withdrawn at any moment) and one by the proposer, which the table refuses: two
requests for what is approved, under two keys, one for another action, one for the
other version and one of low risk under a key of theirs; one submission in two transmissions, against two sessions; two
operations, two overlapping flushes, two upsets (`MaxUpsets`) and two scopes, of which
the page is first opened for one (they are interchangeable); three
observations of which two are needed, two states and times 0 to 2, so that each
lease, state, prediction and map can expire before the next step. Positions,
velocities and envelopes of a conflict contain approaching, parallel, receding
and overlapping pairs, and pairs that meet exactly at the horizon. Where calls
are interchangeable they begin in the order of their numbers (`InOrder`,
`InTurn`), which is what symmetry would keep, at less cost. The command center is
checked twice, for actions and for resolutions; each instance leaves out what
only concerns the other, and the browser fetches one thing at a time.

Deadlock checking is off where the system may stop: `commands` (all slots used or
reserved), `trust` and `safety` (bounds of clocks, all calls done), and the
violation runs of those modules.

Symmetry is used only in runs without liveness properties; the action properties
and the refinement are symmetric in the permuted values. `trust` permutes sets
that several modules share, so that the permutations stay few.

### Fairness

- `outbox`, `pipeline`: weak fairness of each worker's steps (an event
  loop), of its restart (the supervisor and the container's restart policy), of
  the clock, and of Redis coming back. Publishing may fail for ever: the row is
  then dead-lettered, which `EventuallySettled` admits. All other faults may
  strike any number of times but not for ever (`<>[][~Fault]_vars`). Among
  these is a worker outliving its own lease: `lockDurationMs` must exceed
  `publishTimeoutMs` by a second, so that in the absence of stalls it does not
  happen. Without this assumption two slow workers can steal a row from each
  other for ever.
- `contact_answers`: weak fairness of each worker's steps (the poll loop, and
  the container's restart after a crash), of the timer falling due, of the lease
  clocks and of a prompt's next attempt falling due. Faults may strike any
  number of times but not for ever: a failed transaction, a crash, an unavailable
  provider, and a lease or deadline that runs out under a worker still at work.
  The unavailable provider is among them because a prompt has no retry limit: it
  is retried until it is delivered or cancelled.
- `pipeline` also: weak fairness of a process inside `consume`, of the
  lease clock, and of the transport handing an acquirable entry to an idle
  process. The last is an assumption about code outside the repository.

## 4. Findings

`agency_duplicate` (doc_code_divergence). A comment in
`apps/api/src/runtime/outbox-worker-runtime.ts` says that "eventId and
consumer-side durable idempotency fence duplicate effects". They prevent two
processes from starting the same message while a lease runs, but not duplicate
effects: `record` and `complete` are two calls, so when `complete` fails, or the
process dies or outlives its lease between the two, the next delivery records
the notification again. What does hold is `CompletedWasRecorded` and
`CompletionIsFinal`: at least once, and never again after completion.

`contact_reconnect` (doc_code_divergence).
`docs/ros-eye/resilient-contact-orchestration.md` says "Automated contact
attempts are bounded by the #29 contract", and the contract refuses CONTACTING
once the attempts are used up. The Field Companion's RECONNECT moves a
DISCONNECTED session to CONTACTING without asking the contract
(`apps/api/src/http/mobile-mvp-http.ts`) and without counting, so a device
that drops and reconnects is asked once more each time. What does hold is
`QuestionsAccounted`: every question is paid for by an attempt, a partial answer
or a reconnection, never by a crash or by two workers.

Worth knowing about contact sessions, although nothing contradicts it. A plain
reply through the Field Companion confirms the session but leaves its timer
armed and its prompts queued; the timer later finds an unexpected state and
sends the session to human review. Escalation by exhausted attempts leaves the
earlier prompts in the queue, where they are still delivered. All leases and
deadlines of a batch count from the start of the worker's cycle, so after one
slow provider call the rest of the batch is sent under a deadline already past
and acknowledged only in a later cycle, after a second send. A takeover cancels
prompts that wait, not a provider call already under way.

Worth knowing, although nothing contradicts it: `assessSeverity` is legal in
every status and voids the closure authorization, so reassessing a CLOSED event
to S3 or S4 passes every domain guard and is stopped by the table's CHECK
constraint alone, as a database error that leaves the reservation behind.
`GuardsImplyChecks` states that this is the only such case.

`field_retry` (code_bug). The delivery route fingerprints the whole operation,
`attemptCount` included, and the client increments `attemptCount` on every failed
try. When an answer is lost, the retry is another body under the same key: it is
refused, its reservation stays, and the operation is retried until it expires
although it was applied. `docs/07-pilot/privacy-consent-and-field-runbooks.md`
says "on reconnect, revalidate stale state and reconcile by stable
operation/idempotency identity". What does hold is `AppliedOnce` and
`NothingForgotten`.

`command_retry` (code_bug). After an action whose outcome is unknown the
controller sets `stale`, but the page repaints at once, and the repaint
recomputes `stale` from the time of the last fetch alone. While that is recent,
the buttons are enabled again and the operator submits the action a second time
under a new key. The test in `human-safety-command-center.spec.ts` says
"ambiguous remote action failure marks Human Safety data stale and disables
retry"; it drives the controller without the page. `OneEffectPerSubmission` and
`ActsOnTheSeen` limit the damage to what the version check lets through.

`worker_shutdown` (code_bug). The supervisor joins its workers with
`Promise.all`, which rejects with the first failure; `stop` awaits that settled
promise, and `main` closes pool and Redis under the worker that still runs. Its
comment says "so runtime resources cannot be closed while a worker is still using
them". What does hold is `ClosedWhenQuiet`: without a failed worker, and always
for requests, the order is kept.

Worth knowing about integrations, although nothing contradicts it. A delivery is
cancelled by its provider's request id, so one that is only prepared cannot be
cancelled. Sending a cancelled delivery again still answers with its receipt. A
nonce is spent by the claim, before the callback is handled: if handling fails,
the partner must sign the callback anew. `handleCallback` answers a callback that
reports the current state with success before it compares timestamps, so an
older one of that kind is accepted and recorded and its reason dropped, where
`docs/06-integrations/integration-contracts.md` says "Delayed callbacks older
than the current delivery state are rejected"; the delivery does not move
(`OutcomeStands`).

Worth knowing about the safety path, although no run refutes a statement.

- Ingestion. Two concurrent calls about one envelope share the reservation and
  may both be answered ACCEPTED; the stores hold one copy. The rate window starts
  again when signals of an earlier window arrive late.
- Fusion. When the registry fails, the outcome is S3 even where the evidence
  says S4. One stale item alone does not raise the uncertainty. A weak but
  trusted item counts towards the two that let evidence of safety reduce the
  score.
- Oversight. Consent is checked before the break-glass transaction and not again
  in it. A request that waited long for the lease is judged by the time it read
  before, and may mark the window for review. A break-glass MASKED_READ is
  answered FULL. A repeated low-risk execution is answered false.
  `docs/ros-eye/privacy-security-oversight.md` says of executions that they fail closed
  when the approval is "missing, synthetic, mismatched, expired, revoked". The
  orchestrator sees to that when it looks the approval up, and by the time in the
  request, which it compares with no clock; between lookup and execution it reads
  nothing again. An approval revoked or expired by then still executes, unless the
  authority, which the repository does not implement, reads it once more:
  `HighRiskIsApproved` says no more than what holds without that. One approval may
  also serve several keys while it lasts.
- Field companion. The state is stored by subject (`browser.ts`), not by case or
  session: a page opened for another case or session, in simulation, or after an
  update of schema or policy version, discards the stored queue with operations that
  have not expired, and so does one whose queue a slow flush has overfilled.
  `render.ts` promises the user who is offline that no reply will be lost. These are
  the exceptions in `NothingForgotten`. What such a page does not do is send those
  operations for the wrong session (`SentInOwnScope`).
- Command center. The session is chosen when the action runs, and only its
  version is compared: a newer session of the same version is acted on (the
  exception in `ActsOnTheSeen`). The version of the road event is compared
  before the transaction. Closure through the road event's own endpoint does not
  ask for evidence.
- Runtime. Nothing refuses a migration that sorts before one already applied.
- Staging. `docs/10-engineering/staging-plan-only-runner.md` says "Existing
  PLAN_ONLY outputs are never overwritten". The names are checked when the run
  begins, minutes before `terraform plan -out` writes: of two runs that began
  together the later overwrites the earlier's plan, and the receipt of one may
  name the plan of the other, made of other tfvars (the condition in
  `InputsAreBound`). The manifest is parsed before it is first hashed, and the
  checkout examined before it is copied; an edit in between is noticed by
  neither comparison.
- Perception. Coverage counts the first of several leases of an observation,
  which `assessEvidenceClaims` refuses as ambiguous. An entity's validity ignores
  the expiry of leases and of observations that corroborate it. An expired
  candidate is left out without refusing the set, and doing nothing may be
  recommended.

## 5. Proofs

Each theorem holds for every value of the constants that satisfies the named
assumptions of its component. TLC evaluates them on every run. Most say only that
the null value (SQL NULL, a missing row) is not itself a row, an id or a member of the
set it stands beside, and that limits and times are natural numbers, positive where the
code requires it. The others are:

- `RequestsAssumption` (each command carries a payload of its kind),
  `SeedAssumption` (existing rows satisfy the table's constraints and carry no
  authorization);
- `PipelineAssumption` (the outbox's options, for the composition);
- `WindowAssumption` (a window of at least a second, positive timestamps);
- `OidcAssumption`: the settings pass the code's own check, and a fetch times out
  before a cached key expires. The comparison is strict. With equality, a key
  withdrawn just after a fetch began could be honoured at the very moment its cache
  lifetime after withdrawal ends, and `WithdrawnIsForgotten` fails; the defaults
  (2 s, 300 s) are far from it;
- `EvidenceAssumption` (harmless contents are contents, actors in scope are actors);
- `OversightAssumption` (each lease and each demand names an officer, an execution
  an approval or none);
- `FusionAssumption` (a finite catalog with integer times and reliabilities;
  evidence counts as fresh no longer than it counts at all);
- `RuntimeAssumption` (migration numbers are positive, and a listed file has contents);
- `StagingAssumption` (an evidence file is neither manifest, variables nor checkout);
- `FieldAssumption` (a delivery is answered by one of the four dispositions);
- `RoadAssumption` (observations have one health of four and ids of their own, an
  inquiry has finitely many candidates, and outcome vectors are not empty and of one
  length).

`RoadEventCommandsProofs`

- `TypeCorrect`: `Spec => []TypeOK`.
- `ExecutedAtMostOnce`, `AmbiguousStaysBlocked`, `SuccessIsDurable`, and with
  them `IdempotencyIsKept` (`Idempotent`), follow from `IdempotencyInv`. `AtMostOnce` alone is not inductive: a second commit is
  impossible only because the handler about to write holds the slot's only
  reservation and saw no record under it. `HandlerOK` says what each `pc` implies
  about a handler's memory; `Fencing` says that fences are not shared, that a
  handler past `Get` finds its slot uncommitted or its own, and that a committed
  slot without a record is still reserved.
- `UpdatesAreNeverLost` and `TerminalStatusesAreFinal` follow from `HistoryInv`.
  Its strengthening `ImageIsCurrent` says that an image held across two
  transactions is the command applied to some row of the version the client
  named, and that while that version is still the stored one it is that very
  row. This is where the version comparison of `update` is used.
- `HighSeverityClosure` needs besides that a row's `authorizedBy` is always
  backed by an entry of the log with no reassessment after it.
- `ReplaysAreTrue` (`ReplayIsTruthful`) needs `PutIsTrue`: what a handler about to
  store its record will tell is in the log by then. That the record it stores is the
  first one of its slot comes from `Fencing`.
- `WritesStayInScope` (`AttachedInScope`) needs `AttacherSees`: what
  `requireEvent` saw in its own transaction still holds when the attachment is
  inserted in another, because tenant and reporter of a row never change and
  rows do not vanish.
- `GuardsAreEnough` (`GuardsImplyChecks`) needs `ImagesChecked`: each row satisfies
  the table's constraints and so does each image held for `update`, except one
  that reassesses a closed event, which the aggregate lets pass and the constraint
  is about to judge.

`OutboxDeliveryProofs`

- `OutboxTypeCorrect` (with the table's constraint on leases),
  `DeadLetteredAtLimit`, `PublishedOnlyIfAppended`, and with them
  `StatusStaysTrue` (`StatusIsTrue`), follow from `OutboxInv`: an owned row is
  claimed by the worker busy with it (`ClaimIsHeld`), and while owned its stored
  count is the one the claim returned (`SeenIsCurrent`), so the comparison with a
  stale count is sound.

`DeliveryProofs`

- `CompletedOnlyIfRecorded`, `CompletedForGood` follow from `ConsumerInv`: a
  process about to call `complete` has recorded its message
  (`RecordedBeforeComplete`), so a `complete` that hits somebody else's row is
  still truthful.
- `PipelineKeepsOutbox` and `PipelineFeedsConsumers`: the composition implements the
  specification of each part. A consumer only reads the stream, so its steps are
  stutters of the outbox; a worker appends what it claimed, a message
  (`ClaimIsHeld` of `OutboxInv`, reached by an instance of `OutboxDeliveryProofs`), so
  its publishing is `EntryAppears` or, when it appends again what is there, a stutter
  of the consumers.
- `PipelineIsSound` draws the conclusion for the pipeline: what holds of each part
  (`CompletedWasRecorded`, `CompletionIsFinal`, `StatusIsTrue`), and end to end that no
  consumer knows of a message that was not appended (`LedgerFollowsStream`).

`ContactOrchestrationProofs`

- `TypeCorrect` covers the attempt limit and the lease columns' constraints, for
  any number of workers, operators, inputs and prompts.
- `HumanStaysInCharge`, `ConsentComesFirst` and `AnswersAreHeeded` follow from
  `IInv`. None is inductive alone. `ConsentFirst` needs `ConsentStates`: the
  states from which a timer asks a safety question are entered only after
  consent and language were received. `AnswerIsHeeded` needs `NotCompleted`,
  because a callback to a completed session would only be noted.
- `RestStaysFinal` needs `AtRest`: a session whose timer is unarmed is
  suppressed, with a human or confirmed, and from there no callback asks for a
  state that arms it.
- `DeliveryStaysFenced` (`DeliveryIsFenced`) rests on the types alone: a live
  reservation has a token, which is what the claim and the reservation look at.
- `ProtocolFollowed` rests on `ReviewAllowed`: the contract has a transition to
  HUMAN_REVIEW from every other state, so `failToReview` cannot leave it.
- `QuestionsStayAccounted` (`QuestionsAccounted`) needs `Budgeted`: a session that is
  about to ask has a question in hand, and what was asked or is in hand is paid for
  by an attempt, a partial answer or a reconnection. A prompt for a question can be
  inserted only with one in hand, and each transition that puts one there pays.

`ExchangeProofs`

- `NoReplay` follows from `AuthInv`. `AcceptedOnce` alone is not inductive:
  `Remembered` says that an accepted callback's nonce is still in the table or
  has expired by the database's clock, and in both cases a second claim fails.
- `TimelyAcceptance` needs `NotEarly`: a callback under way was found fresh by a
  clock at most `Drift` behind, and time has only passed since.
- `SoundExchange` (`ExchangeIsSound`) and `GuardStaysQuiet` (the trigger of migration
  0014 never raises) follow from `LifecycleInv`: a delivery that was sent is bound to
  the one request made for it (`SentOnce`), a receipt still says what the row says
  (`ReceiptsStand`), and only what was sent is called back about
  (`CallbacksFollow`). The trigger stays quiet because the code's own comparisons
  under the row lock imply each of its conditions.
- `SafeEvidence` (`EvidenceIsSafe`) follows from `EvidenceInv`. Completion spans four
  awaits; what a request established at each of them (`Sound`: the object is the one
  declared, the scan was clean, the copy is in quarantine) still holds at the next,
  because an item's object is written once and rows only grow
  (`Grows`). `Judged` ties each verdict to exactly one audit entry, and `Good` each
  signed URL to an access that was logged and to a credential that outlives it.
- `StoreImplementsCustody` (`ImplementsCustody`): the initial state maps to that of
  `EvidenceCustody`, and each step to one of its four actions or to a stutter. The
  invariant is needed for two of them: `Judge`, which the abstract specification allows
  once, and `Serve`, which it allows only after `Note`.

`TrustProofs`

- `TrueRegistry` (`RegistryIsTrue`) needs `AuditAgrees`: a notice has one audit entry
  exactly when it is acknowledged, so the conditional update counts the winners.
- `TrustDoesLapse` (`TrustLapses`) follows from `OidcInv`. Cached keys are dated by
  when their fetch began (`KeysAreDated`), a fetch ends in time and its answer is
  no older than its beginning (`FetchIsTimely`), and a request waits for at most
  two of them (`RequestsAreTimely`), which bounds how old the clock is that it
  decides by.
- `DeploymentStaysSafe` and `CleanShutdown` follow from `RuntimeInv`: how much of its
  release a process has migrated at each stage (`Migrated`), which needs that a
  migrating process holds the advisory lock (`Holds`), and what the order of
  shutdown guarantees at each stage (`Orderly`). With the lock held, the migration a
  process is about to run is still missing when it runs it.
- `GroundedReview` (`ReviewIsGrounded`) follows from `StagingInv`: what each run read
  is dated by when it read it (`Dated`), bound to what it wrote (`Bound`) and shown
  to the operator (`Shown`). `Spent` is what makes two overlapping runs harmless:
  once a plan was seen, nobody who began before can still write another, because
  its output names were free when it began.

`HumanSafetyProofs`

- `BackedAccess` (`AccessIsBacked`) follows from `AccessInv`: a decision on a new use
  works on a window that is still the stored one (`CallOk`), because it holds the
  officer's lock and no other decision of that officer is under way (`Alone`); the
  uses counted in the window are as many as the rows allowed since it started,
  by cardinality.
- `ApprovedExecution` (`HighRiskIsApproved`) follows from `ExecutionInv`. What a lookup
  found lies in the past and stays true of it (`Backed`): an approval's row is written
  once, and what ends later ends after the lookup (`BackedStays`). What an order
  may be told at each of its stages (`OrderOk`, `SuccessOk`) rests on that, also where
  the answer comes from the execution another order left under the key (`ExecutedOk`).
- `TrueSubmissions` and `InformedActions` follow from `CommandInv`: a key is held by
  one request at a time (`Keeper`), has no effect before that request acts and a
  result only after it (`StageOk`, `KeyOk`), and each view on the screen is of the
  past (`Past`), so that equal versions are equal rows.
- `AccountedIngestion` (`IngestionAccounts`) follows from `IngestInv`: what each stage
  of a call has written (`CallIsKept`), that a replay is never admitted, and that
  for each intent some call answers (`AnswersFor`), now or when its commit or
  abort is done.

`AdviceProofs`

- `CautiousAdvice` (`AdviceIsCautious`) is a fact about the functions:
  `severityFromScore` is monotone and a contact state only adds to the score. The
  score is a fold over the evidence; that such a sum is a natural number is
  proved from a set of least cardinality for which it is not (`NoneIsBad`).
- `OperationsAreKept` (`DeliveredAndKept`) follows from `FieldInv`, in two halves that
  meet in what is recorded. On the client, whatever a flush counts as acknowledged is
  recorded, so that the queue it leaves drops only that and what has expired
  (`MergedQueue`, over the fold that merges what failed with what was queued
  meanwhile). On the server, one request at a time holds the reservation of an
  operation, and none does once it took effect without a record (`ServerIsFenced`):
  the reservation a dead server leaves behind is what keeps the effect from
  happening twice. `ScopesMatch` follows the scope of an operation from the page it was
  made on through queue, storage, requests and records; it needs that memory and
  storage are of one scope whatever boot restores or discards.
- `GroundedAdvice` (`AdviceIsGrounded`) follows from `RoadInv`. Advice is given later
  than the map it rests on, with leases renewed and observations added since.
  `CoverageStands` says what remains of the map until its state is replaced: an
  observed cell has a quorum of observations that all last until the cell does, each
  with a lease of a class of its own (`SeenUntil`). That there are as many
  observations as strong classes is a bijection between the two (`ObservedIsSeen`);
  that there is a best candidate follows from a total and transitive order on a
  finite set (`BestOf`).
- `AgreeingConflict` (`ConflictAgrees`) is arithmetic: `FiguresAgree` compares the sign
  of the quadratic with the discriminant, for an approach that closes before the
  horizon, at it, or not at all.

Only model-checked: the liveness properties (`EventuallySettled`,
`EventuallyHandled`, `ContactSettles`), which are beyond the prover. The properties of
the violation runs are false of the code.

## 6. Not modelled

`PROJECT.json` lists every component with its status and the reason. Left out
altogether: maps, partner trust profiles and sandbox evidence, pilot and
regulatory reports, adapter certification, the perception
benchmark and the evaluation harness of the fusion, which are judgements over
static documents without state or order, and Terraform, CI and acceptance
scripts. Left out of the modelled components: the in-memory adapters of the
command path (development and tests only), telemetry and log output, retention and
purging of `idempotency_records`, the exact backoff times, signatures and digests
(authentic, and without collisions), rendering and wording, structured contact
replies (used by no runtime path), and runbook classes that require human
judgement beyond the two actions that touch the database.

## 7. Plan

1. The core and its proofs (`RoadEventCommands`, `OutboxDelivery`,
   `AgencyConsumer`, `DeliveryPipeline`, `ContactOrchestration`,
   `CallbackAuthentication`): done.
2. The surroundings (`IntegrationLifecycle`, `EvidenceStore`, `TokenVerification`,
   `SignalIngestion`, `SafetyFusion`, `PrivacyOversight`, `FieldCompanion`,
   `MobileRegistry`, `CommandCenter`, `ServiceRuntime`, `RoadCognition`,
   `StagingReview`):
   modelled and checked. None of them uses a recursive operator, so they can be
   proved about as they are.
3. An abstract specification: `EvidenceCustody`, checked as a refinement and proved.
4. Proofs: done. Every safety invariant and action property of the passing runs is
   proved for its own component, and those of `OutboxDelivery` and `AgencyConsumer`
   for their composition `DeliveryPipeline`; `EvidenceStore` is proved to
   implement `EvidenceCustody`.
