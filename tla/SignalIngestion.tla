-------------------------- MODULE SignalIngestion --------------------------
(***************************************************************************)
(* MultimodalSignalIngestionService and its adapters: safety signals are   *)
(* queued, or ingested directly, checked, admitted by their replay nonce,  *)
(* written to three stores and only then committed and accepted.           *)
(*                                                                         *)
(* ingest awaits a port at every stage, so the stages of several calls     *)
(* interleave; the queue is drained by one loop at a time.  Every port may *)
(* fail when it is called.                                                 *)
(***************************************************************************)
EXTENDS Naturals, Sequences

CONSTANTS
    Envelopes,      \* [signal, source, nonce, raw, occurred, received, defects]
    Attempts,       \* calls of enqueue and ingest
    MaxQueueDepth,  \* maxQueueDepth
    MaxPerWindow,   \* maximumPerWindow of the rate limiter
    WindowLength,   \* windowMs
    AllowedSkew,    \* HUMAN_SAFETY_ALLOWED_CLOCK_SKEW_MS
    MaxSignalAge,   \* HUMAN_SAFETY_MAX_SIGNAL_AGE_MS
    ReplayTtl,      \* HUMAN_SAFETY_REPLAY_TTL_MS
    MaxIngestTime,  \* bound on evaluatedAt
    Nothing         \* no reservation, no counter, no call

(* The digests: who is admitted, and in which scope.  Neither the scope    *)
(* nor the provenance id covers the nonce.                                 *)
AdmissionId(e)  == <<e.source, e.signal, e.nonce>>
Scope(e)        == <<e.source, e.signal>>
ProvenanceId(e) == Scope(e)

(* The records of the registry and of provenance, and a call, under way or *)
(* decided.                                                                *)
AdmissionRow == [id : {AdmissionId(e) : e \in Envelopes}, scope : {Scope(e) : e \in Envelopes},
                 state : {"RESERVED", "COMMITTED"}]
ProvenanceRow == [raw : BOOLEAN]
Stages == {"queued", "source", "rate", "admit", "raw", "provenance", "intent", "commit",
           "abort", "quarantine"}
Dispositions == {"PENDING", "ACCEPTED", "QUARANTINED", "HUMAN_REVIEW", "BACKPRESSURE"}
CallRow ==
    [env : Envelopes, at : Nat, pc : Stages, queued : BOOLEAN, disposition : Dispositions,
     replay : BOOLEAN]
      \cup [env : Envelopes, pc : {"done"}, queued : {FALSE}, disposition : Dispositions,
            replay : BOOLEAN]

(* Nothing is none of these.                                               *)
ASSUME IngestAssumption ==
    /\ {MaxQueueDepth, MaxPerWindow, WindowLength} \subseteq Nat \ {0}
    /\ {AllowedSkew, MaxSignalAge, ReplayTtl, MaxIngestTime} \subseteq Nat
    /\ \A e \in Envelopes : e.raw \in BOOLEAN /\ Nothing # ProvenanceId(e)
    /\ Nothing \notin AdmissionRow /\ Nothing \notin ProvenanceRow /\ Nothing \notin CallRow

VARIABLES
    ingestClock, \* the time callers stamp requests with
    trust,       \* source trust registry
    windows,     \* rate limiter: window and count of each source
    admissions,  \* replay registry, by nonce
    rawStore,    \* signals whose raw evidence is stored
    provenance,  \* provenance records, by provenance id
    intents,     \* safety intents by signal, with the provenance they name
    queue,       \* the service's queue
    degraded,    \* the service's degraded flag
    calls        \* calls, by attempt

ingestVars == <<ingestClock, trust, windows, admissions, rawStore, provenance,
                intents, queue, degraded, calls>>

Sources == {e.source : e \in Envelopes}
Nonces  == {e.nonce : e \in Envelopes}
Signals == {e.signal : e \in Envelopes}

IngestInit ==
    /\ ingestClock = 0
    /\ trust = [s \in Sources |-> "UNKNOWN"]
    /\ windows = [s \in Sources |-> Nothing]
    /\ admissions = [n \in Nonces |-> Nothing]
    /\ rawStore = {}
    /\ provenance = [p \in {ProvenanceId(e) : e \in Envelopes} |-> Nothing]
    /\ intents = [s \in Signals |-> Nothing]
    /\ queue = <<>>
    /\ degraded = FALSE
    /\ calls = [a \in Attempts |-> Nothing]

(* The checks of validateHumanSafetySignalEnvelope, with those of the      *)
(* ingestion context before them, in order: the first that fails decides.  *)
StructuralChecks == <<[defect |-> "context",     disposition |-> "QUARANTINED"],
                      [defect |-> "shape",       disposition |-> "QUARANTINED"],
                      [defect |-> "chronology",  disposition |-> "QUARANTINED"],
                      [defect |-> "signature",   disposition |-> "QUARANTINED"],
                      [defect |-> "unverified",  disposition |-> "HUMAN_REVIEW"],
                      [defect |-> "skew",        disposition |-> "HUMAN_REVIEW"],
                      [defect |-> "location",    disposition |-> "QUARANTINED"],
                      [defect |-> "mismatch",    disposition |-> "HUMAN_REVIEW"],
                      [defect |-> "payload",     disposition |-> "QUARANTINED"],
                      [defect |-> "purpose",     disposition |-> "QUARANTINED"]>>

validate(e, i) ==
    /\ StructuralChecks[i].defect \in e.defects
    /\ \A j \in 1 .. i - 1 : StructuralChecks[j].defect \notin e.defects

(* The temporal policy of acceptHumanSafetySignalEnvelope.                 *)
acceptTime(e, at) ==
    LET base == IF e.received < at THEN e.received ELSE at
    IN  CASE e.received > at + AllowedSkew \/ e.occurred > at + AllowedSkew
                                             -> "QUARANTINED"
          [] at > e.occurred + MaxSignalAge  -> "HUMAN_REVIEW"
          [] at >= base + ReplayTtl          -> "QUARANTINED"
          [] OTHER                           -> "VALID"

InStep(a, pc) == calls[a] # Nothing /\ calls[a].pc = pc
Goto(a, pc) == calls' = [calls EXCEPT ![a].pc = pc]

(* A decided call keeps its envelope and its answer.                       *)
Decide(a, disposition) == calls' = [calls EXCEPT ![a] =
    [env |-> @.env, pc |-> "done", queued |-> FALSE, disposition |-> disposition,
     replay |-> @.replay]]

(* A rejection is decided, then filed: the flag is raised before the       *)
(* quarantine store is awaited.                                            *)
Reject(a, disposition, degrades) ==
    /\ calls' = [calls EXCEPT ![a].pc = "quarantine", ![a].disposition = disposition]
    /\ degraded' = (degraded \/ degrades)

Processing == \E a \in Attempts :
                  calls[a] # Nothing /\ calls[a].queued /\ calls[a].pc \notin {"queued", "done"}

(* Nonces a caller has already been told were accepted.                    *)
AcceptedNonces == {calls[a].env.nonce :
                      a \in {b \in Attempts : InStep(b, "done")
                                        /\ calls[b].disposition = "ACCEPTED"}}

NewCall(e, pc, queued) == [env |-> e, at |-> ingestClock, pc |-> pc, queued |-> queued,
                           disposition |-> "PENDING", replay |-> e.nonce \in AcceptedNonces]

enqueueSignal(a, e) ==
    /\ calls[a] = Nothing
    /\ IF Len(queue) + (IF Processing THEN 1 ELSE 0) >= MaxQueueDepth
       THEN /\ calls' = [calls EXCEPT ![a] =
                  [NewCall(e, "quarantine", FALSE) EXCEPT !.disposition = "BACKPRESSURE"]]
            /\ degraded' = TRUE
            /\ UNCHANGED queue
       ELSE /\ calls' = [calls EXCEPT ![a] = NewCall(e, "queued", TRUE)]
            /\ queue' = Append(queue, a)
            /\ UNCHANGED degraded
    /\ UNCHANGED <<ingestClock, trust, windows, admissions, rawStore, provenance, intents>>

(* ingest called directly, without the queue.                              *)
ingest(a, e) ==
    /\ calls[a] = Nothing
    /\ calls' = [calls EXCEPT ![a] = NewCall(e, "source", FALSE)]
    /\ UNCHANGED <<ingestClock, trust, windows, admissions, rawStore, provenance,
                   intents, queue, degraded>>

(* One loop drains the queue: it takes the next entry when the last one    *)
(* has been decided.                                                       *)
drainQueue ==
    /\ queue # <<>> /\ ~Processing
    /\ calls' = [calls EXCEPT ![Head(queue)].pc = "source",
                     ![Head(queue)].replay = calls[Head(queue)].env.nonce \in AcceptedNonces]
    /\ queue' = Tail(queue)
    /\ UNCHANGED <<ingestClock, trust, windows, admissions, rawStore, provenance,
                   intents, degraded>>

(* Structure, and the trust registry, which may be unavailable.            *)
checkSource(a) ==
    /\ InStep(a, "source")
    /\ LET e == calls[a].env
       IN  \/ \E i \in DOMAIN StructuralChecks :
                 validate(e, i) /\ Reject(a, StructuralChecks[i].disposition, FALSE)
           \/ /\ \A i \in DOMAIN StructuralChecks : ~validate(e, i)
              /\ \E state \in {trust[e.source], "UNKNOWN"} :
                    IF state = "ACTIVE" THEN Goto(a, "rate") /\ UNCHANGED degraded
                    ELSE Reject(a, IF state = "REVOKED" THEN "QUARANTINED" ELSE "HUMAN_REVIEW",
                                FALSE)
    /\ UNCHANGED <<ingestClock, trust, windows, admissions, rawStore, provenance,
                   intents, queue>>

(* The fixed window of the rate limiter: a request from another window,    *)
(* later or earlier, starts the count again.                               *)
Counted(s, w) == IF windows[s] # Nothing /\ windows[s].window = w
                 THEN windows[s].count ELSE 0

consume(a) ==
    /\ InStep(a, "rate")
    /\ LET s == calls[a].env.source
           w == calls[a].at \div WindowLength
       IN  \/ /\ Counted(s, w) < MaxPerWindow
              /\ windows' = [windows EXCEPT ![s] = [window |-> w, count |-> Counted(s, w) + 1]]
              /\ Goto(a, "admit") /\ UNCHANGED degraded
           \/ /\ Counted(s, w) >= MaxPerWindow
              /\ Reject(a, "BACKPRESSURE", TRUE) /\ UNCHANGED windows
           \/ Reject(a, "HUMAN_REVIEW", TRUE) /\ UNCHANGED windows
    /\ UNCHANGED <<ingestClock, trust, admissions, rawStore, provenance, intents, queue>>

(* The nonce is reserved by, or committed to, this admission.              *)
Holds(e) == /\ admissions[e.nonce] # Nothing
            /\ admissions[e.nonce].id = AdmissionId(e)
            /\ admissions[e.nonce].scope = Scope(e)

(* reserve: an identical request resumes a reservation that is not yet     *)
(* committed; anything else that finds the nonce taken is a duplicate.     *)
Reservable(e) ==
    \/ admissions[e.nonce] = Nothing
    \/ Holds(e) /\ admissions[e.nonce].state = "RESERVED"

(* Accuracy of the location, the digest, the temporal policy and the       *)
(* reservation; digester and registry may be unavailable.                  *)
admit(a) ==
    /\ InStep(a, "admit")
    /\ LET e == calls[a].env
       IN  \/ /\ "inaccurate" \in e.defects \/ acceptTime(e, calls[a].at) = "HUMAN_REVIEW"
              /\ Reject(a, "HUMAN_REVIEW", FALSE) /\ UNCHANGED admissions
           \/ /\ "inaccurate" \notin e.defects
              /\ acceptTime(e, calls[a].at) = "QUARANTINED"
              /\ Reject(a, "QUARANTINED", FALSE) /\ UNCHANGED admissions
           \/ /\ "inaccurate" \notin e.defects /\ acceptTime(e, calls[a].at) = "VALID"
              /\ \/ /\ Reservable(e)
                    /\ admissions' = IF Holds(e) THEN admissions ELSE [admissions EXCEPT ![e.nonce] =
                          [id |-> AdmissionId(e), scope |-> Scope(e), state |-> "RESERVED"]]
                    /\ Goto(a, "raw") /\ UNCHANGED degraded
                 \/ /\ ~Reservable(e)
                    /\ Reject(a, "QUARANTINED", FALSE) /\ UNCHANGED admissions
                 \/ Reject(a, "HUMAN_REVIEW", FALSE) /\ UNCHANGED admissions
    /\ UNCHANGED <<ingestClock, trust, windows, rawStore, provenance, intents, queue>>

(* The writes.  One that fails ends the attempt: the reservation is given  *)
(* back, if that succeeds.                                                 *)
Persist(a, from, to) ==
    /\ InStep(a, from)
    /\ Goto(a, to)
    /\ UNCHANGED <<ingestClock, trust, windows, admissions, queue, degraded>>

putRaw(a) ==
    /\ Persist(a, "raw", "provenance")
    /\ rawStore' = rawStore \cup (IF calls[a].env.raw THEN {calls[a].env.signal} ELSE {})
    /\ UNCHANGED <<provenance, intents>>

putProvenance(a) ==
    /\ Persist(a, "provenance", "intent")
    /\ LET e == calls[a].env
       IN  provenance' = IF provenance[ProvenanceId(e)] # Nothing THEN provenance
                         ELSE [provenance EXCEPT ![ProvenanceId(e)] = [raw |-> e.raw]]
    /\ UNCHANGED <<rawStore, intents>>

createIntent(a) ==
    /\ Persist(a, "intent", "commit")
    /\ LET e == calls[a].env
       IN  intents' = IF intents[e.signal] # Nothing THEN intents
                      ELSE [intents EXCEPT ![e.signal] = ProvenanceId(e)]
    /\ UNCHANGED <<rawStore, provenance>>

PersistFails(a) ==
    /\ \/ InStep(a, "raw") /\ calls[a].env.raw
       \/ InStep(a, "provenance")
       \/ InStep(a, "intent")
       \/ InStep(a, "commit")
    /\ Goto(a, "abort")
    /\ degraded' = TRUE
    /\ UNCHANGED <<ingestClock, trust, windows, admissions, rawStore, provenance,
                   intents, queue>>

(* commit: accepted only when the registry confirms the reservation; an    *)
(* unavailable registry, or a reservation given back by another attempt,   *)
(* leaves the writes for a person to look at.                              *)
commit(a) ==
    /\ InStep(a, "commit")
    /\ LET e == calls[a].env
       IN  \/ /\ Holds(e)
              /\ admissions' = [admissions EXCEPT ![e.nonce].state = "COMMITTED"]
              /\ Decide(a, "ACCEPTED")
              /\ degraded' = FALSE
           \/ Reject(a, "HUMAN_REVIEW", TRUE) /\ UNCHANGED admissions
    /\ UNCHANGED <<ingestClock, trust, windows, rawStore, provenance, intents, queue>>

abortsCommitted(a) ==
    /\ InStep(a, "abort")
    /\ Reject(a, "HUMAN_REVIEW", FALSE)
    /\ LET e == calls[a].env
       IN  \/ Holds(e) /\ admissions' = [admissions EXCEPT ![e.nonce] = Nothing]
           \/ UNCHANGED admissions
    /\ UNCHANGED <<ingestClock, trust, windows, rawStore, provenance, intents, queue>>

(* abort gives back only a reservation that is still open; it may fail.    *)
abort(a) ==
    /\ InStep(a, "abort")
    /\ Reject(a, "HUMAN_REVIEW", FALSE)
    /\ LET e == calls[a].env
       IN  \/ /\ Holds(e) /\ admissions[e.nonce].state = "RESERVED"
              /\ admissions' = [admissions EXCEPT ![e.nonce] = Nothing]
           \/ UNCHANGED admissions
    /\ UNCHANGED <<ingestClock, trust, windows, rawStore, provenance, intents, queue>>

(* The rejection is filed and answered; a quarantine store that fails      *)
(* degrades the service and changes nothing else.                          *)
quarantineSignal(a) ==
    /\ InStep(a, "quarantine")
    /\ Decide(a, calls[a].disposition)
    /\ \E filed \in BOOLEAN : degraded' = (degraded \/ ~filed)
    /\ UNCHANGED <<ingestClock, trust, windows, admissions, rawStore, provenance,
                   intents, queue>>

(* The registry's owner changes a source's standing.                       *)
setTrust(s) ==
    /\ trust[s] # "REVOKED"
    /\ \E state \in {"ACTIVE", "REVOKED"} \ {trust[s]} : trust' = [trust EXCEPT ![s] = state]
    /\ UNCHANGED <<ingestClock, windows, admissions, rawStore, provenance, intents,
                   queue, degraded, calls>>

IngestTick ==
    /\ ingestClock < MaxIngestTime
    /\ ingestClock' = ingestClock + 1
    /\ UNCHANGED <<trust, windows, admissions, rawStore, provenance, intents, queue,
                   degraded, calls>>

IngestNext ==
    \/ \E a \in Attempts :
          \/ \E e \in Envelopes : enqueueSignal(a, e) \/ ingest(a, e)
          \/ checkSource(a) \/ consume(a) \/ admit(a)
          \/ putRaw(a) \/ putProvenance(a) \/ createIntent(a) \/ PersistFails(a)
          \/ commit(a) \/ abort(a) \/ quarantineSignal(a)
    \/ drainQueue
    \/ \E s \in Sources : setTrust(s)
    \/ IngestTick

IngestSpec == IngestInit /\ [][IngestNext]_ingestVars

Accepted == {a \in Attempts : InStep(a, "done") /\ calls[a].disposition = "ACCEPTED"}

(* A call begun after its nonce was reported accepted is never accepted:   *)
(* an attempt that still runs cannot reopen the reservation.               *)
ReplayIsRefused == \A a \in Accepted : ~calls[a].replay

(* What was answered ACCEPTED can be recovered: the nonce is committed to  *)
(* this admission and so to no other signal, the provenance and the intent *)
(* are stored, and raw evidence that the provenance names is stored too.   *)
AcceptedIsRecoverable ==
    \A a \in Accepted :
        LET e == calls[a].env
        IN  /\ Holds(e) /\ admissions[e.nonce].state = "COMMITTED"
            /\ intents[e.signal] # Nothing
            /\ provenance[ProvenanceId(e)] # Nothing
            /\ provenance[ProvenanceId(e)].raw => e.signal \in rawStore

(* A safety intent is never left to itself: some call about its signal is  *)
(* still running, or was accepted, or was handed to a person.              *)
IntentAccounted ==
    \A s \in Signals : intents[s] # Nothing =>
        \E a \in Attempts : /\ calls[a] # Nothing
                            /\ calls[a].env.signal = s
                            /\ \/ calls[a].disposition \in {"PENDING", "ACCEPTED"}
                               \/ calls[a].disposition = "HUMAN_REVIEW"

(* Whichever port failed at whichever stage, a nonce lets one signal in,   *)
(* what was accepted is there, and what was begun is in somebody's hands   *)
(* (ingest).                                                               *)
IngestionAccounts == ReplayIsRefused /\ AcceptedIsRecoverable /\ IntentAccounted
=============================================================================
