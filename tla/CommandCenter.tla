--------------------------- MODULE CommandCenter ---------------------------
(***************************************************************************)
(* The human-safety command center: the controller in an operator's        *)
(* browser, the HTTP handler behind it and the rows the handler changes.   *)
(* One case; its contact sessions, its road event and its evidence are     *)
(* also changed by others.  A view is what a GET answers; the handler      *)
(* reads the event and the session of a view in two queries.               *)
(***************************************************************************)
EXTENDS HumanContactProtocol

CONSTANTS
    SessionIds,     \* contact sessions of the case
    Submissions,    \* actions of the operator; also their idempotency keys
    Transmissions,  \* requests that reach the handler
    StaleAfter,     \* staleAfterMs
    MaxRowVersion,  \* bound on the versions of sessions and case
    Unset           \* no row, no view, no request

(* The rows of the case and of a session, a view of both, an action of the *)
(* operator, and a request in the handler.                                 *)
CaseRow    == [version : Nat, resolved : BOOLEAN]
SessionRow == [state : States, version : Nat, human : BOOLEAN]
View == [version : Nat, resolved : BOOLEAN, session : SessionIds \cup {Unset},
         contact : SessionRow \cup {Unset}]
Submission == [action : {"takeover", "escalate", "assignment", "resolution"}, seen : View,
               status : {"pending", "failed", "applied"}, doubt : BOOLEAN]
Handling ==
    [pc : {"lookup", "put", "done"}, key : Submissions]
      \cup [pc : {"read"}, key : Submissions, version : Nat]
      \cup [pc : {"act"}, key : Submissions, version : Nat, session : SessionIds \cup {Unset}]
      \cup [pc : {"release", "answer"}, key : Submissions, answer : View \cup {Unset}]

(* The unset is none of them.                                              *)
ASSUME CommandAssumption ==
    /\ {StaleAfter, MaxRowVersion} \subseteq Nat
    /\ Unset \notin CaseRow /\ Unset \notin SessionRow /\ Unset \notin View
    /\ Unset \notin Submission /\ Unset \notin Handling /\ Unset \notin SessionIds

VARIABLES
    caseRow,      \* road_events: [version, resolved]
    sessionRows,  \* ros_eye_contact_sessions: [state, version, human] by id
    latest,       \* the session with the greatest updated_at
    verdicts,     \* statuses of the case's evidence objects
    reservations, \* idempotency_reservations
    results,      \* idempotency_records: the view put under a key
    effects,      \* what each submission changed, with the row it changed
    handlers,     \* requests being handled
    fetches,      \* load and select under way: the event they read
    submitted,    \* the operator's actions, with the view each was decided on
    screen        \* the controller's state

rowVars  == <<caseRow, sessionRows, latest, verdicts>>
keyVars     == <<reservations, results, effects>>
browserVars == <<fetches, submitted, screen>>
commandVars == <<rowVars, keyVars, handlers, browserVars>>

CommandInit ==
    /\ caseRow = [version |-> 1, resolved |-> FALSE]
    /\ sessionRows = [s \in SessionIds |-> Unset]
    /\ latest = Unset
    /\ verdicts = {}
    /\ reservations = {}
    /\ results = [k \in Submissions |-> Unset]
    /\ effects = [k \in Submissions |-> {}]
    /\ handlers = [h \in Transmissions |-> Unset]
    /\ fetches = [f \in {"load", "select"} |-> Unset]
    /\ submitted = [k \in Submissions |-> Unset]
    /\ screen = [phase |-> "loading", items |-> FALSE, selected |-> Unset,
                 stale |-> FALSE, age |-> 0, doubt |-> FALSE]

----------------------------------------------------------------------------
(* What the handler reads.                                                 *)

EvidenceState ==
    CASE "QUARANTINED" \in verdicts -> "QUARANTINED"
      [] verdicts \cap {"QUARANTINED", "PRESERVED"} = {"PRESERVED"} -> "TRUSTED"
      [] verdicts = {} -> "MISSING"
      [] OTHER -> "AMBIGUOUS"

(* read joins an event read earlier with the newest session of now.        *)
view(event) ==
    [version |-> event.version, resolved |-> event.resolved,
     session |-> latest,
     contact |-> IF latest = Unset THEN Unset ELSE sessionRows[latest]]

----------------------------------------------------------------------------
(* Other writers of the rows.  All of them advance the version they read.  *)

Updated(row, state) == [row EXCEPT !.state = state, !.version = @ + 1]

Write(s, row) ==
    /\ sessionRows' = [sessionRows EXCEPT ![s] = row]
    /\ latest' = s

openSession(s) ==
    /\ sessionRows[s] = Unset
    /\ Write(s, [state |-> "CONSENT_PENDING", version |-> 1, human |-> FALSE])
    /\ UNCHANGED <<caseRow, verdicts, keyVars, handlers, browserVars>>

(* The contact runtime and the Field Companion move a session along the    *)
(* protocol.                                                               *)
updateSession(s) ==
    /\ sessionRows[s] # Unset
    /\ sessionRows[s].version < MaxRowVersion
    /\ \E to \in {"LANGUAGE_SELECTION", "CONTACTING", "AWAITING_RESPONSE", "HUMAN_REVIEW"} :
          /\ Approved(sessionRows[s].state, to, "SYSTEM", TRUE, 1)
          /\ Write(s, Updated(sessionRows[s], to))
    /\ UNCHANGED <<caseRow, verdicts, keyVars, handlers, browserVars>>

(* A road-event command of someone else.                                   *)
updateEvent ==
    /\ caseRow.version < MaxRowVersion
    /\ caseRow' = [caseRow EXCEPT !.version = @ + 1]
    /\ UNCHANGED <<sessionRows, latest, verdicts, keyVars, handlers, browserVars>>

(* Evidence is registered and later preserved or quarantined, for good.    *)
recordEvidence ==
    /\ \E v \in {"PENDING", "PRESERVED", "QUARANTINED"} \ verdicts :
          /\ v # "PENDING" => "PENDING" \in verdicts
          /\ verdicts' = verdicts \cup {v}
    /\ UNCHANGED <<caseRow, sessionRows, latest, keyVars, handlers, browserVars>>

----------------------------------------------------------------------------
(* The handler of an action, between its awaits.  Any throw after the      *)
(* reservation leaves the reservation behind.                              *)

Reached(h, pc) == handlers[h] # Unset /\ handlers[h].pc = pc
Request(h) == submitted[handlers[h].key]
Become(h, stage) == handlers' = [handlers EXCEPT ![h] = stage]

(* The answer the transport has still to carry: a view, or Unset for 409.  *)
Finish(h, answer) ==
    Become(h, [pc |-> "answer", key |-> handlers[h].key, answer |-> answer])

(* A request reaches the handler, again if the transport repeats it, and   *)
(* reserves its key.                                                       *)
receive(h, k) ==
    /\ handlers[h] = Unset
    /\ submitted[k] # Unset
    /\ IF k \in reservations
       THEN /\ handlers' = [handlers EXCEPT ![h] = [pc |-> "answer", key |-> k, answer |-> Unset]]
            /\ UNCHANGED reservations
       ELSE /\ handlers' = [handlers EXCEPT ![h] = [pc |-> "lookup", key |-> k]]
            /\ reservations' = reservations \cup {k}
    /\ UNCHANGED <<rowVars, results, effects, browserVars>>

(* A stored result is replayed; otherwise the operation starts with the    *)
(* version of the case.                                                    *)
idempotent(h) ==
    LET k == handlers[h].key IN
    /\ Reached(h, "lookup")
    /\ IF results[k] # Unset
          THEN Become(h, [pc |-> "release", key |-> k, answer |-> results[k]])
        ELSE IF caseRow.version # Request(h).seen.version
          THEN Finish(h, Unset)
        ELSE Become(h, [pc |-> "read", key |-> k, version |-> caseRow.version])
    /\ UNCHANGED <<rowVars, keyVars, browserVars>>

(* store.read chooses the session and judges the evidence.                 *)
readBacking(h) ==
    LET r == Request(h) IN
    /\ Reached(h, "read")
    /\ IF \/ r.action = "resolution" /\ EvidenceState # "TRUSTED"
          \/ r.action # "resolution" /\ Unset \in {latest, r.seen.contact}
       THEN Finish(h, Unset)
       ELSE Become(h, [pc |-> "act", key |-> handlers[h].key, version |-> handlers[h].version,
                       session |-> latest])
    /\ UNCHANGED <<rowVars, keyVars, browserVars>>

Acted(h) == Become(h, [pc |-> "put", key |-> handlers[h].key])
Effect(h, e) == effects' = [effects EXCEPT ![handlers[h].key] = @ \cup {e}]

(* What mutate writes, if the transition is the operator's to make.        *)
Mutated(row, action) ==
    LET to == CASE action = "takeover" -> "OPERATOR_TAKEOVER"
                [] action = "escalate" -> "ESCALATED"
                [] OTHER               -> row.state
    IN  [Updated(row, to) EXCEPT !.human = TRUE]

AnyVersion(row, r) == TRUE
SameVersion(row, r) == row.version = r.seen.contact.version

Mutable(row, r) ==
    /\ SameVersion(row, r)
    /\ r.action # "assignment" =>
          Approved(row.state, Mutated(row, r.action).state, "SUPERVISOR", TRUE, 1)

(* The transaction of mutate: one locked row, its version and its state.   *)
mutate(h) ==
    LET s == handlers[h].session
        r == Request(h)
    IN  /\ Reached(h, "act") /\ r.action # "resolution"
        /\ IF Mutable(sessionRows[s], r)
           THEN /\ Write(s, Mutated(sessionRows[s], r.action))
                /\ Effect(h, [session |-> s, row |-> sessionRows[s]])
                /\ Acted(h)
           ELSE Finish(h, Unset) /\ UNCHANGED <<sessionRows, latest, effects>>
        /\ UNCHANGED <<caseRow, verdicts, reservations, results, browserVars>>

(* application.authorizeClosure, on the version the handler read.          *)
authorizeResolution(h) ==
    /\ Reached(h, "act") /\ Request(h).action = "resolution"
    /\ IF caseRow.version = handlers[h].version
       THEN /\ caseRow' = [version |-> caseRow.version + 1, resolved |-> TRUE]
            /\ Effect(h, [session |-> "case", row |-> caseRow])
            /\ Acted(h)
       ELSE Finish(h, Unset) /\ UNCHANGED <<caseRow, effects>>
    /\ UNCHANGED <<sessionRows, latest, verdicts, reservations, results, browserVars>>

(* The case is read again, and the view answered is kept under the key.    *)
put(h) ==
    LET k == handlers[h].key IN
    /\ Reached(h, "put")
    /\ results' = [results EXCEPT ![k] = view(caseRow)]
    /\ Become(h, [pc |-> "release", key |-> k, answer |-> view(caseRow)])
    /\ UNCHANGED <<rowVars, reservations, effects, browserVars>>

release(h) ==
    /\ Reached(h, "release")
    /\ reservations' = reservations \ {handlers[h].key}
    /\ Finish(h, handlers[h].answer)
    /\ UNCHANGED <<rowVars, results, effects, browserVars>>

breakDownReleases(h) ==
    /\ handlers[h] # Unset /\ handlers[h].pc # "answer"
    /\ Finish(h, Unset)
    /\ reservations' = reservations \ {handlers[h].key}
    /\ UNCHANGED <<rowVars, results, effects, browserVars>>

(* The process or a query fails: the request is answered 500 or not at     *)
(* all, and the reservation stays.                                         *)
breakDown(h) ==
    /\ handlers[h] # Unset /\ handlers[h].pc # "answer"
    /\ Finish(h, Unset)
    /\ UNCHANGED <<rowVars, keyVars, browserVars>>

----------------------------------------------------------------------------
(* The browser.  paint ends every reaction; it recomputes staleness from   *)
(* the age of the data alone.                                              *)

refreshStaleness(scr) == [scr EXCEPT !.stale = scr.age > StaleAfter]

(* loadedState, and the end of select and apply.  doubt is bookkeeping: an *)
(* action's outcome is unknown and nothing was fetched since.              *)
Fresh(scr, selected) ==
    refreshStaleness([phase |-> "ready", items |-> TRUE, selected |-> selected,
                      stale |-> FALSE, age |-> 0, doubt |-> FALSE])

(* The timer or the refresh button; one reload at a time.  The handler of  *)
(* the GET reads the event and, before it answers, the rest.               *)
load ==
    /\ fetches["load"] = Unset
    /\ fetches' = [fetches EXCEPT !["load"] = caseRow]
    /\ screen' = [screen EXCEPT !.phase = "loading"]
    /\ UNCHANGED <<rowVars, keyVars, handlers, submitted>>

select ==
    /\ screen.items
    /\ fetches["select"] = Unset
    /\ fetches' = [fetches EXCEPT !["select"] = caseRow]
    /\ UNCHANGED <<rowVars, keyVars, handlers, submitted, screen>>

fetched(f) ==
    /\ fetches[f] # Unset
    /\ screen' = Fresh(screen, IF f = "load" /\ screen.selected = Unset
                               THEN Unset ELSE view(fetches[f]))
    /\ fetches' = [fetches EXCEPT ![f] = Unset]
    /\ UNCHANGED <<rowVars, keyVars, handlers, submitted>>

fetchFails(f) ==
    /\ fetches[f] # Unset
    /\ screen' = refreshStaleness([screen EXCEPT !.phase = "failure"])
    /\ fetches' = [fetches EXCEPT ![f] = Unset]
    /\ UNCHANGED <<rowVars, keyVars, handlers, submitted>>

(* canTakeover, canEscalate and canReassign, for a supervisor; the handler *)
(* reports connectivity and dependencies as healthy.                       *)
CanAct ==
    /\ screen.phase = "ready" /\ ~ screen.stale
    /\ screen.selected # Unset /\ ~ screen.selected.resolved

Submit(k, action, seen, doubt) ==
    /\ submitted[k] = Unset
    /\ submitted' = [submitted EXCEPT ![k] =
                       [action |-> action, seen |-> seen, status |-> "pending", doubt |-> doubt]]
    /\ UNCHANGED <<rowVars, keyVars, handlers, fetches, screen>>

act(k) ==
    /\ CanAct
    /\ \E action \in {"takeover", "escalate", "assignment"} :
          Submit(k, action, screen.selected, screen.doubt)

(* The browser offers a resolution only in state MONITORED, which no       *)
(* session of the runtime reaches; a supervisor's other client asks for    *)
(* one, having just read the case.                                         *)
requestResolution(k) == Submit(k, "resolution", view(caseRow), FALSE)

Note(k, status) == submitted' = [submitted EXCEPT ![k].status = status]

(* execute marks the view stale; runAction then paints.                    *)
Doubtful(scr) ==
    refreshStaleness([scr EXCEPT !.stale = TRUE, !.doubt = TRUE])

(* A success is applied to the view; a refusal is an ambiguous failure.    *)
answered(h) ==
    LET k == handlers[h].key IN
    /\ Reached(h, "answer")
    /\ submitted[k].status = "pending"
    /\ Become(h, [pc |-> "done", key |-> k])
    /\ IF handlers[h].answer = Unset
       THEN Note(k, "failed") /\ screen' = Doubtful(screen)
       ELSE Note(k, "applied") /\ screen' = Fresh(screen, handlers[h].answer)
    /\ UNCHANGED <<rowVars, keyVars, fetches>>

(* The transport gives up; the request may still be handled.               *)
networkFailure(k) ==
    /\ submitted[k] # Unset /\ submitted[k].status = "pending"
    /\ Note(k, "failed")
    /\ screen' = Doubtful(screen)
    /\ UNCHANGED <<rowVars, keyVars, handlers, fetches>>

commandTick ==
    /\ screen.age <= StaleAfter
    /\ screen' = [screen EXCEPT !.age = @ + 1]
    /\ UNCHANGED <<rowVars, keyVars, handlers, fetches, submitted>>

(* Choosing a filter repaints.                                             *)
setFilter ==
    /\ screen' = refreshStaleness(screen)
    /\ UNCHANGED <<rowVars, keyVars, handlers, fetches, submitted>>

CommandNext ==
    \/ \E s \in SessionIds : openSession(s) \/ updateSession(s)
    \/ updateEvent \/ recordEvidence
    \/ \E h \in Transmissions :
          \/ \E k \in Submissions : receive(h, k)
          \/ idempotent(h) \/ readBacking(h) \/ mutate(h) \/ authorizeResolution(h)
          \/ put(h) \/ release(h) \/ breakDown(h) \/ answered(h)
    \/ load \/ select \/ setFilter \/ commandTick
    \/ \E f \in {"load", "select"} :
          fetched(f) \/ fetchFails(f)
    \/ \E k \in Submissions : act(k) \/ requestResolution(k) \/ networkFailure(k)

CommandSpec == CommandInit /\ [][CommandNext]_commandVars

----------------------------------------------------------------------------
(* Properties                                                              *)

(* Whatever runs between the operator's look and the transaction (the      *)
(* runtime, a colleague, a newer session), an action that changes the      *)
(* session it was decided on finds it exactly as the operator saw it.      *)
ActsOnTheSeen ==
    \A k \in Submissions : \A e \in effects[k] :
        submitted[k].action # "resolution" /\ e.session = submitted[k].seen.session =>
            e.row = submitted[k].seen.contact

(* A key changes the case at most once, although the request is repeated,  *)
(* its answer lost, the handler breaks down between the change and the     *)
(* stored result, and a newer session with the same version appears.       *)
OneEffectPerSubmission ==
    \A k \in Submissions : \A e, f \in effects[k] : e = f

(* The browser shows success only for an action that was carried out, on a *)
(* first answer or a replay.                                               *)
SuccessTookEffect ==
    \A k \in Submissions :
        submitted[k] # Unset /\ submitted[k].status = "applied" => effects[k] # {}

(* What the operator submits happens at most once, and success is shown    *)
(* only for what happened (mutate, executeExclusively).                    *)
SubmissionsAreTrue == OneEffectPerSubmission /\ SuccessTookEffect

(* No resolution is authorized through the command center while the case   *)
(* has no preserved evidence, although the evidence is judged before the   *)
(* transaction that authorizes.                                            *)
ResolutionIsVouched ==
    \A k \in Submissions :
        submitted[k] # Unset /\ submitted[k].action = "resolution" /\ effects[k] # {} =>
            "PRESERVED" \in verdicts

(* An action rests on what the operator saw and a resolution on preserved  *)
(* evidence, although both are looked at before the transaction that       *)
(* changes the case (mutate of human-safety-http).                         *)
ActionsAreInformed == ActsOnTheSeen /\ ResolutionIsVouched

(* human-safety-command-center.spec.ts: an "ambiguous remote action        *)
(* failure marks Human Safety data stale and disables retry".              *)
RetryIsDisabled ==
    \A k \in Submissions : submitted[k] # Unset => ~ submitted[k].doubt
=============================================================================
