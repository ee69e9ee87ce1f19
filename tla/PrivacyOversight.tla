-------------------------- MODULE PrivacyOversight --------------------------
(***************************************************************************)
(* Access to restricted data: PrivacyAccessOrchestrator.authorizeAccess    *)
(* with the tables, the function and the triggers of migrations 0007 and   *)
(* 0008, and RecommendationExecutionOrchestrator.                          *)
(*                                                                         *)
(* An access runs in one transaction, which locks the lease row and, from  *)
(* the rate decision on, the actor's window row.  Its writes are collected *)
(* in the access and reach the tables when it commits; a denial inside the *)
(* transaction commits too, an exception rolls back.                       *)
(***************************************************************************)
EXTENDS Naturals, FiniteSets

CONSTANTS
    LeaseIds,        \* ids of break-glass leases
    Officers,        \* actors
    LeaseOfficer,    \* the actor each lease was issued to
    Demands,         \* [lease, key, kind, action, officer, consent] of an access request
    Accesses,        \* calls of authorizeAccess
    LeaseTime,       \* lifetime of a lease
    UseWindow,       \* window_seconds
    MaxUses,         \* max_uses
    Approvals,       \* [rec, version, action, risk, proposer, hash, approver] of approvals
    Executions,      \* [rec, version, action, risk, proposer, hash, approval, key] of requests
    Orders,          \* calls of RecommendationExecutionOrchestrator.authorize
    ApprovalTime,    \* lifetime of an approval
    MaxOversightTime,
    Missing          \* no row, no call, no lock

(* The rows of leases, windows and uses; a call, answered or under way.    *)
LeaseRow  == [issued : Nat, ended : Nat \cup {Missing}]
WindowRow == [started : Nat, uses : Nat]
UseRow    == [decision : {"ALLOW", "RATE_LIMIT", "ANOMALY_REVIEW"}, at : Nat]
RepliedCall == [demand : Demands, pc : {"done"}, answer : {"DENY", "FULL", "ERROR"}]
OpenCall ==
    [demand : Demands, pc : {"begin", "found", "alert", "audit", "final"},
     answer : {"PENDING"}, now : Nat, window : WindowRow \cup {Missing}, fresh : BOOLEAN]

(* An order: what is asked and for which time, when its approval was       *)
(* looked up, how far it is and what the caller was told.                  *)
OrderRow ==
    [request : Executions, asked : Nat, found : Nat \cup {Missing},
     pc : {"find", "execute", "done"}, answer : {"PENDING", "TRUE", "FALSE", "ERROR"}]

(* The missing is no row.  A demand names a lease and an actor, and a      *)
(* request to execute at most one approval.                                *)
ASSUME OversightAssumption ==
    /\ {LeaseTime, UseWindow, MaxUses, ApprovalTime} \subseteq Nat \ {0}
    /\ MaxOversightTime \in Nat
    /\ LeaseOfficer \in [LeaseIds -> Officers]
    /\ \A d \in Demands : d.lease \in LeaseIds /\ d.officer \in Officers
    /\ \A x \in Executions : x.approval \in Approvals \cup {Missing}
    /\ Missing \notin Nat /\ Missing \notin LeaseRow /\ Missing \notin WindowRow
    /\ Missing \notin UseRow /\ Missing \notin RepliedCall /\ Missing \notin OpenCall
    /\ Missing \notin OrderRow /\ Missing \notin Orders /\ Missing \notin Approvals

VARIABLES
    privacyClock,
    leases,     \* [issued, ended] of each lease: ended is when it was reviewed or revoked
    useWindows, \* ros_eye_break_glass_actor_windows: [started, uses] of an actor
    usage,      \* ros_eye_break_glass_abuse_usage, by grant id
    alerts,     \* grants with a reserved alert
    useAudit,   \* grants with a use audit and its time
    grants,     \* ros_eye_break_glass_grants: when authorized, by grant id
    accesses,   \* calls, by Accesses
    approvalRows, \* ros_eye_recommendation_approvals: ended when it was revoked or expired
    orders,     \* calls, by Orders
    executed    \* ros_eye_recommendation_executions: the order executed, by idempotency key

privacyVars == <<privacyClock, leases, useWindows, usage, alerts, useAudit, grants,
                 accesses, approvalRows, orders, executed>>
tables == <<useWindows, usage, alerts, useAudit, grants>>
executionVars == <<approvalRows, orders, executed>>

(* grantId covers the whole request.                                       *)
GrantId(d) == d
Actions(d) == d.action \in {"READ", "MASKED_READ"}
Keys == {x.key : x \in Executions}

PrivacyInit ==
    /\ privacyClock = 0
    /\ leases = [l \in LeaseIds |-> Missing]
    /\ useWindows = [o \in Officers |-> Missing]
    /\ usage = [d \in Demands |-> Missing]
    /\ alerts = {}
    /\ useAudit = [d \in Demands |-> Missing]
    /\ grants = [d \in Demands |-> Missing]
    /\ accesses = [a \in Accesses |-> Missing]
    /\ approvalRows = [p \in Approvals |-> Missing]
    /\ orders = [o \in Orders |-> Missing]
    /\ executed = [k \in Keys |-> Missing]

InAccess(a, pc) == accesses[a] # Missing /\ accesses[a].pc = pc
Step(a, pc) == accesses' = [accesses EXCEPT ![a].pc = pc]
Reply(d, answer) == [demand |-> d, pc |-> "done", answer |-> answer]
Answer(a, answer) == accesses' = [accesses EXCEPT ![a] = Reply(@.demand, answer)]

LeaseLocked(l) == \E a \in Accesses : accesses[a] # Missing /\ accesses[a].demand.lease = l
                      /\ accesses[a].pc \in {"found", "alert", "audit", "final"}
WindowUnlocked(o) == FALSE

WindowLocked(o) == \E a \in Accesses : accesses[a] # Missing /\ accesses[a].demand.officer = o
                      /\ accesses[a].pc \in {"alert", "audit", "final"}

(* A lease holds between issue and expiry unless it was reviewed or        *)
(* revoked: asked by the orchestrator twice and by the trigger.            *)
LeaseActive(l, now) ==
    /\ leases[l] # Missing /\ leases[l].ended = Missing
    /\ leases[l].issued <= now /\ now < leases[l].issued + LeaseTime

validBreakGlass(d, now) == LeaseActive(d.lease, now) /\ LeaseOfficer[d.lease] = d.officer

createBreakGlassLease(l) ==
    /\ leases[l] = Missing
    /\ leases' = [leases EXCEPT ![l] = [issued |-> privacyClock, ended |-> Missing]]
    /\ UNCHANGED <<privacyClock, tables, accesses, executionVars>>

(* A review or a revocation waits for the transaction that holds the row.  *)
EndLease(l) ==
    /\ leases[l] # Missing /\ leases[l].ended = Missing /\ ~LeaseLocked(l)
    /\ leases' = [leases EXCEPT ![l].ended = privacyClock]
    /\ UNCHANGED <<privacyClock, tables, accesses, executionVars>>

(* Scope, role, lifecycle, consent and data kind are checked before the    *)
(* transaction, and the time is read once for all of it.                   *)
authorizeAccess(a, d) ==
    /\ accesses[a] = Missing
    /\ accesses' = [accesses EXCEPT ![a] =
          IF d.action = "EXPORT" \/ ~d.consent THEN Reply(d, "DENY")
          ELSE [demand |-> d, pc |-> "begin", answer |-> "PENDING", now |-> privacyClock,
                window |-> Missing, fresh |-> FALSE]]
    /\ UNCHANGED <<privacyClock, leases, tables, executionVars>>

(* findLeaseForUpdate and findAuthorized.                                  *)
findLeaseForUpdate(a) ==
    /\ InAccess(a, "begin") /\ ~LeaseLocked(accesses[a].demand.lease)
    /\ LET d == accesses[a].demand
       IN  CASE ~validBreakGlass(d, accesses[a].now)  -> Answer(a, "DENY")
             [] grants[GrantId(d)] # Missing          -> Answer(a, "FULL")
             [] OTHER                                 -> Step(a, "found")
    /\ UNCHANGED <<privacyClock, leases, tables, executionVars>>

NoWindow(o, at) == useWindows[o] = Missing \/ at >= useWindows[o].started + UseWindow

(* consume_ros_eye_break_glass_abuse.  A decision already taken for the    *)
(* grant stands; otherwise the window is begun, restarted or counted.  A   *)
(* denial is the end of the transaction and is committed.                  *)
consumeAbuse(a) ==
    LET d  == accesses[a].demand
        o  == d.officer
        at == accesses[a].now
        begun    == [started |-> at, uses |-> 0]
        window   == IF NoWindow(o, at) THEN begun ELSE useWindows[o]
        decision == CASE at < window.started        -> "ANOMALY_REVIEW"
                      [] window.uses >= MaxUses     -> "RATE_LIMIT"
                      [] OTHER                      -> "ALLOW"
    IN  /\ InAccess(a, "found")
        /\ \/ /\ usage[GrantId(d)] # Missing
              /\ IF usage[GrantId(d)].decision = "ALLOW"
                 THEN accesses' = [accesses EXCEPT ![a].pc = "alert", ![a].window = useWindows[o]]
                 ELSE Answer(a, "DENY")
              /\ UNCHANGED tables
           \/ /\ usage[GrantId(d)] = Missing /\ ~WindowLocked(o)
              /\ IF decision = "ALLOW"
                 THEN /\ accesses' = [accesses EXCEPT ![a].pc = "alert", ![a].fresh = TRUE,
                                         ![a].window = [window EXCEPT !.uses = @ + 1]]
                      /\ UNCHANGED tables
                 ELSE /\ Answer(a, "DENY")
                      /\ usage' = [usage EXCEPT ![GrantId(d)] =
                                      [decision |-> decision, at |-> at]]
                      /\ useWindows' = [useWindows EXCEPT ![o] = window]
                      /\ UNCHANGED <<alerts, useAudit, grants>>
        /\ UNCHANGED <<privacyClock, leases, executionVars>>

(* What the transaction has written so far, when it commits.               *)
Commit(a, alert, audit, grant) ==
    LET d == accesses[a].demand
    IN  /\ IF accesses[a].fresh
           THEN /\ useWindows' = [useWindows EXCEPT ![d.officer] = accesses[a].window]
                /\ usage' = [usage EXCEPT ![GrantId(d)] =
                                [decision |-> "ALLOW", at |-> accesses[a].now]]
           ELSE UNCHANGED <<useWindows, usage>>
        /\ alerts' = IF alert THEN alerts \cup {GrantId(d)} ELSE alerts
        /\ useAudit' = IF audit /\ useAudit[GrantId(d)] = Missing
                       THEN [useAudit EXCEPT ![GrantId(d)] = accesses[a].now] ELSE useAudit
        /\ grants' = IF grant THEN [grants EXCEPT ![GrantId(d)] = privacyClock] ELSE grants

reserveAlert(a) ==
    /\ InAccess(a, "alert")
    /\ \/ Step(a, "audit") /\ UNCHANGED tables
       \/ Answer(a, "DENY") /\ Commit(a, FALSE, FALSE, FALSE)
    /\ UNCHANGED <<privacyClock, leases, executionVars>>

(* The table of use audits takes reads only.                               *)
appendAudit(a) ==
    /\ InAccess(a, "audit")
    /\ \/ Actions(accesses[a].demand) /\ Step(a, "final") /\ UNCHANGED tables
       \/ Actions(accesses[a].demand) /\ Answer(a, "DENY") /\ Commit(a, TRUE, FALSE, FALSE)
       \/ ~Actions(accesses[a].demand) /\ Answer(a, "ERROR") /\ UNCHANGED tables
    /\ UNCHANGED <<privacyClock, leases, executionVars>>

(* One grant per actor, lease and idempotency key.                         *)
KeyFree(d) == \A e \in Demands : /\ e.officer = d.officer /\ e.lease = d.lease /\ e.key = d.key
                                 => grants[GrantId(e)] = Missing

(* The clock and the lease are read again; then the trigger checks what    *)
(* the grant rests on.                                                     *)
finalizeGrant(a) ==
    LET d == accesses[a].demand
    IN  /\ InAccess(a, "final")
        /\ \/ /\ ~validBreakGlass(d, privacyClock)
              /\ Answer(a, "DENY") /\ Commit(a, TRUE, TRUE, FALSE)
           \/ /\ validBreakGlass(d, privacyClock) /\ KeyFree(d)
              /\ Answer(a, "FULL") /\ Commit(a, TRUE, TRUE, TRUE)
           \/ /\ validBreakGlass(d, privacyClock) /\ ~KeyFree(d)
              /\ Answer(a, "ERROR") /\ UNCHANGED tables
        /\ UNCHANGED <<privacyClock, leases, executionVars>>

(* The connection is lost before the transaction commits.                  *)
Rollback(a) ==
    /\ accesses[a] # Missing /\ accesses[a].pc \in {"found", "alert", "audit", "final"}
    /\ Answer(a, "ERROR")
    /\ UNCHANGED <<privacyClock, leases, tables, executionVars>>

PrivacyTick ==
    /\ privacyClock < MaxOversightTime
    /\ privacyClock' = privacyClock + 1
    /\ UNCHANGED <<leases, tables, accesses, executionVars>>

(* A human approves, and later withdraws the approval or marks it expired. *)
(* Nobody approves what is their own.                                      *)
Approve(p) ==
    /\ approvalRows[p] = Missing /\ p.approver # p.proposer
    /\ approvalRows' = [approvalRows EXCEPT ![p] = [issued |-> privacyClock, ended |-> Missing]]
    /\ UNCHANGED <<privacyClock, leases, tables, accesses, orders, executed>>

EndApproval(p) ==
    /\ approvalRows[p] # Missing /\ approvalRows[p].ended = Missing
    /\ approvalRows' = [approvalRows EXCEPT ![p].ended = privacyClock]
    /\ UNCHANGED <<privacyClock, leases, tables, accesses, orders, executed>>

NeedsApproval(x) == x.risk \notin {"LOW", "MODERATE"}

(* The recommendation (with its tenant and case), its version, the action, *)
(* the risk, the proposer and the explanation are those approved.          *)
SameScope(x, p) ==
    /\ p.rec = x.rec /\ p.version = x.version /\ p.action = x.action
    /\ p.risk = x.risk /\ p.proposer = x.proposer /\ p.hash = x.hash

InTerm(p, at) ==
    /\ approvalRows[p] # Missing
    /\ approvalRows[p].issued <= at /\ at < approvalRows[p].issued + ApprovalTime

(* A mutant: whether the approval was withdrawn is not asked.              *)
WithdrawnCounts(x, at) ==
    LET p == x.approval
    IN  SameScope(x, p) /\ p.approver # x.proposer /\ InTerm(p, at)

(* An approval counts while its status is APPROVED, for what was approved, *)
(* at a time within its term.                                              *)
validApproval(x, at) ==
    LET p == x.approval
    IN  /\ SameScope(x, p) /\ p.approver # x.proposer
        /\ InTerm(p, at) /\ approvalRows[p].ended = Missing

Ordered(o, pc) == orders[o] # Missing /\ orders[o].pc = pc
Tell(o, answer) == orders' = [orders EXCEPT ![o].pc = "done", ![o].answer = answer]

(* A call brings its own time, which nothing compares with a clock.  A low *)
(* risk needs no approval.                                                 *)
authorize(o, x, now) ==
    LET pc == IF ~NeedsApproval(x) THEN "execute"
              ELSE IF x.approval = Missing THEN "done" ELSE "find"
    IN  /\ orders[o] = Missing
        /\ orders' = [orders EXCEPT ![o] =
              [request |-> x, asked |-> now, found |-> Missing, pc |-> pc,
               answer |-> IF pc = "done" THEN "FALSE" ELSE "PENDING"]]
        /\ UNCHANGED <<privacyClock, leases, tables, accesses, approvalRows, executed>>

findApproval(o) ==
    /\ Ordered(o, "find")
    /\ IF validApproval(orders[o].request, orders[o].asked)
       THEN orders' = [orders EXCEPT ![o].pc = "execute", ![o].found = privacyClock]
       ELSE Tell(o, "FALSE")
    /\ UNCHANGED <<privacyClock, leases, tables, accesses, approvalRows, executed>>

(* The authority records one execution for a key, or refuses; the answer   *)
(* to a recorded one may be lost.  A repetition is a success for what      *)
(* needs an approval only.  The approval is not read again.                *)
authorizeExecution(o) ==
    LET x == orders[o].request
    IN  /\ Ordered(o, "execute")
        /\ \/ /\ executed[x.key] = Missing
              /\ executed' = [executed EXCEPT ![x.key] = o]
              /\ Tell(o, "TRUE") \/ Tell(o, "ERROR")
           \/ /\ executed[x.key] # Missing
              /\ Tell(o, IF NeedsApproval(x) THEN "TRUE" ELSE "FALSE")
              /\ UNCHANGED executed
           \/ Tell(o, "FALSE") /\ UNCHANGED executed
        /\ UNCHANGED <<privacyClock, leases, tables, accesses, approvalRows>>

(* The authority does not answer.                                          *)
AuthorityFails(o) ==
    /\ Ordered(o, "find") \/ Ordered(o, "execute")
    /\ Tell(o, "ERROR")
    /\ UNCHANGED <<privacyClock, leases, tables, accesses, approvalRows, executed>>

AccessNext ==
    \/ \E l \in LeaseIds : createBreakGlassLease(l) \/ EndLease(l)
    \/ \E a \in Accesses :
          \/ \E d \in Demands : authorizeAccess(a, d)
          \/ findLeaseForUpdate(a) \/ consumeAbuse(a) \/ reserveAlert(a) \/ appendAudit(a)
          \/ finalizeGrant(a) \/ Rollback(a)
    \/ PrivacyTick

ExecutionNext ==
    \/ \E p \in Approvals : Approve(p) \/ EndApproval(p)
    \/ \E o \in Orders :
          \/ \E x \in Executions, now \in 0 .. MaxOversightTime : authorize(o, x, now)
          \/ findApproval(o) \/ authorizeExecution(o) \/ AuthorityFails(o)

PrivacySpec == PrivacyInit /\ [][AccessNext \/ ExecutionNext]_privacyVars

(* Whoever is answered FULL has a stored grant, and a grant rests on a     *)
(* rate decision that allowed it, a reserved alert and an audit entry, all *)
(* from before, under a lease that held at that moment: no transaction     *)
(* that waited, failed half-way or was retried leaves one without.         *)
GrantIsBacked ==
    /\ \A a \in Accesses : accesses[a] # Missing /\ accesses[a].answer = "FULL"
                              => grants[GrantId(accesses[a].demand)] # Missing
    /\ \A d \in Demands : grants[d] # Missing =>
          /\ usage[d] # Missing /\ usage[d].decision = "ALLOW" /\ usage[d].at <= grants[d]
          /\ d \in alerts /\ useAudit[d] # Missing /\ useAudit[d] <= grants[d]
          /\ leases[d.lease].issued <= grants[d]
          /\ grants[d] < leases[d.lease].issued + LeaseTime
          /\ leases[d.lease].ended # Missing => grants[d] <= leases[d.lease].ended

(* The window of an actor counts exactly the uses allowed in it, however   *)
(* many leases the actor holds and however often a request is retried.     *)
WindowCountsUses ==
    \A o \in Officers : useWindows[o] # Missing =>
        LET allowed == {d \in Demands : /\ d.officer = o /\ usage[d] # Missing
                                        /\ usage[d].decision = "ALLOW"
                                        /\ usage[d].at >= useWindows[o].started}
        IN  Cardinality(allowed) = useWindows[o].uses /\ useWindows[o].uses <= MaxUses

(* Break-glass access is backed and counted, however accesses race for     *)
(* leases and windows (authorizeAccess).                                   *)
AccessIsBacked == GrantIsBacked /\ WindowCountsUses

(* The approval of an order stood: it was recorded for the very request, by *)
(* someone else than the proposer, its term covers the time the request    *)
(* was made for, and nobody had ended it when it was looked up.            *)
Stood(o) ==
    LET x == orders[o].request
        p == x.approval
    IN  /\ p \in Approvals /\ SameScope(x, p) /\ p.approver # x.proposer
        /\ InTerm(p, orders[o].asked)
        /\ approvalRows[p].ended # Missing => orders[o].found <= approvalRows[p].ended

(* What is executed under a key, or reported executed to a caller, was     *)
(* approved if its risk is high, by an approval that stood when it was     *)
(* looked up: one revoked or expired before, given for another version,    *)
(* action or explanation, or not yet given at the time of the request,     *)
(* executes nothing, however orders, approvals, withdrawals and failures   *)
(* interleave.  Who is told yes has an execution under the key of the      *)
(* request, and its own if the risk is low.  An approval that ends between *)
(* lookup and execution still counts                                       *)
(* (RecommendationExecutionOrchestrator.authorize).                        *)
HighRiskIsApproved ==
    /\ \A k \in Keys : executed[k] # Missing =>
          LET o == executed[k]
          IN  /\ orders[o] # Missing /\ orders[o].request.key = k
              /\ NeedsApproval(orders[o].request) => Stood(o)
    /\ \A o \in Orders : orders[o] # Missing /\ orders[o].answer = "TRUE" =>
          LET x == orders[o].request
          IN  IF NeedsApproval(x) THEN executed[x.key] # Missing /\ Stood(o)
              ELSE executed[x.key] = o
=============================================================================
