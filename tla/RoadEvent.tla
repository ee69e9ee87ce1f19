----------------------------- MODULE RoadEvent -----------------------------
(***************************************************************************)
(* The RoadEvent aggregate (packages/domain/src/road-event): the status    *)
(* machine, the severity guard and the human closure authorization, as     *)
(* pure operators on a row of the table road_events.  A domain method that *)
(* throws is a Can... predicate that is false; its effect is the operator  *)
(* of the same name, applied only where the predicate holds.               *)
(***************************************************************************)
EXTENDS Naturals

CONSTANTS
    Actors,     \* authenticated actor identities
    Tenants,    \* access scopes: a tenant together with a purpose
    None        \* SQL NULL / JavaScript undefined

Statuses ==
    {"DETECTED", "VALIDATING", "CONFIRMED", "SAFETY_ASSESSMENT",
     "RESPONSE_COORDINATION", "ROAD_CLEARANCE", "RECOVERY", "CLOSED",
     "UNDER_REVIEW", "FALSE_POSITIVE", "DUPLICATE",
     "TRANSFERRED_TO_AUTHORITY"}

Levels == {"S0", "S1", "S2", "S3", "S4"}

(* The columns of road_events the properties tell apart.  Location, time,  *)
(* score, confidence and reason codes never influence control.             *)
Row == [status: Statuses, severity: Levels, review: BOOLEAN,
        authorizedBy: Actors \cup {None}, version: Nat \ {0},
        tenant: Tenants, reporter: Actors \cup {None}]

allowedTransitions ==
    [s \in Statuses |->
        CASE s = "DETECTED"     -> {"VALIDATING", "FALSE_POSITIVE"}
          [] s = "VALIDATING"   -> {"CONFIRMED", "UNDER_REVIEW",
                                    "FALSE_POSITIVE", "DUPLICATE"}
          [] s = "CONFIRMED"    -> {"SAFETY_ASSESSMENT"}
          [] s = "SAFETY_ASSESSMENT"        -> {"RESPONSE_COORDINATION"}
          [] s = "RESPONSE_COORDINATION"    -> {"ROAD_CLEARANCE",
                                                "TRANSFERRED_TO_AUTHORITY"}
          [] s = "ROAD_CLEARANCE"           -> {"RECOVERY"}
          [] s = "RECOVERY"                 -> {"CLOSED"}
          [] s = "UNDER_REVIEW" -> {"VALIDATING", "CONFIRMED",
                                    "FALSE_POSITIVE", "DUPLICATE"}
          [] s = "TRANSFERRED_TO_AUTHORITY" -> {"CLOSED"}
          [] OTHER              -> {}]

(* The statuses the table above lets nothing leave.                        *)
Terminal == {"CLOSED", "FALSE_POSITIVE", "DUPLICATE"}

isHighSeverity(level) == level \in {"S3", "S4"}

(* validateSeverityAssessment: S3 and S4 need human review.                *)
ValidAssessment(level, review) == isHighSeverity(level) => review

(* The constructor of RoadEvent as create uses it: version 1, DETECTED.    *)
NewRoadEvent(level, review, tenant, reporter) ==
    [status |-> "DETECTED", severity |-> level, review |-> review,
     authorizedBy |-> None, version |-> 1,
     tenant |-> tenant, reporter |-> reporter]

(* transitionTo with the closure guard left out.                           *)
CanTransitionTo_NoClosureGuard(row, next) ==
    next \in allowedTransitions[row.status]

CanTransitionTo(row, next) ==
    /\ next \in allowedTransitions[row.status]
    /\ ~ /\ next = "CLOSED"
         /\ isHighSeverity(row.severity)
         /\ row.authorizedBy = None

transitionTo(row, next) ==
    [row EXCEPT !.status = next, !.version = @ + 1]

(* assessSeverity that keeps an earlier closure authorization.             *)
assessSeverity_KeepsAuthorization(row, level, review) ==
    [row EXCEPT !.severity = level, !.review = review, !.version = @ + 1]

(* assessSeverity that sends the event back to assessment.                 *)
assessSeverity_Reopens(row, level, review) ==
    [row EXCEPT !.severity = level, !.review = review, !.authorizedBy = None,
                !.status = "SAFETY_ASSESSMENT", !.version = @ + 1]

(* Legal in every status; a new assessment voids the authorization.        *)
assessSeverity(row, level, review) ==
    [row EXCEPT !.severity = level, !.review = review,
                !.authorizedBy = None, !.version = @ + 1]

CanAuthorizeClosure(row) == "CLOSED" \in allowedTransitions[row.status]

authorizeClosure(row, actor) ==
    [row EXCEPT !.authorizedBy = actor, !.version = @ + 1]

(* The CHECK constraints of the table road_events.                         *)
RowChecks(row) ==
    /\ row.version > 0
    /\ row.status = "CLOSED" /\ isHighSeverity(row.severity)
         => row.authorizedBy # None
    /\ isHighSeverity(row.severity) => row.review
=============================================================================
