---------------------------- MODULE SafetyFusion ----------------------------
(***************************************************************************)
(* GovernedSafetyFusionOrchestrator over SafetyFusionService: structured   *)
(* evidence, vouched for by receipts, is weighed into a recommended        *)
(* severity that a person may have to review.                              *)
(*                                                                         *)
(* Scores are integers in units of 1/10000, as the code rounds them;       *)
(* uncertainty is in hundredths.  Severities are their ranks 0..4.         *)
(* Confidence, fingerprints and the wording of reasons are left out.       *)
(***************************************************************************)
EXTENDS Integers, FiniteSetsExt

CONSTANTS
    Catalog,        \* evidence a caller may submit
    FreshAge,       \* SAFETY_FUSION_FRESH_EVIDENCE_MS
    MaxEvidenceAge, \* SAFETY_FUSION_MAX_EVIDENCE_AGE_MS
    FusionSkew,     \* SAFETY_FUSION_ALLOWED_CLOCK_SKEW_MS
    RepeatLimit,    \* evidence one source may submit without raising suspicion
    MaxFusionTime,  \* bound on the clock
    NoAdvice        \* no recommendation is being answered

(* An item has the fields the service reads, its code and reliability      *)
(* perhaps not ones it accepts.                                            *)
ASSUME FusionAssumption ==
    /\ {FreshAge, MaxEvidenceAge, FusionSkew, MaxFusionTime} \subseteq Nat
    /\ FreshAge <= MaxEvidenceAge
    /\ IsFiniteSet(Catalog)
    /\ \A i \in Catalog : /\ {i.observed, i.received, i.reliability} \subseteq Int
                          /\ i.integrity \in {"VERIFIED", "UNVERIFIED", "INVALID"}
                          /\ i.device \in {"HEALTHY", "DEGRADED", "UNKNOWN"}

VARIABLES
    fusionClock,
    receipts,       \* evidence authority: items with an active, unexpired receipt
    contactState,   \* state of the contact session, as the caller reports it
    severity,       \* current severity of the case
    advice          \* the recommendation being answered, with what it came from

fusionVars == <<fusionClock, receipts, contactState, severity, advice>>

ContactStates == {"CREATED", "RESPONDED", "ESCALATED", "DISCONNECTED", "NO_RESPONSE"}
GuardKinds == {"DATA_QUALITY", "DRIFT", "OUT_OF_DISTRIBUTION", "ADVERSARIAL_INPUT"}

(* BASE_WEIGHT, in quarters; a code that is not listed is not accepted.    *)
BASE_WEIGHT == [PERSON_RESPONDED |-> 6, PERSON_NOT_RESPONDING |-> 16,
                COMMUNICATION_INTERRUPTED |-> 8, HELP_REQUESTED |-> 16,
                POSSIBLE_IMMEDIATE_DANGER |-> 18, LOCATION_UNCERTAIN |-> 3,
                MULTIPLE_PEOPLE_REPORTED |-> 8, CONTRADICTORY_RESPONSE |-> 6,
                ACCESSIBILITY_SUPPORT_REQUIRED |-> 1, DEVICE_IMPACT |-> 10,
                DEVICE_AIRBAG |-> 16, DEVICE_ROLLOVER |-> 18, DEVICE_HARD_BRAKE |-> 5,
                CHANNEL_HEALTHY |-> 2, CHANNEL_UNAVAILABLE |-> 6, SOURCE_CLOCK_SKEW |-> 4,
                SOURCE_INTEGRITY_FAILURE |-> 8, SOURCE_CONFLICT |-> 6]

validEvidence(i) == i.code \in DOMAIN BASE_WEIGHT /\ i.reliability \in 0 .. 10

evidenceAge(i, at) == IF at > i.observed THEN at - i.observed ELSE 0

(* In twentieths.                                                          *)
freshness(i, at) ==
    LET age == evidenceAge(i, at)
    IN  CASE i.observed > at + FusionSkew                         -> 0
          [] i.observed <= at + FusionSkew /\ age <= FreshAge     -> 20
          [] age \in FreshAge + 1 .. MaxEvidenceAge               -> 11
          [] OTHER                                                -> 3

integrityFactor == [VERIFIED |-> 20, UNVERIFIED |-> 11, INVALID |-> 0]
deviceConditionFactor == [HEALTHY |-> 10, DEGRADED |-> 7, UNKNOWN |-> 5]

(* The product of the factors, rounded to 1/10000; what speaks for safety  *)
(* counts at most 1.25.                                                    *)
contribution(i, at) ==
    LET product == BASE_WEIGHT[i.code] * freshness(i, at) * i.reliability
                     * integrityFactor[i.integrity] * deviceConditionFactor[i.device]
    IN  CASE i.direction = "SUPPORTS_RISK"   -> (product + 8) \div 16
          [] i.direction = "SUPPORTS_SAFETY" -> -Min({12500, (product + 7) \div 16})
          [] OTHER                           -> 0

isRecentTrusted(i, at) == /\ i.integrity = "VERIFIED"
                          /\ i.reliability >= 7
                          /\ i.device # "UNKNOWN"
                          /\ evidenceAge(i, at) <= FreshAge

hasContradiction(ev) ==
    LET codes == {i.code : i \in ev}
    IN  \/ codes \cap {"CONTRADICTORY_RESPONSE", "SOURCE_CONFLICT"} # {}
        \/ {"PERSON_RESPONDED", "PERSON_NOT_RESPONDING"} \subseteq codes
        \/ {"CHANNEL_HEALTHY", "CHANNEL_UNAVAILABLE"} \subseteq codes
        \/ \E i, j \in ev : /\ i.group = j.group
                            /\ i.direction = "SUPPORTS_RISK"
                            /\ j.direction = "SUPPORTS_SAFETY"

contactRiskBoost(state) == CASE state \in {"NO_RESPONSE", "UNREACHABLE"} -> 20000
                             [] state = "DISCONNECTED" -> 15000
                             [] state \in {"HUMAN_REVIEW", "ESCALATED", "OPERATOR_TAKEOVER"} -> 5000
                             [] OTHER -> 0

severityFromScore(score) == CASE 55000 <= score                   -> 4
                              [] 30000 <= score /\ score < 55000 -> 3
                              [] 15000 <= score /\ score < 30000 -> 2
                              [] 5000 <= score /\ score < 15000  -> 1
                              [] OTHER                           -> 0

maxSeverity(a, b) == Max({a, b})

(* What each of the four guards says of the evidence.                      *)
DataQualityGuard(ev, at) ==
    LET spoiled == \E i \in ev : i.integrity = "INVALID"
        old     == {i \in ev : evidenceAge(i, at) > MaxEvidenceAge}
    IN  CASE spoiled -> "BLOCK_AND_REVIEW"
          [] ~spoiled /\ (ev = {} \/ 2 * Cardinality(old) > Cardinality(ev)) -> "DEGRADED"
          [] OTHER -> "CLEAR"

DriftGuard(ev) ==
    IF /\ Cardinality(ev) >= 4
       /\ \E i \in ev : 100 * Cardinality({j \in ev : j.source = i.source}) > 85 * Cardinality(ev)
    THEN "DEGRADED" ELSE "CLEAR"

UniqueIds(ev) == \A i, j \in ev : i.id = j.id => i = j

AdversarialInputGuard(ev) ==
    LET repeated == \E i \in ev : Cardinality({j \in ev : j.ref = i.ref}) > RepeatLimit
    IN  CASE ~UniqueIds(ev)             -> "BLOCK_AND_REVIEW"
          [] UniqueIds(ev) /\ repeated  -> "DEGRADED"
          [] OTHER                      -> "CLEAR"

(* A guard that fails, or answers for another version, blocks.  The        *)
(* vocabulary was already checked when the guards run.                     *)
GuardResults(ev, at, failed) ==
    LET found == [DATA_QUALITY |-> DataQualityGuard(ev, at), DRIFT |-> DriftGuard(ev),
                  OUT_OF_DISTRIBUTION |-> "CLEAR",
                  ADVERSARIAL_INPUT |-> AdversarialInputGuard(ev)]
    IN  [k \in GuardKinds |-> IF k \in failed THEN "BLOCK_AND_REVIEW" ELSE found[k]]

RiskScore(ev, at) == SumFunction([i \in ev |-> Max({0, contribution(i, at)})])
safetyOffset(ev, at) ==
    Min({12500, SumFunction([i \in ev |-> Max({0, -contribution(i, at)})])})

allStale(ev, at) == ev # {} /\ \A i \in ev : evidenceAge(i, at) > FreshAge
RecentTrusted(ev, at) == {i \in ev : isRecentTrusted(i, at)}
RecentRiskSources(ev, at) ==
    {i.source : i \in {j \in RecentTrusted(ev, at) : j.direction = "SUPPORTS_RISK"}}
MissingInputs(ev, at, contact, guards) ==
    {f \in {"SOURCE", "CORROBORATION", "OUTCOME", "DEVICE", "LOCATION", "CLEARANCE"} :
        \/ f = "SOURCE" /\ Cardinality(RecentTrusted(ev, at)) < 2
        \/ f = "CORROBORATION" /\ (\E i \in ev : contribution(i, at) > 0)
                               /\ Cardinality(RecentRiskSources(ev, at)) < 2
        \/ f = "OUTCOME" /\ contact \in {"NOT_STARTED", "CREATED", "CONSENT_PENDING",
                               "LANGUAGE_SELECTION", "CONTACTING", "AWAITING_RESPONSE",
                               "PARTIAL_RESPONSE"}
        \/ f = "DEVICE" /\ \E i \in ev : i.device # "HEALTHY"
        \/ f = "LOCATION" /\ \A i \in ev : i.location = "UNKNOWN"
        \/ f = "CLEARANCE" /\ \E k \in GuardKinds : guards[k] # "CLEAR"}

(* When what speaks for safety may be subtracted.                          *)
OffsetApplies(ev, at, contact, blocked) ==
    /\ ~hasContradiction(ev) /\ ~blocked /\ ~allStale(ev, at)
    /\ Cardinality(RecentTrusted(ev, at)) >= 2
    /\ contactRiskBoost(contact) = 0

FlooredNever(score, blocked) == score

FloorIfBlocked(score, blocked) == IF blocked THEN Max({score, 30000}) ELSE score

Score(ev, at, contact, blocked) ==
    LET risk == RiskScore(ev, at) + contactRiskBoost(contact)
                  + (IF Cardinality(RecentRiskSources(ev, at)) >= 2 THEN 7500 ELSE 0)
                  + (IF hasContradiction(ev) THEN 5000 ELSE 0)
    IN  FloorIfBlocked(IF OffsetApplies(ev, at, contact, blocked)
                       THEN Max({0, risk - safetyOffset(ev, at)}) ELSE risk, blocked)

clamp01(u) == Min({100, u})

Uncertainty(ev, at, contact, guards) ==
    LET Of(holds, amount) == IF holds THEN amount ELSE 0
    IN  clamp01(5 + Of(hasContradiction(ev), 30)
                  + Of(Cardinality(RecentTrusted(ev, at)) < 2, 25)
                  + Of(allStale(ev, at), 20)
                  + Of(\E i \in ev : i.device # "HEALTHY", 10)
                  + Of(\E i \in ev : i.integrity # "VERIFIED", 15)
                  + Of(\E k \in GuardKinds : guards[k] = "DEGRADED", 20)
                  + Of(\E k \in GuardKinds : guards[k] = "BLOCK_AND_REVIEW", 50)
                  + Of(contact \in {"NO_RESPONSE", "UNREACHABLE", "DISCONNECTED"}, 15)
                  + Min({20, 3 * Cardinality(MissingInputs(ev, at, contact, guards))}))

evaluateSafetyFusion(ev, at, contact, current, guards) ==
    LET blocked     == \E k \in GuardKinds : guards[k] = "BLOCK_AND_REVIEW"
        score       == Score(ev, at, contact, blocked)
        recommended == maxSeverity(severityFromScore(score), current)
        uncertainty == Uncertainty(ev, at, contact, guards)
    IN  [score |-> score, recommended |-> recommended, current |-> current,
         uncertainty |-> uncertainty, blocked |-> blocked,
         review |-> \/ recommended >= 3
                    \/ uncertainty >= 30
                    \/ hasContradiction(ev)
                    \/ allStale(ev, at)
                    \/ Cardinality(RecentTrusted(ev, at)) < 2
                    \/ \E k \in GuardKinds : guards[k] # "CLEAR"]

(* What is answered when the input or the rule set cannot be relied on.    *)
blockedRecommendation(current) ==
    [score |-> 30000, recommended |-> maxSeverity(current, 3), current |-> current,
     uncertainty |-> 100, blocked |-> TRUE, review |-> TRUE]

FusionInit ==
    /\ fusionClock = 0
    /\ receipts = {}
    /\ contactState = "CREATED"
    /\ severity = 0
    /\ advice = NoAdvice

(* The evidence authority issues receipts, which are revoked or expire.    *)
Vouch(i) ==
    /\ advice = NoAdvice /\ i \notin receipts
    /\ receipts' = receipts \cup {i}
    /\ UNCHANGED <<fusionClock, contactState, severity, advice>>

Lapse(i) ==
    /\ advice = NoAdvice /\ i \in receipts
    /\ receipts' = receipts \ {i}
    /\ UNCHANGED <<fusionClock, contactState, severity, advice>>

validAuthorityReceipt(i, now) ==
    /\ i \in receipts
    /\ i.observed <= i.received /\ i.received <= now + FusionSkew

Vouched(ev, now) == \A i \in ev : validAuthorityReceipt(i, now)

(* The boundary: only distinct, vouched evidence of the right shape, seen  *)
(* under a clock and an authority that answer, is weighed as it stands.    *)
Governed(ev, now, failures) ==
    /\ failures \cap {"clock", "shape", "guards", "authority"} = {}
    /\ UniqueIds(ev)
    /\ Vouched(ev, now)

(* recommend.  Behind the boundary a failure is turned into a blocking     *)
(* data-quality guard, and the caller's own evidence is weighed: at time 0 *)
(* when the clock failed.  failures are the ports that fail, and the       *)
(* guards that do.                                                         *)
recommend(ev, failures) ==
    LET at     == IF "clock" \in failures THEN 0 ELSE fusionClock
        failed == (failures \cap GuardKinds)
                    \cup (IF Governed(ev, fusionClock, failures) THEN {} ELSE {"DATA_QUALITY"})
        known  == "registry" \notin failures /\ \A i \in ev : validEvidence(i)
        result == IF known
                  THEN evaluateSafetyFusion(ev, at, contactState, severity,
                                            GuardResults(ev, at, failed))
                  ELSE blockedRecommendation(severity)
    IN  /\ advice = NoAdvice
        /\ advice' = [result |-> result, evidence |-> ev, at |-> at,
                      contact |-> contactState, failures |-> failures,
                      vouched |-> Vouched(ev, fusionClock) /\ UniqueIds(ev)]
        /\ UNCHANGED <<fusionClock, receipts, contactState, severity>>

(* The recommendation is answered; a person may raise the case to it.      *)
adoptAdvice(adopt) ==
    /\ advice # NoAdvice
    /\ severity' = IF adopt THEN Max({severity, advice.result.recommended}) ELSE severity
    /\ advice' = NoAdvice
    /\ UNCHANGED <<fusionClock, receipts, contactState>>

ContactMoves(s) ==
    /\ advice = NoAdvice
    /\ contactState' = s
    /\ UNCHANGED <<fusionClock, receipts, severity, advice>>

FusionTick ==
    /\ advice = NoAdvice /\ fusionClock < MaxFusionTime
    /\ fusionClock' = fusionClock + 1
    /\ UNCHANGED <<receipts, contactState, severity, advice>>

Failures == {{}} \cup {{f} : f \in GuardKinds \cup {"clock", "shape", "guards", "authority", "registry"}}

FusionNext ==
    \/ \E i \in Catalog : Vouch(i) \/ Lapse(i)
    \/ \E ev \in SUBSET Catalog, failures \in Failures : recommend(ev, failures)
    \/ \E adopt \in BOOLEAN : adoptAdvice(adopt)
    \/ \E s \in ContactStates : ContactMoves(s)
    \/ FusionTick

FusionSpec == FusionInit /\ [][FusionNext]_fusionVars

(* Every recommendation can be stored: it passes the checks of its table.  *)
FusionTypeOK ==
    advice # NoAdvice =>
        LET r == advice.result
        IN  /\ r.recommended \in 0 .. 4 /\ r.current \in 0 .. 4 /\ r.uncertainty \in 0 .. 100
            /\ r.recommended >= r.current
            /\ r.recommended >= 3 => r.review

(* A recommendation nobody has to review rests on evidence that is all     *)
(* vouched for, untampered and of which two items are recent and trusted;  *)
(* every port and guard answered.                                          *)
UnreviewedIsVouched ==
    advice # NoAdvice /\ ~advice.result.review =>
        /\ advice.vouched /\ advice.failures = {}
        /\ \A i \in advice.evidence : i.integrity # "INVALID"
        /\ \E i, j \in advice.evidence : i # j /\ isRecentTrusted(i, advice.at)
                                               /\ isRecentTrusted(j, advice.at)

(* A guard or port that fails never calms a case: the outcome is at least  *)
(* S3, to be reviewed, whatever the evidence says.                         *)
FailureNeverCalms ==
    advice # NoAdvice /\ advice.failures # {} =>
        advice.result.recommended >= 3 /\ advice.result.review

(* While the person cannot be reached, what speaks for safety takes        *)
(* nothing away: the recommendation is at least what the evidence for risk *)
(* and the silence amount to, unless the evidence cannot be weighed.       *)
SilenceIsNotSafety ==
    /\ advice # NoAdvice
    /\ advice.contact \in {"NO_RESPONSE", "DISCONNECTED"} /\ "registry" \notin advice.failures
    /\ \A i \in advice.evidence : validEvidence(i)
    => advice.result.recommended >=
           severityFromScore(RiskScore(advice.evidence, advice.at)
                               + contactRiskBoost(advice.contact))

(* Doubt never calms a case: a recommendation that needs no review is      *)
(* vouched for, a failure raises it, silence does not lower it, and it can *)
(* be stored (GovernedSafetyFusionOrchestrator.recommend).                 *)
AdviceIsCautious ==
    /\ FusionTypeOK
    /\ UnreviewedIsVouched
    /\ FailureNeverCalms
    /\ SilenceIsNotSafety
=============================================================================
