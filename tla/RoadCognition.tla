---------------------------- MODULE RoadCognition ----------------------------
(***************************************************************************)
(* The perception pipeline: sensor observations are admitted, claims about *)
(* tracks are assured, a cognitive road state is built from them and, for  *)
(* that state, a map of what the sensors can see.  Counterfactual actions  *)
(* are ranked only where the map allows it.                                *)
(*                                                                         *)
(* The functions are pure and their callers come back later, with what an  *)
(* earlier call returned; meanwhile time passes and evidence arrives.  A   *)
(* digest is the number of the state it was computed from; what a schema   *)
(* check would refuse is the mark "sound".  Reason codes are left out.     *)
(***************************************************************************)
EXTENDS Integers, Sequences, FiniteSetsExt

CONSTANTS
    Observations,   \* [id, source, captured, ttl, health, calibration, sound, tracks]
    Lineages,       \* sequence of [class, obs]: the observations a lease puts in a
                    \* class, here for every track and cell alike
    Claims,         \* [track, obs, value]: what an observation says of a track
    Assertions,     \* [cell, obs, state, occluded, until, sound]
    Disputes,       \* [cell, obs, classes, until, sound]: declared contradictions
    Cells,          \* region and dimension pairs of the map
    Inquiries,      \* [cells, candidates]: what may be asked, a candidate being
                    \* [id, action, outcomes, uncertain, term, defect]
    Motions,        \* [position, velocity, envelope, horizon] of one entity to another
    Quorum,         \* minimumIndependentCoverage, minimumIndependentEvidence
    CaptureSkew,    \* how far in the future a capture time may be
    LeaseTerm, StateTerm,
    MaxRoadTime, MaxStates, \* bounds on the clock and on the states built
    Unbuilt         \* no lease, state, map, prediction or answer

Candidates == UNION {q.candidates : q \in Inquiries}

(* A lease, and a state with an entity for each track reported.            *)
Lease == [digest : Nat, expires : Nat]
Epistemics == {"UNKNOWN", "UNCERTAIN", "CORROBORATED", "CONTRADICTED"}
RoadState == [digest : Nat, until : Nat,
              entities : UNION {[tracks -> [epistemic : Epistemics, until : Nat]] :
                                  tracks \in SUBSET UNION {DOMAIN o.tracks : o \in Observations}}]

ASSUME RoadAssumption ==
    /\ {Quorum, LeaseTerm, StateTerm} \subseteq Nat \ {0}
    /\ {CaptureSkew, MaxRoadTime, MaxStates} \subseteq Nat
    /\ Lineages \in Seq({Lineages[l] : l \in DOMAIN Lineages})
    /\ Unbuilt \notin Lease \cup RoadState \cup Candidates
    /\ \A o, p \in Observations : o.id = p.id => o = p
    /\ \A o \in Observations :
         /\ {o.captured, o.ttl} \subseteq Nat
         /\ o.health \in {"HEALTHY", "DEGRADED", "QUARANTINED", "UNAVAILABLE"}
    /\ \A a \in Assertions : a.until \in Nat
    /\ \A d \in Disputes : d.until \in Nat
    /\ \A q \in Inquiries : IsFiniteSet(q.candidates)
    /\ \A c \in Candidates : c.id \in Int /\ c.term \in Nat /\ c.outcomes \in Seq(Int) \ {<<>>}
    /\ \A c, d \in Candidates : Len(c.outcomes) = Len(d.outcomes)
    /\ \A m \in Motions : /\ {m.position, m.velocity} \subseteq Int \X Int
                          /\ {m.envelope, m.horizon} \subseteq Nat

VARIABLES
    roadClock,
    observed,       \* observations that have arrived
    leased,         \* the lease issued for each lineage: [digest, expires]
    roadState,      \* the last state built: [digest, until, entities]
    coverage,       \* the last map built: [digest, until, cells]
    prediction,     \* state and time the candidates were predicted for
    evaluation      \* what the last call answered

roadVars == <<roadClock, observed, leased, roadState, coverage, prediction, evaluation>>

RoadInit ==
    /\ roadClock = 0
    /\ observed = {}
    /\ leased = [l \in DOMAIN Lineages |-> Unbuilt]
    /\ roadState = Unbuilt
    /\ coverage = Unbuilt
    /\ prediction = Unbuilt
    /\ evaluation = Unbuilt

-----------------------------------------------------------------------------
(* Admission, independence and assurance, at time t.                       *)

Expiry(o) == o.captured + o.ttl

assessSensorObservationAdmission(o, t) ==
    IF \/ ~o.sound \/ o.captured > t + CaptureSkew
       \/ o.health \in {"QUARANTINED", "UNAVAILABLE"} \/ o.calibration = "INVALID"
                                                       THEN "QUARANTINE"
    ELSE IF Expiry(o) < t                              THEN "CONTEXT_ONLY"
    ELSE IF o.health = "DEGRADED" \/ o.calibration \in {"STALE", "UNKNOWN"}
                                                       THEN "DEGRADED_USABLE"
    ELSE "ACCEPT"

Admitted(t) ==
    {o \in observed : assessSensorObservationAdmission(o, t) \in {"ACCEPT", "DEGRADED_USABLE"}}

(* The digest a lease must carry: that of the state in force.              *)
Digest == IF roadState = Unbuilt THEN 0 ELSE roadState.digest

validLeases(o, t) ==
    {l \in DOMAIN Lineages : /\ leased[l] # Unbuilt
                             /\ leased[l].expires > t
                             /\ leased[l].digest = Digest
                             /\ o.id \in Lineages[l].obs}

(* A claim counts through the one class its observation is leased in; an   *)
(* observation leased in several counts in none.                           *)
assessEvidenceClaims(track, t) ==
    LET admitted == Admitted(t)
        ClassesOf(o) == {Lineages[l].class : l \in validLeases(o, t)}
        Said(class) ==
            LET speaking == {o.id : o \in {o \in admitted : ClassesOf(o) = {class}}}
            IN  {c.value : c \in {c \in Claims : c.track = track /\ c.obs \in speaking}}
        Saying(value) == {class \in {Lineages[l].class : l \in DOMAIN Lineages} :
                            Said(class) \ {"UNKNOWN"} = {value}}
    IN  IF Saying("PRESENT") # {} /\ Saying("ABSENT") # {} THEN "CONTRADICTED"
        ELSE IF Cardinality(Saying("PRESENT")) >= Quorum   THEN "CORROBORATED"
        ELSE "INSUFFICIENT_INDEPENDENCE"

Claimed(track) == \E c \in Claims : c.track = track

-----------------------------------------------------------------------------
(* buildCognitiveRoadState: one entity for each track an admitted          *)
(* observation reports.                                                    *)

sameSourceSameCaptureContradictions(reports, track) ==
    \E o, p \in reports : /\ o.source = p.source /\ o.captured = p.captured
                          /\ o.tracks[track] # p.tracks[track]

Entity(track, t, until) ==
    LET reports == {o \in Admitted(t) : track \in DOMAIN o.tracks}
        assurance == assessEvidenceClaims(track, t)
    IN  [epistemic |->
           IF \/ sameSourceSameCaptureContradictions(reports, track)
              \/ Claimed(track) /\ assurance = "CONTRADICTED" THEN "CONTRADICTED"
           ELSE IF ~Claimed(track)                            THEN "UNKNOWN"
           ELSE IF assurance = "CORROBORATED"                 THEN "CORROBORATED"
           ELSE "UNCERTAIN",
         until |-> Min({until} \cup {Expiry(o) : o \in reports})]

buildCognitiveRoadState ==
    /\ Digest < MaxStates
    /\ LET t == roadClock
           tracks == UNION {DOMAIN o.tracks : o \in Admitted(t)}
       IN  roadState' = [digest |-> Digest + 1, until |-> t + StateTerm,
                         entities |-> [k \in tracks |-> Entity(k, t, t + StateTerm)]]
    /\ evaluation' = Unbuilt
    /\ UNCHANGED <<roadClock, observed, leased, coverage, prediction>>

cognitiveStateRequiresAbstention ==
    \E k \in DOMAIN roadState.entities : roadState.entities[k].epistemic = "CONTRADICTED"

-----------------------------------------------------------------------------
(* buildEpistemicCoverageMap                                               *)

LeaseFor_Any(o, t) == validLeases(o, t)

(* The lease an observation counts through: the first that binds it.       *)
LeaseFor(o, t) ==
    LET valid == validLeases(o, t) IN IF valid = {} THEN {} ELSE {Min(valid)}

(* An assertion with its observation and lease, when all three hold at t.  *)
Trusted(cell, t) ==
    {x \in [says : Assertions, seen : Admitted(t), by : DOMAIN Lineages] :
        /\ x.says.sound /\ x.says.cell = cell /\ x.says.until > t
        /\ x.says.obs = x.seen.id
        /\ x.by \in LeaseFor(x.seen, t)}

TrustedUntil(x) == Min({x.says.until, Expiry(x.seen), leased[x.by].expires})

(* All that one independence class says of a cell.                         *)
summarizeIndependenceClass(values, t) ==
    LET states == {x.says.state : x \in values}
    IN  [state |-> IF Cardinality(states) > 1 THEN "DEGRADED" ELSE CHOOSE s \in states : TRUE,
         strong |-> \A x \in values :
                        /\ ~x.says.occluded
                        /\ assessSensorObservationAdmission(x.seen, t) = "ACCEPT"]

(* A declared contradiction is believed when every observation it names is *)
(* admitted and leased, in exactly the classes it names.                   *)
TrustedDisputes(cell, t) ==
    {d \in Disputes :
        LET named == {o \in Admitted(t) : o.id \in d.obs}
            classes == {Lineages[l].class : l \in UNION {LeaseFor(o, t) : o \in named}}
        IN  /\ d.sound /\ d.cell = cell /\ d.until > t
            /\ {o.id : o \in named} = d.obs
            /\ \A o \in named : LeaseFor(o, t) # {}
            /\ classes = d.classes /\ Cardinality(classes) > 1}

DisputedUntil(d, t) ==
    LET named == {o \in Admitted(t) : o.id \in d.obs}
    IN  Min({d.until} \cup {Expiry(o) : o \in named}
              \cup {leased[l].expires : l \in UNION {LeaseFor(o, t) : o \in named}})

fuseCoverageCell(cell, t) ==
    LET trusted == Trusted(cell, t)
        disputes == TrustedDisputes(cell, t)
        classes == {Lineages[x.by].class : x \in trusted}
        Summary(class) ==
            summarizeIndependenceClass({x \in trusted : Lineages[x.by].class = class}, t)
        strong == {c \in classes : Summary(c).state = "COVERED" /\ Summary(c).strong}
        capable == {c \in classes : Summary(c).state \in {"COVERED", "DEGRADED"}}
        blind == {c \in classes : Summary(c).state = "BLIND"}
    IN  [state |-> IF disputes # {}                      THEN "CONTRADICTED"
                   ELSE IF capable = {} /\ blind # {}    THEN "BLIND"
                   ELSE IF capable = {}                  THEN "UNKNOWN"
                   ELSE IF Cardinality(strong) >= Quorum THEN "OBSERVED"
                   ELSE "DEGRADED",
         until |-> Min({roadState.until} \cup {TrustedUntil(x) : x \in trusted}
                         \cup {DisputedUntil(d, t) : d \in disputes})]

buildEpistemicCoverageMap ==
    /\ roadState # Unbuilt
    /\ roadState.until > roadClock
    /\ LET cells == [c \in Cells |-> fuseCoverageCell(c, roadClock)]
       IN  coverage' = [digest |-> Digest, cells |-> cells,
                        until |-> Min({roadState.until} \cup {cells[c].until : c \in Cells})]
    /\ evaluation' = Unbuilt
    /\ UNCHANGED <<roadClock, observed, leased, roadState, prediction>>

-----------------------------------------------------------------------------
(* evaluateCoverageGovernedCounterfactualCandidates                        *)

(* Each cell asked for must have been seen; a contradiction is final, the  *)
(* rest asks for more.                                                     *)
evaluateDecisionCriticalCoverage(cells) ==
    LET Seen(c) == IF c \in Cells /\ coverage.cells[c].until > roadClock
                   THEN coverage.cells[c].state ELSE "UNKNOWN"
    IN  IF coverage.digest # Digest \/ cognitiveStateRequiresAbstention THEN "ABSTAIN"
        ELSE IF coverage.until <= roadClock               THEN "REQUEST_MORE_EVIDENCE"
        ELSE IF cells = {}                                THEN "ABSTAIN"
        ELSE IF \E c \in cells : Seen(c) = "CONTRADICTED" THEN "ABSTAIN"
        ELSE IF \E c \in cells : Seen(c) # "OBSERVED"     THEN "REQUEST_MORE_EVIDENCE"
        ELSE "ALLOW_ADVISORY_EVALUATION"

Outcome(decision, selected) == [decision |-> decision, selected |-> selected]

CandidateUntil(c) == prediction.at + c.term
OutlivesState(c) == CandidateUntil(c) > roadState.until

(* "hard" refuses the whole set, "soft" leaves one candidate out, in the   *)
(* order in which the checks are made: a candidate that is expired or too  *)
(* uncertain is not examined further.                                      *)
validateCandidate(c) ==
    IF prediction.digest # Digest \/ OutlivesState(c) THEN "hard"
    ELSE IF CandidateUntil(c) <= roadClock            THEN "soft"
    ELSE IF c.defect = "AUTHORITY"                    THEN "hard"
    ELSE IF c.uncertain                               THEN "soft"
    ELSE IF c.defect = "ASSUMPTIONS"                  THEN "hard"
    ELSE "valid"

compareProtectedOutcomesLexicographically(u, v) ==
    \E i \in DOMAIN u : u[i] < v[i] /\ \A j \in 1 .. i - 1 : u[j] = v[j]

Preferred(c, d) ==
    \/ compareProtectedOutcomesLexicographically(c.outcomes, d.outcomes)
    \/ c.outcomes = d.outcomes /\ c.id <= d.id

evaluateCounterfactualCandidates(candidates) ==
    LET eligible == {c \in candidates : validateCandidate(c) = "valid"}
        best == CHOOSE c \in eligible : \A d \in eligible : Preferred(c, d)
    IN  IF roadState.until <= roadClock THEN Outcome("REQUEST_MORE_EVIDENCE", Unbuilt)
        ELSE IF \/ cognitiveStateRequiresAbstention
                \/ \E c \in candidates : \/ validateCandidate(c) = "hard"
                                         \/ \E d \in candidates \ {c} : d.id = c.id
                \/ Cardinality({c \in eligible : c.action = "NO_ACTION"}) # 1
             THEN Outcome("ABSTAIN", Unbuilt)
        ELSE IF \A c \in eligible : c.action = "NO_ACTION"
             THEN Outcome("REQUEST_MORE_EVIDENCE", Unbuilt)
        ELSE IF best.action \in {"ABSTAIN", "REQUEST_MORE_EVIDENCE", "REQUEST_HUMAN_REVIEW"}
             THEN Outcome(best.action, best)
        ELSE Outcome("RECOMMEND", best)

Gated(q) ==
    LET gate == evaluateDecisionCriticalCoverage(q.cells)
    IN  IF gate = "ALLOW_ADVISORY_EVALUATION"
        THEN evaluateCounterfactualCandidates(q.candidates)
        ELSE Outcome(gate, Unbuilt)

evaluateCandidates(q) ==
    /\ coverage # Unbuilt /\ prediction # Unbuilt
    /\ evaluation' = [kind |-> "advice", asked |-> q, answer |-> Gated(q)]
    /\ UNCHANGED <<roadClock, observed, leased, roadState, coverage, prediction>>

-----------------------------------------------------------------------------
(* evaluateCognitivePairwiseConflict: two entities that keep their         *)
(* velocity.  Positions and velocities are integers, and square roots are  *)
(* compared by their squares.                                              *)

dot(u, v) == u[1] * v[1] + u[2] * v[2]
Moved(m, time) == <<m.position[1] + m.velocity[1] * time, m.position[2] + m.velocity[2] * time>>

WithinHorizon_Ever(a, b, discriminant, horizon) == b <= 0

(* firstSphereIntersectionSeconds(...) # null: a root of the collision     *)
(* equation a x^2 + b x + c = 0 lies within the horizon.  Where c > 0 both *)
(* roots have the sign of -b, and the first one is the smaller.            *)
WithinHorizon(a, b, discriminant, horizon) ==
    LET late == -b - 2 * a * horizon
    IN  b <= 0 /\ (late <= 0 \/ late * late <= discriminant)

firstSphereIntersection(m) ==
    LET a == dot(m.velocity, m.velocity)
        b == 2 * dot(m.position, m.velocity)
        c == dot(m.position, m.position) - m.envelope * m.envelope
        discriminant == b * b - 4 * a * c
    IN  \/ c <= 0
        \/ a # 0 /\ discriminant >= 0 /\ WithinHorizon(a, b, discriminant, m.horizon)

(* The square of minimumSeparationM, a fraction: where the time of closest *)
(* approach, clamped to the horizon, leaves the two entities.              *)
minimumSeparation(m) ==
    LET a == dot(m.velocity, m.velocity)
        approach == -dot(m.position, m.velocity)
        At(time) == <<dot(Moved(m, time), Moved(m, time)), 1>>
    IN  IF a = 0 \/ approach <= 0 THEN At(0)
        ELSE IF approach >= a * m.horizon THEN At(m.horizon)
        ELSE <<a * dot(m.position, m.position) - approach * approach, a>>

Predictable(k) == /\ k \in DOMAIN roadState.entities
                  /\ roadState.entities[k].epistemic = "CORROBORATED"
                  /\ roadState.entities[k].until > roadClock

evaluateCognitivePairwiseConflict(k1, k2) ==
    /\ roadState # Unbuilt
    /\ roadState.until > roadClock
    /\ ~cognitiveStateRequiresAbstention
    /\ k1 # k2 /\ Predictable(k1) /\ Predictable(k2)
    /\ \E m \in Motions :
        evaluation' = [kind |-> "conflict", motion |-> m,
                       intersected |-> firstSphereIntersection(m),
                       separation |-> minimumSeparation(m)]
    /\ UNCHANGED <<roadClock, observed, leased, roadState, coverage, prediction>>

-----------------------------------------------------------------------------
(* What reaches the pipeline from outside.                                 *)

observe(o) ==
    /\ o \notin observed
    /\ observed' = observed \cup {o}
    /\ evaluation' = Unbuilt
    /\ UNCHANGED <<roadClock, leased, roadState, coverage, prediction>>

issueLease(l) ==
    /\ leased' = [leased EXCEPT ![l] = [digest |-> Digest, expires |-> roadClock + LeaseTerm]]
    /\ evaluation' = Unbuilt
    /\ UNCHANGED <<roadClock, observed, roadState, coverage, prediction>>

predict ==
    /\ roadState # Unbuilt
    /\ prediction' = [digest |-> Digest, at |-> roadClock]
    /\ evaluation' = Unbuilt
    /\ UNCHANGED <<roadClock, observed, leased, roadState, coverage>>

RoadTick ==
    /\ roadClock < MaxRoadTime
    /\ roadClock' = roadClock + 1
    /\ evaluation' = Unbuilt
    /\ UNCHANGED <<observed, leased, roadState, coverage, prediction>>

RoadNext ==
    \/ buildCognitiveRoadState \/ buildEpistemicCoverageMap
    \/ \E q \in Inquiries : evaluateCandidates(q)
    \/ \E k1, k2 \in {c.track : c \in Claims} : evaluateCognitivePairwiseConflict(k1, k2)
    \/ \E o \in Observations : observe(o)
    \/ \E l \in DOMAIN Lineages : issueLease(l)
    \/ predict \/ RoadTick

RoadSpec == RoadInit /\ [][RoadNext]_roadVars

-----------------------------------------------------------------------------
Advised == /\ evaluation # Unbuilt
           /\ evaluation.kind = "advice"
           /\ evaluation.answer.selected # Unbuilt

(* Whatever was built when and with which leases, a candidate is selected  *)
(* only if, now, every cell asked for is seen by a quorum of healthy,      *)
(* fresh observations, each in a class of its own by a live lease for the  *)
(* state in force (evaluateCoverageGovernedCounterfactualCandidates).      *)
AdviceIsCovered ==
    LET LiveIn(o) == {Lineages[l].class : l \in validLeases(o, roadClock)}
        Sees(o, c) == \E a \in Assertions : /\ a.obs = o.id /\ a.cell = c
                                            /\ a.state = "COVERED" /\ a.until > roadClock
        Classes == {Lineages[l].class : l \in DOMAIN Lineages}
    IN  Advised => \A c \in evaluation.asked.cells :
            \E seeing \in SUBSET {o \in observed : Expiry(o) > roadClock /\ o.health = "HEALTHY"} :
                /\ Cardinality(seeing) >= Quorum
                /\ \A o \in seeing : Sees(o, c)
                /\ \E of \in [seeing -> Classes] :
                    \A o, p \in seeing : of[o] \in LiveIn(o) /\ (of[o] = of[p] => o = p)

(* What is selected was predicted for the state in force, does not outlive *)
(* it, and puts people at no more risk than doing nothing                  *)
(* (evaluateCounterfactualCandidates).                                     *)
AdviceIsCurrent ==
    Advised =>
        /\ prediction.digest = roadState.digest
        /\ CandidateUntil(evaluation.answer.selected) \in roadClock + 1 .. roadState.until
        /\ \E c \in evaluation.asked.candidates :
            /\ c.action = "NO_ACTION"
            /\ evaluation.answer.selected.outcomes[1] <= c.outcomes[1]

(* Advice rests on what is seen and valid at the moment it is given,       *)
(* although every document it is computed from was built earlier.          *)
AdviceIsGrounded == AdviceIsCovered /\ AdviceIsCurrent

(* The two figures of a conflict evaluation agree: the safety envelope is  *)
(* entered within the horizon exactly when the closest approach within it  *)
(* is no further than the envelope (computeConstantVelocityConflict).      *)
ConflictAgrees ==
    (evaluation # Unbuilt /\ evaluation.kind = "conflict") =>
        (evaluation.intersected
            <=> evaluation.separation[1]
                  <= evaluation.motion.envelope * evaluation.motion.envelope
                       * evaluation.separation[2])
=============================================================================
