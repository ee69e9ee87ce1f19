------------------------------ MODULE MCSafety ------------------------------
(***************************************************************************)
(* Instances, for TLC, of the human-safety modules: SignalIngestion,       *)
(* SafetyFusion, PrivacyOversight, CommandCenter, FieldCompanion and       *)
(* RoadCognition.  They share no variable, so one run checks all of them   *)
(* by choosing, initially, which of them acts: their states add up and do  *)
(* not multiply.                                                           *)
(***************************************************************************)
EXTENDS SignalIngestion, SafetyFusion, PrivacyOversight, CommandCenter,
        FieldCompanion, RoadCognition, TLC

(* A nonce used for two signals, and a signal sent again unverified.       *)
MCEnvelopes ==
    {[signal |-> "s1", source |-> "phone", nonce |-> "n1", raw |-> TRUE,
      occurred |-> 0, received |-> 0, defects |-> {}],
     [signal |-> "s2", source |-> "phone", nonce |-> "n1", raw |-> FALSE,
      occurred |-> 1, received |-> 1, defects |-> {}],
     [signal |-> "s1", source |-> "phone", nonce |-> "n2", raw |-> FALSE,
      occurred |-> 0, received |-> 2, defects |-> {"unverified"}]}

(* Fresh and old, strong and weak, for and against; two share an id and a  *)
(* correlation group with another, and one has a code that is not listed.  *)
Item(id, ref, source, code, direction, times, reliability, integrity, device, group) ==
    [id |-> id, ref |-> ref, source |-> source, code |-> code, direction |-> direction,
     observed |-> times[1], received |-> times[2], reliability |-> reliability,
     integrity |-> integrity, device |-> device, group |-> group, location |-> "PRECISE"]

MCCatalog ==
    {Item("a", "v", "VEHICLE", "DEVICE_AIRBAG", "SUPPORTS_RISK", <<0, 0>>, 9,
          "VERIFIED", "HEALTHY", "g1"),
     Item("b", "p", "PERSON", "PERSON_RESPONDED", "SUPPORTS_SAFETY", <<1, 1>>, 10,
          "VERIFIED", "HEALTHY", "g2"),
     Item("c", "c", "CONTACT_RUNTIME", "CHANNEL_HEALTHY", "SUPPORTS_SAFETY", <<1, 2>>, 8,
          "UNVERIFIED", "DEGRADED", "g1"),
     Item("c", "v", "PHONE", "HELP_REQUESTED", "SUPPORTS_RISK", <<2, 2>>, 5,
          "INVALID", "UNKNOWN", "g2"),
     Item("e", "x", "PERSON", "UNLISTED", "SUPPORTS_RISK", <<0, 0>>, 9,
          "VERIFIED", "HEALTHY", "g1")}

(* One officer with two leases; a key used for two demands and in both.    *)
MCLeaseOfficer == "l1" :> "o1" @@ "l2" :> "o1"
Demand(lease, key, kind, action) ==
    [lease |-> lease, key |-> key, kind |-> kind, action |-> action,
     officer |-> "o1", consent |-> TRUE]
MCDemands == {Demand("l1", "k1", "EVIDENCE_RAW", "READ"),
              Demand("l1", "k1", "PRECISE_LOCATION", "READ"),
              Demand("l2", "k1", "EVIDENCE_RAW", "READ"),
              Demand("l2", "k2", "EVIDENCE_RAW", "WRITE")}

(* Two versions of a recommendation, approved by another; the proposer of  *)
(* the second one is its approver, so that it is never recorded.  Requests *)
(* for what is approved, under two keys, for another action, for what the  *)
(* proposer approved, and of low risk under a key of the former.           *)
Approval(version, approver) ==
    [rec |-> "r", version |-> version, action |-> "a", risk |-> "HIGH", proposer |-> "o1",
     hash |-> "h", approver |-> approver]
MCApprovals == {Approval(1, "o2"), Approval(2, "o1")}
Execution(version, action, risk, approval, key) ==
    [rec |-> "r", version |-> version, action |-> action, risk |-> risk, proposer |-> "o1",
     hash |-> "h", approval |-> approval, key |-> key]
MCExecutions == {Execution(1, "a", "HIGH", Approval(1, "o2"), "k1"),
                 Execution(1, "a", "HIGH", Approval(1, "o2"), "k2"),
                 Execution(1, "b", "HIGH", Approval(1, "o2"), "k1"),
                 Execution(2, "a", "HIGH", Approval(2, "o1"), "k1"),
                 Execution(1, "b", "LOW", Missing, "k1")}

Seen(id, source, captured, ttl, health, tracks) ==
    [id |-> id, source |-> source, captured |-> captured, ttl |-> ttl, health |-> health,
     calibration |-> "VALID", sound |-> TRUE, tracks |-> tracks]
(* Two independent sensors that expire at different times, and a camera    *)
(* frame that contradicts another one and is leased with the lidar; the    *)
(* first frame may be leased in two classes.                               *)
MCObservations ==
    {Seen(1, "camera", 0, 3, "HEALTHY", [walker |-> "x", car |-> "x"]),
     Seen(2, "lidar", 0, 2, "HEALTHY", [walker |-> "x", car |-> "x"]),
     Seen(3, "camera", 0, 1, "DEGRADED", [walker |-> "y"])}

MCLineages == <<[class |-> "A", obs |-> {1}], [class |-> "B", obs |-> {2, 3}],
                [class |-> "C", obs |-> {1}]>>
MCClaims == {[track |-> k, obs |-> i, value |-> "PRESENT"] : k \in {"walker", "car"}, i \in {1, 2}}
            \cup {[track |-> "car", obs |-> 3, value |-> "ABSENT"]}
Says(cell, i, state, occluded, until) ==
    [cell |-> cell, obs |-> i, state |-> state, occluded |-> occluded, until |-> until,
     sound |-> TRUE]

MCAssertions ==
    {Says("lane", 1, "COVERED", FALSE, 3), Says("lane", 2, "COVERED", FALSE, 3),
     Says("crossing", 1, "COVERED", FALSE, 3), Says("crossing", 2, "COVERED", FALSE, 2),
     Says("crossing", 3, "BLIND", FALSE, 3)}
MCDisputes == {[cell |-> "lane", obs |-> {1, 3}, classes |-> {"A", "B"}, until |-> 3,
                sound |-> TRUE]}

Choice(id, action, outcomes, term, uncertain, defect) ==
    [id |-> id, action |-> action, outcomes |-> outcomes, term |-> term,
     uncertain |-> uncertain, defect |-> defect]
(* Doing nothing against a warning, alone and beside candidates that are   *)
(* too uncertain or claim authority; a cell the map does not have.         *)
MCInquiries ==
    LET wait == Choice(1, "NO_ACTION", <<2, 0>>, 1, FALSE, "NONE")
        warn == Choice(2, "WARN_OPERATOR", <<1, 3>>, 2, FALSE, "NONE")
        route == Choice(3, "ROUTE_RECOMMENDATION", <<1, 2>>, 2, TRUE, "ASSUMPTIONS")
        seize == Choice(4, "ROUTE_RECOMMENDATION", <<0, 0>>, 1, TRUE, "AUTHORITY")
    IN  {[cells |-> {"lane"}, candidates |-> {wait, warn}],
         [cells |-> {"lane", "crossing"}, candidates |-> {wait, warn, route}],
         [cells |-> {"lane"}, candidates |-> {wait, warn, seize}],
         [cells |-> {"lane", "shoulder"}, candidates |-> {wait, warn}]}

MCMotions == [position : {<<3, 0>>, <<3, 1>>, <<2, 2>>}, velocity : (-2 .. 1) \X (-1 .. 0),
              envelope : {1, 2}, horizon : {1, 2}]

VARIABLE focus

(* Scopes are interchangeable: the page is opened for the first one first. *)
MCInit ==
    /\ IngestInit /\ FusionInit /\ PrivacyInit /\ CommandInit /\ FieldInit
    /\ RoadInit
    /\ booted = 1
    /\ focus \in {"ingestion", "fusion", "access", "execution", "action", "resolution",
                  "companion", "advice", "conflict"}

(* Two instances of the command center, each quiet where the other is      *)
(* busy: several sessions and unscanned evidence; one session with a       *)
(* resolution.  The browser fetches one thing at a time.                   *)
Quiet == fetches' = fetches /\ (screen' # screen => submitted' # submitted)
OneFetch == Unset \in {fetches'["load"], fetches'["select"]}
Resolving == \E k \in Submissions : submitted'[k] # Unset /\ submitted'[k].action = "resolution"
ActionOnly ==
    /\ verdicts' = verdicts /\ ~Resolving /\ OneFetch
    /\ (\A k \in Submissions : submitted[k] # Unset) => Quiet
ResolutionOnly == Quiet /\ latest' = latest

(* Two instances of the perception pipeline, with and without coverage and *)
(* predictions.  An answer changes nothing, so nothing need follow it.     *)
(* Observations arrive and lineages are leased in the order of their       *)
(* numbers, once for a state.  The third lease, which puts an observation  *)
(* in a second class, is issued early or not at all, and for coverage.     *)
InTurn ==
    /\ evaluation = Unbuilt
    /\ \A o, p \in Observations : o.id < p.id /\ p \in observed' => o \in observed'
    /\ \A l \in DOMAIN Lineages : leased'[l] # leased[l] =>
            /\ leased[l] = Unbuilt \/ leased[l].digest # Digest
            /\ \A m \in 1 .. l - 1 : leased[m] # Unbuilt /\ leased[m].digest = Digest
AdviceOnly ==
    /\ evaluation' # Unbuilt => evaluation'.kind = "advice"
    /\ leased'[3] # leased[3] => roadState # Unbuilt /\ coverage = Unbuilt /\ roadClock = 0
ConflictOnly == UNCHANGED <<coverage, prediction>> /\ leased'[3] = Unbuilt

(* Calls, requests and sessions are interchangeable until they begin: it   *)
(* is enough that they begin in the order of their numbers.                *)
InOrder(f, none) == \A i, j \in DOMAIN f : i < j /\ f[j] # none => f[i] # none

(* A receipt for evidence that is not submitted makes no difference, and   *)
(* beside evidence that is not listed no other does.                       *)
OwnReceipts ==
    /\ advice' # NoAdvice => receipts \subseteq advice'.evidence
    /\ advice' # NoAdvice /\ (\E i \in advice'.evidence : i.code = "UNLISTED") =>
          Cardinality(advice'.evidence) = 1
    /\ \A i \in receipts' : i.code = "UNLISTED" => receipts' = {i}

MCNext ==
    /\ UNCHANGED focus
    /\ IF focus = "ingestion" THEN IngestNext ELSE UNCHANGED ingestVars
    /\ IF focus = "fusion" THEN FusionNext /\ OwnReceipts ELSE UNCHANGED fusionVars
    /\ CASE focus = "access" -> AccessNext
         [] focus = "execution" -> ExecutionNext \/ PrivacyTick
         [] OTHER -> UNCHANGED privacyVars
    /\ CASE focus = "action" -> CommandNext /\ ActionOnly
         [] focus = "resolution" -> CommandNext /\ ResolutionOnly
         [] OTHER -> UNCHANGED commandVars
    /\ IF focus = "companion" THEN FieldNext ELSE UNCHANGED fieldVars
    /\ CASE focus = "advice" -> RoadNext /\ InTurn /\ AdviceOnly
         [] focus = "conflict" -> RoadNext /\ InTurn /\ ConflictOnly
         [] OTHER -> UNCHANGED roadVars
    /\ InOrder(calls', Nothing) /\ InOrder(accesses', Missing) /\ InOrder(orders', Missing)
    /\ InOrder(handlers', Unset) /\ InOrder(sessionRows', Unset)

MCSpec ==
    MCInit /\ [][MCNext]_<<ingestVars, fusionVars, privacyVars, commandVars, fieldVars,
                           roadVars, focus>>
=============================================================================
