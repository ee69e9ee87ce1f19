------------------------ MODULE MCRoadEventCommands ------------------------
(* Small instances of RoadEventCommands for TLC.                           *)
EXTENDS RoadEventCommands, TLC

CONSTANTS h1, h2, f1, f2, f3, op, sup, other, field, reporter, ev, new1, new2, k1, k2,
          sig, lost, t1, t2

MCHandlers == {h1, h2}
MCFences == {f1, f2, f3}
MCActors == {op, sup, other, field, reporter}
MCRolesOf == (op :> {"OPERATOR"}) @@ (sup :> {"SUPERVISOR"})
             @@ (other :> {"OPERATOR"})
             @@ (field :> {"FIELD_USER"}) @@ (reporter :> {"FIELD_USER"})
MCTenantOf == (op :> t1) @@ (sup :> t1) @@ (other :> t2)
              @@ (field :> t1) @@ (reporter :> t1)

Command(actor, o, key, event, version, arg) ==
    [actor |-> actor, op |-> o, key |-> key, event |-> event,
     expectedVersion |-> version, review |-> TRUE, arg |-> arg]

(* A severe event in RECOVERY: created and transitioned six times.         *)
Recovering ==
    [status |-> "RECOVERY", severity |-> "S3", review |-> TRUE,
     authorizedBy |-> None, version |-> 7, tenant |-> t1, reporter |-> None]

(* Closure: authorizing, reassessing and closing one event race, each with *)
(* the version it read; both an early and a late attempt at each.          *)
ClosureRequests ==
    { Command(sup, "authorize_closure", k1, ev, 7, None),
      Command(sup, "authorize_closure", k2, ev, 8, None),
      Command(op,  "authorize_closure", k1, ev, 7, None),
      Command(op,  "reassess_severity", k2, ev, 8, "S4"),
      Command(op,  "transition", k1, ev, 8, "CLOSED"),
      Command(op,  "transition", k2, ev, 9, "CLOSED"),
      Command(sup, "reassess_severity", k2, ev, 9, "S0") }

(* Idempotency: the same key is retried, reused for another body, and used *)
(* by other actors; field users attach to their own and to foreign events; *)
(* an actor of another tenant guesses an identifier.                       *)
IdempotencyRequests ==
    { Command(reporter, "create", k1, new1, 1, "S1"),
      Command(reporter, "create", k1, new2, 1, "S1"),
      Command(op, "create", k1, new1, 1, "S1"),
      Command(op, "transition", k1, new1, 1, "VALIDATING"),
      Command(other, "transition", k1, new1, 1, "VALIDATING"),
      Command(reporter, "attach_signal", k1, new1, 1, sig),
      Command(field, "attach_signal", k1, new1, 1, sig),
      Command(op, "attach_signal", k1, new1, 1, sig),
      Command(op, "attach_signal", k1, new1, 1, lost) }

MCSeed == (ev :> Recovering) @@ (new1 :> None) @@ (new2 :> None)
MCRequests == ClosureRequests \cup IdempotencyRequests

(* One run checks both questions: the scenario, chosen initially, is the   *)
(* set of requests the clients draw from.                                  *)
VARIABLE scenario

ScenarioInit == Init /\ scenario \in {"closure", "idempotency"}

ScenarioNext ==
    /\ Next
    /\ scenario' = scenario
    /\ \A h \in Handlers : req'[h] # None =>
          req'[h] \in IF scenario = "closure" THEN ClosureRequests ELSE IdempotencyRequests

ScenarioSpec == ScenarioInit /\ [][ScenarioNext]_<<vars, scenario>>

Symmetry == Permutations(MCHandlers) \cup Permutations(MCFences)
=============================================================================
