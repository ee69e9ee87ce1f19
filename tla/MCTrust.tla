------------------------------ MODULE MCTrust ------------------------------
(***************************************************************************)
(* Instances, for TLC, of the modules that guard what comes from outside:  *)
(* TokenVerification, CallbackAuthentication, IntegrationLifecycle,        *)
(* EvidenceStore and MobileRegistry, and of what decides when they may:    *)
(* ServiceRuntime and StagingReview.  They share no variable, so one run   *)
(* checks all of them by choosing, initially, which of them acts: their    *)
(* states add up and do not multiply.                                      *)
(***************************************************************************)
EXTENDS CallbackAuthentication, IntegrationLifecycle, EvidenceStore,
        TokenVerification, MobileRegistry, ServiceRuntime, StagingReview, TLC

(* Two profiles that draw the same nonce, and a nonce used again in a      *)
(* later callback.                                                         *)
MCCallbacks == {[profile |-> "traffic",   nonce |-> "n1", timestamp |-> 2],
                [profile |-> "traffic",   nonce |-> "n1", timestamp |-> 5],
                [profile |-> "insurance", nonce |-> "n1", timestamp |-> 3]}

(* Two profiles share an id.                                               *)
MCProfiles == {[id |-> "p", scope |-> "traffic"],
               [id |-> "p", scope |-> "towing"]}

(* A client with provisioned roles and one without.                        *)
MCBindings == {[client |-> "svc", roles |-> Unprovisioned],
               [client |-> "ops", roles |-> {"OPERATOR"}]}

(* A token that expires soon, one that lasts and one that claims a role    *)
(* its client is not provisioned with.                                     *)
MCTokens == {[kid |-> "k1", iat |-> 1, exp |-> 3, client |-> "ops",
              roles |-> {"OPERATOR"}, mfa |-> TRUE],
             [kid |-> "k2", iat |-> 2, exp |-> 9, client |-> "svc",
              roles |-> Unprovisioned, mfa |-> TRUE],
             [kid |-> "k2", iat |-> 2, exp |-> 9, client |-> "svc",
              roles |-> {"OPERATOR"}, mfa |-> TRUE]}

(* A release, its successor, one whose first migration differs and one     *)
(* whose file is refused.                                                  *)
MCReleases == {<<"a">>, <<"a", "b">>, <<"c">>, <<"refused">>}

VARIABLE focus

MCInit ==
    /\ CallbackInit /\ LifecycleInit /\ EvidenceInit /\ OidcInit /\ RegistryInit
    /\ RuntimeInit /\ StagingInit
    /\ focus \in {"auth", "lifecycle", "evidence", "oidc", "registry", "runtime", "staging"}
    /\ published = {"k2", "k3"}

(* Processes share the ledger and the lock alone: once two of them have    *)
(* started up, nothing either does concerns the other.                     *)
Started(p) == procs[p] # Vacant
              /\ procs[p].pc \in {"listening", "draining", "stopping", "closing", "ended"}
NotBoth == \A p, q \in Processes : Started(p) /\ Started(q) => p = q

(* Registrations and notices share the binding of the device alone, which  *)
(* stays: once something was notified, nothing more is registered.         *)
NoMore == (\E x \in DOMAIN notice : notice[x] # Missing) => UNCHANGED handler

MCNext ==
    /\ UNCHANGED focus
    /\ IF focus = "auth" THEN CallbackNext ELSE UNCHANGED authVars
    /\ IF focus = "lifecycle" THEN LifecycleNext ELSE UNCHANGED lifecycleVars
    /\ IF focus = "evidence" THEN EvidenceNext ELSE UNCHANGED evVars
    /\ IF focus = "oidc" THEN OidcNext ELSE UNCHANGED oidcVars
    /\ IF focus = "registry" THEN RegistryNext /\ NoMore ELSE UNCHANGED registryVars
    /\ IF focus = "runtime" THEN RuntimeNext /\ NotBoth ELSE UNCHANGED runtimeVars
    /\ IF focus = "staging" THEN StagingNext ELSE UNCHANGED stagingVars

MCSpec ==
    MCInit /\ [][MCNext]_<<authVars, lifecycleVars, evVars, oidcVars, registryVars,
                          runtimeVars, stagingVars, focus>>

(* What is interchangeable in several of the modules is one set of model   *)
(* values, so that the permutations stay few.                              *)
Symmetry == Permutations(Operations) \cup Permutations(DeliveryKeys)
              \cup Permutations(CallbackIds)
=============================================================================
