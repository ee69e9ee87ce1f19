------------------------ MODULE HumanContactProtocol ------------------------
(***************************************************************************)
(* The contact contract (packages/contracts): the states of a contact      *)
(* session, the transitions the protocol permits and the authority each    *)
(* of them needs, as pure operators.                                       *)
(***************************************************************************)
EXTENDS Naturals

CONSTANT MaxAttempts   \* HUMAN_CONTACT_MAX_AUTOMATED_ATTEMPTS

ASSUME AttemptsAssumption == MaxAttempts \in Nat \ {0}

States ==
    {"CREATED", "CONSENT_PENDING", "LANGUAGE_SELECTION", "CONTACTING",
     "AWAITING_RESPONSE", "PARTIAL_RESPONSE", "RESPONSE_CONFIRMED",
     "DISCONNECTED", "NO_RESPONSE", "UNREACHABLE", "OPERATOR_TAKEOVER",
     "HUMAN_REVIEW", "ESCALATED", "COMPLETED"}

(* The states in which a human has, or is asked to take, the session.      *)
HumanStates == {"HUMAN_REVIEW", "ESCALATED", "OPERATOR_TAKEOVER"}

ALLOWED ==
    [s \in States |->
        CASE s = "CREATED"            -> {"CONSENT_PENDING", "HUMAN_REVIEW",
                                          "ESCALATED"}
          [] s = "CONSENT_PENDING"    -> {"LANGUAGE_SELECTION",
                                          "HUMAN_REVIEW", "ESCALATED"}
          [] s = "LANGUAGE_SELECTION" -> {"CONTACTING", "HUMAN_REVIEW",
                                          "ESCALATED"}
          [] s = "CONTACTING"         -> {"AWAITING_RESPONSE",
                                          "HUMAN_REVIEW", "ESCALATED"}
          [] s = "AWAITING_RESPONSE"  -> {"PARTIAL_RESPONSE",
                                          "RESPONSE_CONFIRMED",
                                          "DISCONNECTED", "NO_RESPONSE"}
                                           \cup HumanStates
          [] s = "PARTIAL_RESPONSE"   -> {"AWAITING_RESPONSE",
                                          "RESPONSE_CONFIRMED",
                                          "DISCONNECTED"} \cup HumanStates
          [] s = "RESPONSE_CONFIRMED" -> {"COMPLETED"} \cup HumanStates
          [] s \in {"DISCONNECTED", "NO_RESPONSE"} ->
                                         {"CONTACTING"} \cup HumanStates
          [] s = "UNREACHABLE"        -> HumanStates
          [] s = "OPERATOR_TAKEOVER"  -> {"HUMAN_REVIEW", "ESCALATED",
                                          "COMPLETED"}
          [] s = "HUMAN_REVIEW"       -> {"OPERATOR_TAKEOVER", "ESCALATED",
                                          "COMPLETED"}
          [] s = "ESCALATED"          -> {"OPERATOR_TAKEOVER",
                                          "HUMAN_REVIEW"}
          [] s = "COMPLETED"          -> {"HUMAN_REVIEW", "ESCALATED"}]

(* What a transition needs.  The table names every allowed pair; the       *)
(* authority depends on the target, except that asking again after silence *)
(* or a partial answer is a retry.                                         *)
TRANSITION_AUTHORITY(from, to) ==
    CASE to \in {"HUMAN_REVIEW", "ESCALATED"} -> "ESCALATE_CONTACT"
      [] to = "OPERATOR_TAKEOVER"             -> "TAKE_OVER_CONTACT"
      [] to = "COMPLETED"                     -> "COMPLETE_CONTACT"
      [] from \in {"PARTIAL_RESPONSE", "DISCONNECTED", "NO_RESPONSE"}
           /\ to \in {"AWAITING_RESPONSE", "CONTACTING"} -> "RETRY_CONTACT"
      [] to \in {"CONSENT_PENDING", "CONTACTING", "AWAITING_RESPONSE"} ->
                                                 "START_CONTACT"
      [] OTHER                                -> "RECORD_RESPONSE"

ROLE_AUTHORITIES(role) ==
    CASE role = "SYSTEM" -> {"START_CONTACT", "RECORD_RESPONSE",
                             "RETRY_CONTACT", "ESCALATE_CONTACT"}
      [] role \in {"OPERATOR", "SUPERVISOR", "SAFETY_LEAD"} ->
                            {"START_CONTACT", "RECORD_RESPONSE",
                             "RETRY_CONTACT", "ESCALATE_CONTACT",
                             "TAKE_OVER_CONTACT", "COMPLETE_CONTACT"}
      [] OTHER           -> {}

(* decideHumanContactTransition on a well-formed, current context: is the  *)
(* transition allowed?  healthy is the conjunction of channelHealthy and   *)
(* accessibilitySatisfied.  Completion needs a CONFIRMED identity, which   *)
(* nothing in the runtime establishes.                                     *)
Approved(from, to, role, healthy, attempts) ==
    /\ to \in ALLOWED[from]
    /\ TRANSITION_AUTHORITY(from, to) \in ROLE_AUTHORITIES(role)
    /\ ~ healthy => to \in HumanStates
    /\ to = "CONTACTING" => attempts < MaxAttempts
    /\ to # "COMPLETED"
=============================================================================
