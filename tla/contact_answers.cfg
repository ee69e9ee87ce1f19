SPECIFICATION LiveSpec
CONSTANTS
    MaxAttempts = 2
    Workers = {w1}
    Operators = {o1}
    Kinds = {"CONSENT_GRANTED", "LANGUAGE_SELECTED", "RESPONSE", "REPLY", "HELP", "DISCONNECTED"}
    Inputs <- MCInputs
    Messages = {1, 2, 3, 4}
    None = None
    w1 = w1
    o1 = o1
INVARIANTS
    AnswerIsHeeded
    HumanInCharge
PROPERTIES
    ContactSettles
