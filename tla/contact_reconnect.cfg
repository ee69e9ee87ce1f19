SPECIFICATION Spec
CONSTANTS
    MaxAttempts = 2
    Workers = {w1}
    Operators = {o1}
    Kinds = {"CONSENT_GRANTED", "LANGUAGE_SELECTED", "DISCONNECTED", "RECONNECT", "DEVICE_METADATA"}
    Inputs <- MCInputs
    Messages = {1, 2, 3, 4, 5}
    None = None
    w1 = w1
    o1 = o1
INVARIANT
    QuestionsBounded
