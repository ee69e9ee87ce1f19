SPECIFICATION SceneSpec
CONSTANTS
    MaxAttempts = 2
    Workers = {w1, w2}
    Operators = {o1, o2}
    Kinds = {"CONSENT_GRANTED", "CONSENT_DECLINED", "LANGUAGE_SELECTED", "PARTIAL_RESPONSE", "DISCONNECTED", "RECONNECT", "REPLY"}
    Inputs <- MCInputs
    Messages = {1, 2, 3, 4, 5}
    None = None
    w1 = w1
    w2 = w2
    o1 = o1
    o2 = o2
SYMMETRY Symmetry
INVARIANTS
    ConsentFirst
    QuestionsAccounted
PROPERTIES
    ProtocolIsFollowed
    RestIsFinal
    DeliveryIsFenced
