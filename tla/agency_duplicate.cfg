SPECIFICATION Spec
CONSTANTS
    None = None
    c1 = c1  c2 = c2
    Consumers = {c1, c2}
    Messages = {1}
INVARIANTS
    EffectAtMostOnce
CHECK_DEADLOCK FALSE
