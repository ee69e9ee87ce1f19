SPECIFICATION FairSpec
CONSTANTS
    None = None
    w1 = w1  w2 = w2
    Workers = {w1, w2}
    Messages = {1, 2}
    MaxAttempts = 2
    BatchSize = 2
INVARIANTS
    StatusIsTrue
PROPERTIES
    EventuallySettled
