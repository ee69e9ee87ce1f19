SPECIFICATION CommandSpec
CONSTANTS
    MaxAttempts = 2
    SessionIds = {s1, s2}
    Submissions = {x1, x2}
    Transmissions = {t1, t2}
    StaleAfter = 0
    MaxRowVersion = 2
    Unset = Unset
    s1 = s1
    s2 = s2
    x1 = x1
    x2 = x2
    t1 = t1
    t2 = t2
SYMMETRY Symmetry
CHECK_DEADLOCK FALSE
INVARIANT
    RetryIsDisabled
