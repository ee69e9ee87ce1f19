SPECIFICATION FieldSpec
CONSTANTS
    MaxOps = 2
    MaxUpsets = 2
    MaxQueue = 1
    MaxSends = 1
    Scopes = {1}
    Receipts = {"ACCEPTED", "OPERATOR_TAKEOVER"}
    Flushers = {f1, f2}
    NoFlush = NoFlush
    f1 = f1
    f2 = f2
SYMMETRY Symmetry
CHECK_DEADLOCK FALSE
INVARIANT
    RetryIsReconciled
