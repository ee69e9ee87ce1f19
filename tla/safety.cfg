SPECIFICATION MCSpec
CONSTANTS
    Envelopes <- MCEnvelopes
    Attempts = {1, 2}
    MaxQueueDepth = 1
    MaxPerWindow = 1
    WindowLength = 1
    AllowedSkew = 0
    MaxSignalAge = 1
    ReplayTtl = 2
    MaxIngestTime = 2
    Nothing = Nothing
    Catalog <- MCCatalog
    FreshAge = 0
    MaxEvidenceAge = 1
    FusionSkew = 1
    RepeatLimit = 1
    MaxFusionTime = 2
    NoAdvice = NoAdvice
    LeaseIds = {"l1", "l2"}
    Officers = {"o1"}
    LeaseOfficer <- MCLeaseOfficer
    Demands <- MCDemands
    Accesses = {1, 2}
    LeaseTime = 1
    UseWindow = 1
    MaxUses = 1
    Approvals <- MCApprovals
    Executions <- MCExecutions
    Orders = {1, 2}
    ApprovalTime = 1
    MaxOversightTime = 2
    Missing = Missing
    MaxAttempts = 2
    SessionIds = {1, 2}
    Submissions = {1}
    Transmissions = {1, 2}
    StaleAfter = 0
    MaxRowVersion = 2
    Unset = Unset
    MaxOps = 2
    MaxUpsets = 2
    MaxQueue = 1
    MaxSends = 1
    Scopes = {1, 2}
    Receipts = {"ACCEPTED"}
    Flushers = {1, 2}
    NoFlush = NoFlush
    Observations <- MCObservations
    Lineages <- MCLineages
    Claims <- MCClaims
    Assertions <- MCAssertions
    Disputes <- MCDisputes
    Cells = {"lane", "crossing"}
    Inquiries <- MCInquiries
    Motions <- MCMotions
    Quorum = 2
    CaptureSkew = 0
    LeaseTerm = 2
    StateTerm = 2
    MaxRoadTime = 2
    MaxStates = 2
    Unbuilt = Unbuilt
CHECK_DEADLOCK FALSE
INVARIANTS
    IngestionAccounts
    AdviceIsCautious
    AccessIsBacked
    HighRiskIsApproved
    ActionsAreInformed
    SubmissionsAreTrue
    DeliveredAndKept
    AdviceIsGrounded
    ConflictAgrees
