SPECIFICATION MCSpec
CONSTANTS
    Verifiers = {x1, x2}
    Callbacks <- MCCallbacks
    MaxAge = 2
    MaxFutureSkew = 1
    Drift = 1
    MaxAuthTime = 10
    NoCallback = NoCallback
    x1 = x1
    x2 = x2
    Profiles <- MCProfiles
    Operations = {x1, x2}
    DeliveryKeys = {k1, k2}
    Bodies = {b1}
    CallbackIds = {c1, c2}
    Reasons = {r1}
    MaxLifecycleTime = 1
    Null = Null
    b1 = b1
    c1 = c1
    c2 = c2
    r1 = r1
    Ids = {i1}
    Contents = {good, bad}
    Harmless = {good}
    Traces = {t1}
    Keys = {k1, k2}
    Actors = {a1, a2}
    InScope = {a1}
    Requests = {x1, x2}
    UploadTtl = 1
    DownloadTtl = 1
    StorageTtl = 1
    CredentialLife = 2
    Margin = 0
    MaxEvTime = 2
    Absent = Absent
    i1 = i1
    good = good
    bad = bad
    t1 = t1
    k1 = k1
    k2 = k2
    a1 = a1
    a2 = a2
    Kids = {"k1", "k2", "k3"}
    SigningKids = {"k1", "k2"}
    MaxKeys = 2
    Tokens <- MCTokens
    Bindings <- MCBindings
    CacheTtl = 4
    MinInterval = 2
    FetchTimeout = 1
    MaxTokenAge = 4
    Skew = 1
    Callers = {x1, x2}
    MaxOidcTime = 8
    Nobody = Nobody
    Unprovisioned = Unprovisioned
    Principals = {k1, k2}
    Devices = {d1}
    Evidence = {c1, c2}
    Notices = {n1}
    Handlers = {x1, x2}
    MaxRegTime = 1
    Missing = Missing
    d1 = d1
    n1 = n1
    Processes = {x1, x2}
    Releases <- MCReleases
    Malformed = {"refused"}
    Required = {1}
    MaxRequests = 1
    MaxStarts = 3
    Vacant = Vacant
    Runners = {x1, x2}
    EvidenceFiles = {k1, k2}
    Blocking = {1}
    MaxEdits = 1
    NoFile = NoFile
SYMMETRY Symmetry
CHECK_DEADLOCK FALSE
INVARIANTS
    AcceptedOnce
    ExchangeIsSound
    EvidenceIsSafe
    TrustLapses
    RegistryIsTrue
    DeploymentIsSafe
    ShutdownIsClean
    ReviewIsGrounded
PROPERTIES
    AcceptedInTime
    GuardNeverRaises
    ImplementsCustody
