SPECIFICATION ScenarioSpec
CONSTANTS
    None = None
    h1 = h1  h2 = h2
    f1 = f1  f2 = f2  f3 = f3
    op = op  sup = sup  other = other  field = field  reporter = reporter
    ev = ev  new1 = new1  new2 = new2
    k1 = k1  k2 = k2
    sig = sig  lost = lost
    t1 = t1  t2 = t2
    Handlers <- MCHandlers
    Fences <- MCFences
    Actors <- MCActors
    Tenants = {t1, t2}
    EventIds = {ev, new1, new2}
    Keys = {k1, k2}
    Signals = {sig, lost}
    Stored = {sig}
    Requests <- MCRequests
    RolesOf <- MCRolesOf
    TenantOf <- MCTenantOf
    Seed <- MCSeed
SYMMETRY Symmetry
CHECK_DEADLOCK FALSE
INVARIANTS
    Idempotent
    ReplayIsTruthful
    AttachedInScope
    NoLostUpdate
    ClosureIsAuthorized
    GuardsImplyChecks
PROPERTIES
    TerminalIsFinal
