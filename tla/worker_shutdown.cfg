SPECIFICATION RuntimeSpec
CONSTANTS
    Processes = {p1}
    Releases <- MCReleases
    Malformed = {}
    Required = {1}
    MaxRequests = 1
    MaxStarts = 1
    Vacant = Vacant
    p1 = p1
CHECK_DEADLOCK FALSE
INVARIANT
    ResourcesOutliveWorkers
