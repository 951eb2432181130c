\* Two jobs on one pool thread, facts tree on; no symmetry and no view, for liveness.
SPECIFICATION FairSpec
CONSTANTS
    Jobs = {j1, j2}
    NoJob = NoJob
    Clients = {c1}
    MaxFutures = 6
    PoolSize = 1
    MaxAttempts = 1
    MaxRequests = 1
    MaxCrashes = 0
    MaxFaults = 0
    FactsTree = TRUE
PROPERTIES
    LiveJobsEnd
CHECK_DEADLOCK FALSE
