\* One job, two request threads, a pool of two, one restart, one failing ledger write.
SPECIFICATION Spec
CONSTANTS
    Jobs = {j1}
    NoJob = NoJob
    Clients = {c1, c2}
    MaxFutures = 5
    PoolSize = 2
    MaxAttempts = 1
    MaxRequests = 2
    MaxCrashes = 1
    MaxFaults = 1
    FactsTree = FALSE
SYMMETRY ThreadSymmetry
VIEW LiveState
INVARIANTS
    OneRunPerJob
    CancelReachesRun
    CommittedOnce
    DoneIsCommitted
PROPERTIES
    NoReplay
\* Every request answered and every bound used up: the system rests.
CHECK_DEADLOCK FALSE
