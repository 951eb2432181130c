\* Two companies on a pool of one, three uploads: guides wait for each other.
SPECIFICATION FairSpec
CONSTANTS
    Companies = {acme, bolt}
    MaxJobs = 3
    MaxUploads = 3
    PoolSize = 1
INVARIANTS
    SingleFlight
PROPERTIES
    CheckedIsCurrent
    JobsEnd
\* Nothing is left to write, or the bound on jobs is used up.
CHECK_DEADLOCK FALSE
