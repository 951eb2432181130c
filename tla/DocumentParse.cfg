SPECIFICATION Spec
CONSTANTS
    Jobs = {j1, j2}
    NoJob = NoJob
    MaxCalls = 4
    MaxReworks = 1
    MaxCrashes = 1
    MaxCanceled = 1
    MaxStarts = 2
SYMMETRY Companies
INVARIANTS
    ReviewedIsRead
    MapFollowsRows
PROPERTIES
    StagedIsFresh
CHECK_DEADLOCK FALSE
