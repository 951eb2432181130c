\* Two modules, two jobs, three facts and a decision, two failures or stops, one retry or full
\* rebuild.
SPECIFICATION Spec
CONSTANTS
    Modules <- TwoModules
    Jobs = {"j1", "j2"}
    Rebuild = "rebuild"
    Facts <- Imported
    Decided = {"g1"}
    ModuleOf <- InModule
    JobOf <- InJob
    MaxFailures = 2
    MaxRequests = 1
VIEW LiveState
INVARIANTS
    PairsMatch
    DoneIsProjected
    CompanyIsCurrent
\* Every job done and every bound used up.
CHECK_DEADLOCK FALSE
