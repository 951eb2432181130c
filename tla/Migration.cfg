SPECIFICATION MigrationSpec
CONSTANTS
    Rows = {1, 2}
    Misquoted = {2}
    Stray = {1}
    Batches = {"b1", "b2"}
    Plans = {"p1"}
    Uploads = {j1, j2}
    MaxWrites = 1
VIEW LiveView
SYMMETRY JobSymmetry
INVARIANTS PlannedIsSupported 
CHECK_DEADLOCK FALSE
