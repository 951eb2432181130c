\* Two runs over two files, two people deciding, one fault.
SPECIFICATION Spec
CONSTANTS
    c1 = c1
    c2 = c2
    v1 = v1
    v2 = v2
    u1 = u1
    u2 = u2
    Coordinates = {c1, c2}
    Values = {v1, v2}
    Units = {u1, u2}
    Sources = {f1, f2}
    None = None
    Batches <- ImportBatches
    Runs = {r1, r2}
    Deciders = {d1, d2}
    Idle = Idle
    MaxDecisions = 2
    MaxFaults = 1
SYMMETRY Symmetric
VIEW LiveState
INVARIANTS
    OneAutoPerCoordinate
    EvidenceOnRecord
    SupersededByDecision
\* Every run over and every decision taken.
CHECK_DEADLOCK FALSE
