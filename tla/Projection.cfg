\* Two documents and two facts, two providers, two failures or stops.
SPECIFICATION ProjectionSpec
CONSTANTS
    Uris = {u1, u2}
    Facts = {f1, f2}
    Clients = {p1, p2}
    MaxWrites = 3
    MaxFailures = 2
    MaxRebuilds = 2
SYMMETRY Symmetric
VIEW LiveState
INVARIANTS
    ReadyIsCurrent
    PublishedIsIndexed
PROPERTIES
    AnswerIsCurrent
\* Every client idle and every bound used up.
CHECK_DEADLOCK FALSE
