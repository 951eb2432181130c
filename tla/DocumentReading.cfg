SPECIFICATION Spec
CONSTANTS
    Windows <- MCWindows
    Refusable = {2}
    Crowded = {2}
    Limit <- MCLimit
    MaxRetries = 1
INVARIANTS
    ReviewCoversNotebook
    PublishedIsReviewed
    SuccessIsWhole
PROPERTIES
    DecisionsStand
    RunEnds
