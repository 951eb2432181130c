SPECIFICATION Spec
CONSTANTS
    doc1 = doc1
    doc2 = doc2
    Jobs = {doc1, doc2}
    Leaves = {"l1"}
    Last <- MCLast
    Factual = {doc1}
    Unreadable = {1}
    Legacy = {"l1"}
    Limit <- MCLimit
    CompareRetries = 2
    CorrectionAttempts = 1
    MaxRetries <- MCMaxRetries
INVARIANTS
    ReplayMatches
    SuccessIsWhole
PROPERTIES
    ImplementsSharedLeaves
CHECK_DEADLOCK FALSE
