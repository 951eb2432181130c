\* Two jobs of a company publish to two leaves.
SPECIFICATION Spec
CONSTANTS
    j1 = j1
    j2 = j2
    n1 = n1
    n2 = n2
    n3 = n3
    Jobs <- MCJobs
    Notes <- MCNotes
    Notebooks <- MCNotebooks
    Leaves = {1, 2}
    Corrections = 1
    CompareRetries <- MCCompareRetries
    Budget <- MCBudget
    ViewLimit = 1
    Legacy <- MCLegacy
    Moves <- MCMoves
    Runs = {1, 2}
    MaxRuns <- MCMaxRuns
VIEW LiveView
SYMMETRY NoteSymmetry
INVARIANTS
    OneFactPerNote
    EvidenceKept
    ItemsMatchLedger
    CompleteIsCovered
    ReceiptIsShown
PROPERTIES
    RefusedForPlacement
CHECK_DEADLOCK FALSE
