SPECIFICATION Spec
CONSTANTS
    Packs = {"v1", "v1x", "v2"}
    Version <- MCVersion
    LeavesOf <- MCLeavesOf
    Rows = {1, 2}
    Releases <- MCReleases
    MaxPlacements = 2
INVARIANTS LedgersVerify WithheldForAReason
PROPERTY TreeStaysBound
