SPECIFICATION Spec
CONSTANTS
    r0 = r0
    r1 = r1
    r2 = r2
    Rank <- ThreeRanks
    Root = r0
    MaxRecs = 3
    MaxAhead = 2
    Ops <- AllOps
    Share = FALSE
    SafeMode = TRUE
    BadArgs = TRUE
    ZeroCount = FALSE
    PartialWaits = TRUE
    WaitFails = FALSE
    FillFails = FALSE
    Faults = {"ewrite"}
    HeaderLimit = 3
SYMMETRY OtherRanks
INVARIANTS
    
    StaleHeaderReported
    CollectivesMatch
