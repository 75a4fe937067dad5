SPECIFICATION Spec
CONSTANTS
    r0 = r0
    r1 = r1
    r2 = r2
    Rank <- ThreeRanks
    Root = r0
    MaxRecs = 3
    MaxAhead = 2
    Ops <- AllOps
    Share = FALSE
    SafeMode = FALSE
    BadArgs = FALSE
    ZeroCount = TRUE
    PartialWaits = FALSE
    WaitFails = TRUE
    FillFails = FALSE
    Faults = {}
    HeaderLimit = 3
SYMMETRY OtherRanks
INVARIANTS
    TypeOK
    CollectiveAgree
    HeaderCurrent
    NothingLost
    CollectivesMatch
PROPERTIES
    CountsOnlyGrow
