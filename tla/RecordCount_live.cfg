SPECIFICATION FairSpec
CONSTANTS
    r0 = r0
    r1 = r1
    r2 = r2
    Rank <- ThreeRanks
    Root = r0
    MaxRecs = 2
    MaxAhead = 2
    Ops <- SyncedOps
    Share = TRUE
    SafeMode = TRUE
    BadArgs = TRUE
    ZeroCount = TRUE
    PartialWaits = TRUE
    WaitFails = TRUE
    FillFails = FALSE
    Faults = {}
    HeaderLimit = 2
INVARIANTS
    ReturnedIsPublished
PROPERTIES
    CallReturns
