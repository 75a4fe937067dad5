SPECIFICATION Spec
CONSTANTS
    r0 = r0
    r1 = r1
    Rank <- TwoRanks
    Cells = 2
    MaxPuts = 2
    PoolSize = 1
    Shapes <- VarShapes
    VarnShapes <- SwapShapes
    FlushBuffer = 2
    Ops = {"get", "sync", "flush", "wait", "redef", "close", "abort"}
    RedefIndep = FALSE
    MixedForms = FALSE
    Faults = {}
SYMMETRY AnyOrder
INVARIANTS
    TypeOK
    NeverAborts
    CollectivesMatch
PROPERTIES
    ImplementsLogPromise
