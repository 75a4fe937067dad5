SPECIFICATION Spec
CONSTANTS
    NProcs = 2
    Chunk = 1
    Pad = 2
    DefaultAlign = 2
    Sizes = {1, 2}
    Hints <- SameHints
    EndDefArgs <- AnyArgs
    MaxVars = 3
    MaxAtts = 1
    MaxRecs = 2
    MaxRedefs = 2
    Faults = {}
INVARIANTS TypeOK DataKept LayoutSound OpenAgrees AssertsHold
