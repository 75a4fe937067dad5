SPECIFICATION Spec
CONSTANTS
    NProcs = 2
    Chunk = 1
    Pad = 2
    DefaultAlign = 2
    Sizes = {1, 2}
    Hints <- NewHints
    EndDefArgs <- OnlyPlain
    MaxVars = 2
    MaxAtts = 1
    MaxRecs = 2
    MaxRedefs = 1
    Faults = {}
INVARIANT DataKept
