SPECIFICATION Spec
CONSTANTS
    Ranks = {0, 1}
    Names = {"a", "b", "_FillValue"}
    Width <- NameWidth
    Keys = {0, 1}
    Hash <- NameKey
    FillName = "_FillValue"
    Sizes = {1, 2}
    SafeMode = TRUE
    MaxDims = 2
    MaxVars = 1
    MaxAtts = 2
    MaxCalls = 5
    Disagree = TRUE
    BadIds = FALSE
    Faults = {}
INVARIANTS TypeOK LookupAgrees RanksAgree DiskCurrent HeaderFits
