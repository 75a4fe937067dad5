SPECIFICATION Spec
CONSTANTS
    MaxFiles = 2
    Files = {f1, f2, f3}
    None = None
    Absent = Absent
    Empty = Empty
    MaxVars = 1
    SafeMode = TRUE
    StaleIds = FALSE
    Faults = {}
VIEW ButReply
SYMMETRY Paths
INVARIANTS TypeOK LayersAgree
PROPERTY ImplementsHandles
