SPECIFICATION Spec
CONSTANTS
    MaxVSize = 7
    MaxName = 50
    RecSize = 8
    NumRecVars = 2
    BeginVar = 4
    StridedRecords = FALSE
PROPERTIES
    RoundTrip
    WindowIrrelevant
    TypeExact
    AggregateExact
CHECK_DEADLOCK FALSE
