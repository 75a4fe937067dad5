SPECIFICATION Spec
CONSTANTS
    Var <- Variables
    RecVar <- Records
    Begin <- Layout
    MaxPending = 3
    MaxId = 4
    MaxNum = 2
    MaxRecs = 1
    MaxBuffer = 2
    Habits = {"subset"}
    IOErrors = TRUE
INVARIANTS
    TypeOK
    QueuesFit
    BuffersDisjoint
    BufferReclaimed
    ExactlyAsked
PROPERTIES
    ImplementsRequestSet
    WholeWaitCounted
