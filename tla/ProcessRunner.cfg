SPECIFICATION Spec
CONSTANTS
    MaxRun = 2
CHECK_DEADLOCK FALSE
INVARIANTS
    TypeOK
    NoStaleGroup
    Cancellable
PROPERTIES
    ScopeDies
    RunReturns
    LaunchEnds
