SPECIFICATION SpecAdmission
CONSTANTS
    Proc = {p1}
    None = None
    MaxPub = 4
    MaxCrash = 3
    MaxChain = 2
    MaxFloor = 1
    Room = 2
CHECK_DEADLOCK FALSE
INVARIANTS
    TypeOKAdmission
    NoMixedGeneration
    PublishedKept
    NotBehind
    CompletionDurable
PROPERTIES
    RefusalStands
