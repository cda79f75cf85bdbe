SPECIFICATION SpecRefusal
CONSTANTS
    Proc = {p1}
    None = None
    MaxPub = 3
    MaxCrash = 1
    MaxChain = 1
    MaxFloor = 0
    Room = 1
CHECK_DEADLOCK FALSE
INVARIANTS
    RestoredRefusalStays
