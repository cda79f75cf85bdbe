SPECIFICATION Spec
CONSTANTS
    Proc = {p1}
    None = None
    MaxPub = 2
    MaxCrash = 1
SYMMETRY Symmetry
CHECK_DEADLOCK FALSE
INVARIANTS
    RecoveryFallsBack
