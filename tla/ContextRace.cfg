SPECIFICATION Spec
CONSTANTS
    Proc = {p1, p2}
    None = None
    MaxPub = 2
    MaxCrash = 0
SYMMETRY Symmetry
CHECK_DEADLOCK FALSE
INVARIANTS
    NoMixedGeneration
