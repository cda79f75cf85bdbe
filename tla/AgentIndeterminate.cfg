SPECIFICATION Spec
CONSTANTS
    Owner = {o1, o2}
    Nobody = Nobody
    Budget = 2
    MaxTurn = 2
    MaxCall = 1
    MaxRetry = 0
SYMMETRY Symmetry
CHECK_DEADLOCK FALSE
INVARIANTS
    IndeterminateTerminates
