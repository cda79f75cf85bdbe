CONSTANTS
    NoCwd = NoCwd
    Proc = {p1, p2, p3, p4}
    Prompt = {hello, bye}
    Cwd = {w1}
    MaxTurn = 2
    MaxBranch = 3
    MaxRound = 1
    Lease = 2
    MaxNow = 3
SPECIFICATION Spec
SYMMETRY Symmetry
CHECK_DEADLOCK FALSE
INVARIANTS
    TypeOK
    NoDuplicateReservation
    LineageFinal
    AttemptsDistinct
    LeaseExclusive
    ReportedOutcomeStands
PROPERTIES
    HistoryAppendOnly
