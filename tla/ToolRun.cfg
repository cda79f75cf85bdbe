SPECIFICATION Spec
CONSTANTS
    Worker = {w1, w2}
    Branch = {b1, b2}
    None = None
    MaxCall = 2
SYMMETRY Symmetry
CHECK_DEADLOCK FALSE
INVARIANTS
    TypeOK
    ToolsExclusive
    EvidenceHonest
    RecordOwned
