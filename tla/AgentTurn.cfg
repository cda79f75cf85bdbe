SPECIFICATION Spec
CONSTANTS
    Owner = {o1, o2, o3}
    Nobody = Nobody
    Budget = 2
    MaxTurn = 3
    MaxCall = 2
    MaxRetry = 1
SYMMETRY Symmetry
CHECK_DEADLOCK FALSE
INVARIANTS
    TypeOK
    NoSendAfterUnresolved
    ExecutedOnce
    TranscriptHonest
    OwnerCanCommit
PROPERTIES
    OutcomeFinal
