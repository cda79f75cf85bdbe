SPECIFICATION Spec
CONSTANTS
    Handle = {h1, h2}
    None = None
    Threshold = 2
    MaxEvent = 4
    MaxDamage = 1
    MaxLoss = 1
INVARIANTS TypeOK AckedSurvive CacheIsPrefix PreviousMatches OneFaultRecoverable
PROPERTIES ImplementsDurableLog LockReleased
