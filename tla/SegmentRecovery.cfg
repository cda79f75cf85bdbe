SPECIFICATION Spec
CONSTANTS
    Handle = {h1}
    None = None
    Threshold = 2
    MaxEvent = 2
    MaxDamage = 1
    MaxLoss = 0
INVARIANT InterruptedWriteRecovers
