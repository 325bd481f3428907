CONSTANTS
    Requests = {r1, r2, r3}
    MaxConcurrent = 2
    HighWater = 2
    MaxQueued = 1
    Cooldown = 2
    MaxTime = 2
SPECIFICATION FairSpec
INVARIANTS
    GateSafe
PROPERTIES
    GateMoves
