CONSTANTS
    Reqs = {r1}
    Prober = prober
    Scraper = scraper
    Fleet = fleet
    UnhealthyAfter = 2
    TimeoutThreshold = 2
    StallThreshold = 2
    Base = 1
    Ceiling = 2
    Forgive = 2
    MaxStreak = 2
SPECIFICATION FairSpec
INVARIANT NoHearsay
PROPERTY RotationSettles
CHECK_DEADLOCK FALSE
