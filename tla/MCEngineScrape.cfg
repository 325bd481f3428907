CONSTANTS
    RetryEvery = 3
    GiveUpAfter = 9
    FreshFor = 1
    ProbeDeadline = 1
SPECIFICATION ScrapeFairSpec
INVARIANT SettledWide
PROPERTY EngineFound
