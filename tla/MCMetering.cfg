SPECIFICATION Spec
CONSTANTS
    Proxies = {"p"}
    Events = {"e1", "e2"}
    Served <- MCServed
    Deletable = {"e2"}
    Outcomes = {"ok", "err", "budget"}
    QueueCapacity = 1
    BatchMax = 1
    RetainBatches = 1
    BudgetLimit = 1
    BudgetWindow = 2
    Retention = 1
    MaxClock = 2
    MaxFaults = 2
    Null = Null
INVARIANTS
    LossesCounted
PROPERTIES
    ChartsKeepLedger
    UsageRecorded
    SpendPublished
CHECK_DEADLOCK FALSE
