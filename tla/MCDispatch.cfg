SPECIFICATION MCSpec
CONSTANTS
  Frontends <- MCFrontends
  ModelDefs <- MCModelDefs
  FallbackModel <- MCFallback
  Facts <- MCFacts
  Hashes = {0, 2}
  Slots = 2
  DayMinutes = 4
  MaxJumps = 3
  Policy = "cache-affinity"
  KnownProtocols = {"openai"}
  BalanceAbs = 1
  BalanceRel = 150
  TokensTotal = 40
  Spends = {0, 39, 40}
  MaxLoad = 2
  Latencies = {8}
  MaxWork = 4
  Routes <- MCRoutes
  Asked <- MCAsked
  MaxTurns = 5
  MaxPieces = 4
  MaxCalls = 2
  Prompt = 9
  Calls = {"x", "y"}
  ModelNames = {"m"}
  Bodies = {1, 2}
  Sizes = {1, 2, 3}
  MaxEntryBytes = 2
  MaxEntries = 2
  MaxBytes = 3
  Word = 16
  Ttl = 1
  MaxPolicy = 2
  MaxTime = 1
  None = None
INVARIANTS
  
  ConversationFaithful
  
  UsageBookedOnce
  CacheSound

  
CHECK_DEADLOCK FALSE
