SPECIFICATION FairSpec
CONSTANTS
  Replicas = {r1, r2}
  UnhealthyAfter = 1
  Ttl = 1
  MaxRejected = 1
  MaxEvents = 2
INVARIANTS
  RejectionsNotInvented
  
PROPERTIES
  DeadStaysOut
