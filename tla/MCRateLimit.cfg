SPECIFICATION LimiterSpec
CONSTANTS
  Replicas = {r1, r2}
  Callers = {c1, c2}
  Plans <- MCPlans
  Costs = {2}
  Minute = 2
  StaleAfter = 1
  IdleAfter = 3
  Scale = 6
  MaxSkew = 1
  MaxWork = 3
  None = None

  
PROPERTIES
  ShareRecovered
