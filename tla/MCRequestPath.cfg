CONSTANTS
    Requests = {r1, r2}
    Models <- MCModels
    Backends <- MCBackends
    Pool <- MCPool
    Routes <- MCRoutes
    Granted <- MCGranted
    Fallback = cloud
    NoBackend = nobackend
    Slots = 1
    MaxRetries = 1
    local = local
    cloud = cloud
    ghost = ghost
    b1 = b1
    b2 = b2
    b3 = b3
SPECIFICATION FairSpec
INVARIANTS SlotsSound FailoverHonest
 
CHECK_DEADLOCK FALSE
