CONSTANTS
    Pods = {p1}
    Proxies = {x1}
    Unroutable = {2}
    MaxModels = 3
    MaxKeys = 2
    MaxFaults = 2
SPECIFICATION FairSpec
INVARIANT AuthAndRoutingAgree
PROPERTIES PublishedOnlyForward  Converges
