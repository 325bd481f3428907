CONSTANTS
    Replicas = {r1, r2}
    Nobody = nobody
    Duration = 4
    Renew = 1
    Prompt = 1
    MaxCall = 2
SPECIFICATION ElectionFairSpec
INVARIANT OneLeader
PROPERTIES LeaseRespected Leadership
