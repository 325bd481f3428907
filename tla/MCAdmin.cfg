SPECIFICATION MCSpec
CONSTANTS
    Providers = {"p1", "p2"}
    Models = {"m1", "m2"}
    Frontends = {"f1", "f2"}
    Rules = {"r1", "r2"}
    Targets = {"t1", "t2", "t3", "t4"}
    Pools = {"g1", "g2"}
    Tools = {"s1", "s2"}
    Classes = {"c1", "c2"}
    Roles = {"dev"}
    Names <- MCNames
    ProviderNames = {"p", "q"}
    Bases = {"h1", "h2"}
    Auths = {"default"}
    ModelList <- MCModelList
    Requests = {"x", "y"}
    MaxWork = 4
    Initial <- MCInitial
    Null = Null
    p1 = p1 p2 = p2 p3 = p3 role1 = role1 role2 = role2 role3 = role3 k1 = k1 k2 = k2 s1 = s1 s2 = s2
    Principals = {p1, p2, p3}
    RoleIds = {role1, role2, role3}
    Keys = {k1, k2}
    Sessions = {s1, s2}
    PrincipalNames = {"root", "app"}
    RoleNames = {"admin", "import:app"}
    AuthKeys <- MCAuthKeys
    Callers = {"x", "y"}
    Seeded <- MCPeople
    Nobody = Null
    MaxRequests = 2
    MaxEvents = 1
INVARIANTS
    
    
    RevokedKeyRefused
    
PROPERTIES
    RemovedOnlyAbsent
CHECK_DEADLOCK FALSE
