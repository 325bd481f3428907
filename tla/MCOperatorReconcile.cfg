CONSTANTS
    None = none
    v1 = v1
    v2 = v2
    Specs <- MCSpecs
    First <- MCFirst
    Keys = {k1}
    Unusable = unusable
    MaxWork = 2
SPECIFICATION FairSpec
INVARIANTS GatewayNeverAhead ReadyIsTrue
PROPERTIES  InstallFinishes
