SPECIFICATION FairSpec
CONSTANTS
    Keys = {k1}
    NoKey = NoKey
    NoGateway = NoGateway
    Gateways = {g1, g2}
    Callers = {c1, c2}
    MaxJobs = 2
    MaxAttempts = 2
CHECK_DEADLOCK FALSE
INVARIANTS
    OneClaimHolder
PROPERTIES
    ServiceSpec
    EveryJobSettles
