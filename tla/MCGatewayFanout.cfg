SPECIFICATION Spec
CONSTANTS
    Gateways = {"g1", "g2"}
    RestGateways = {}
    Conns = {"t1", "t2", "t3"}
    Home <- MCHome
    MaxOps = 2
    QueueSize = 1
    MaxDeliver = 1
    MaxFaults = 0
INVARIANTS
    SuppressedIsRepeated
CHECK_DEADLOCK FALSE
