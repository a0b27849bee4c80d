SPECIFICATION FairSpec
CONSTANTS
    Replicas = {1, 2, 3}
    OpTypes = {"insert"}
    MaxOps = 4
    MaxReloads = 0
    MaxBatch = 1
    PendingLimit = 1
INVARIANTS
    Converged
    BetweenAnchors
PROPERTIES
    EventuallyApplied
CHECK_DEADLOCK FALSE
