SPECIFICATION Spec
CONSTANTS
    Replicas = {1, 2}
    OpTypes = {"insert", "delete", "setattr"}
    MaxOps = 3
    MaxReloads = 1
    MaxBatch = 1
    PendingLimit = 2
CHECK_DEADLOCK FALSE
INVARIANTS
    IntegrationExact
    LastWriterWins
    
PROPERTIES
    StableView
