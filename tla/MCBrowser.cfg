SPECIFICATION Spec
CONSTANTS
    t1 = t1
    t2 = t2
    MaxOps = 2
    MaxBatch = 2
    ReplicaTabs <- Editing
    MaxIds = 3
    MaxMounts = 3
    MaxEdits = 2
    MaxRemote = 1
    DraftScopes = {"d1", "d2"}
    MaxDrafts = 2
    MaxBytes = 3
    MaxMade = 3
    MaxFaults = 1
    Configured = TRUE
    MaxSaveEdits = 3
    MaxSaveFaults = 2
    MaxReports = 2
    Docs = {"d1", "d2"}
    DocKinds <- DocumentKinds
    PageSize = 1
    MaxChanges = 1
    MaxRenames = 1
    Log = 5
    Stride = 2
    MaxOpens = 2
    MaxMoves = 3
    Gateways = {"g1", "g2"}
    RestGateways = {"g2"}
    Conns <- Editing
    Home <- OneGateway
    QueueSize = 1
    MaxDeliver = 2
SYMMETRY Symmetry
INVARIANTS
    OutboxIsSafe
    ReplicasAreSound
    DraftsAreKept
    
    
    CodecsAreStrict
    
    ReplayIsExact
    
CHECK_DEADLOCK FALSE
