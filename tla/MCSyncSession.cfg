SPECIFICATION FairSpec
CONSTANTS
    MaxOwn = 2
    MaxPeer = 2
    MaxBatch = 1
    MaxFlush = 1
    Calm = TRUE
    Plans <- MCPlans
CHECK_DEADLOCK FALSE
INVARIANTS
    EditsAreKept
    

    
