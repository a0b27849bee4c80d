SPECIFICATION Spec
CONSTANTS
    t1 = t1
    t2 = t2
    Tabs <- Reviewing
    Names = {"a", "b"}
    MaxReviewEdits = 1
    MaxIntents = 2
    MaxAttempts = 4
    MaxBranches = 2
    MaxSeq = 5
    MaxSnapshots = 2
    MaxRevisions = 2
    Archives = {"a1", "a2"}
    Titles = {"", "x", "y"}
    MaxIds = 2
    MaxTyped = 3
    MaxOthers = 2
    MaxChanges = 2
SYMMETRY Symmetry
INVARIANTS
    
    MergesAreExact
    
    ImportsAreSound
    FilesAreWhole
    
CHECK_DEADLOCK FALSE
