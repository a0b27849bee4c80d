SPECIFICATION FairSpec
CONSTANTS
    Letters <- MCLetters
    Documents <- MCDocuments
    MaxItems = 6
    Careful = TRUE
    Plans <- MCPlans
CHECK_DEADLOCK FALSE
INVARIANTS
    BaselineIsShown
PROPERTIES
    
    Settles
