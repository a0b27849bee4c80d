SPECIFICATION Spec
CONSTANTS
    MaxOps = 2
    MaxBatch = 2
INVARIANT SendsOwnRows
CHECK_DEADLOCK FALSE
