SPECIFICATION Spec
CONSTANTS
    NumWorkers = 1
    Batches <- SingleEvents
    Restarts = FALSE
INVARIANT LockExcludes
CHECK_DEADLOCK FALSE
