SPECIFICATION FairSpec
CONSTANTS
    NumWorkers = 1
    Batches <- SingleEvents
    Restarts = FALSE
PROPERTY StopReturns
CHECK_DEADLOCK FALSE
