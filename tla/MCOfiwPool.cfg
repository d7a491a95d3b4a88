SPECIFICATION FairSpec
CONSTANTS
    NumWorkers = 2
    Batches <- Pairs
    Restarts = FALSE
INVARIANT ExclusiveLists StopIsSynchronised MutexIsPaired FreshIteration
PROPERTY WaitsEnd
CHECK_DEADLOCK FALSE
