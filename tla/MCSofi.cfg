SPECIFICATION FairSpec
CONSTANTS
    rx_queue = 2
    tx_queue = 2
    MaxMessages = 2
    PostResults = {"OK", "EAGAIN", "ERROR"}
    KEEPALIVE_IN_TICKS = 2
    KEEPALIVE_OUT_TICKS = 1
    Faults = {"SEND", "AUX", "TX", "RX", "EQ", "DISCONNECT", "LATE"}
CHECK_DEADLOCK FALSE
INVARIANTS
    DrainIsQuiet
    CleanCloseCompletesSends
    NothingRunsAfterStop
PROPERTIES
    ImplementsLife
    HalvesBehave
    SilenceIsNoticed
    CloseCompletes
    EveryMessageFetched
