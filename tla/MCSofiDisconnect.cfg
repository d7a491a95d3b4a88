SPECIFICATION FairSpec
CONSTANTS
    rx_queue = 2
    tx_queue = 2
    MaxMessages = 0
    PostResults = {"OK"}
    KEEPALIVE_IN_TICKS = 4
    KEEPALIVE_OUT_TICKS = 2
    Faults = {"DISCONNECT"}
CHECK_DEADLOCK FALSE
PROPERTY DisconnectTerminates
