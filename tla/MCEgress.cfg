SPECIFICATION FairSpec
CONSTANTS
    rx_queue = 4
    tx_queue = 4
CHECK_DEADLOCK FALSE
INVARIANTS
    CounterMatchesRing
    HeldWhileInTransit
    PipeOpenIffContext
    FullWindowBlocksPipe
PROPERTIES
    NoSendAfterStop
    BlockedPipeReopens
    ImplementsWindow
