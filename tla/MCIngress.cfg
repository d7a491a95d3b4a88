SPECIFICATION Spec
CONSTANTS
    rx_queue = 4
    MaxMessages = 6
    PostResults = {"OK", "EAGAIN", "ERROR"}
CHECK_DEADLOCK FALSE
INVARIANTS
    AnnouncedMessageExists
    EachBufferOnce
    QueuedMessagesSafe
    DelayedFlushDone
    NeverDeaf
PROPERTY ImplementsChannel
