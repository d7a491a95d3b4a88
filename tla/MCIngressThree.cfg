SPECIFICATION Spec
CONSTANTS
    rx_queue = 3
    MaxMessages = 6
    PostResults = {"OK"}
CHECK_DEADLOCK FALSE
INVARIANT QueuedMessageAnnounced
