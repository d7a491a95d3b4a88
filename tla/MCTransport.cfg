SPECIFICATION FairSpec
CONSTANTS
    Sofis = {s1, s2}
    offset_slots = 2
    tx_queue = 2
    rx_queue = 2
    Faults = {"PEP", "QUEUE", "BIND", "LISTEN", "INIT", "ACCEPT", "CONNECT", "DOMAIN", "EQ",
              "LATE", "DEADLOCK"}
CHECK_DEADLOCK FALSE
INVARIANTS
    KeysExclusive
    ListensWhileActive
    FailsAsKnown
    ConnectorInStep
    ObjectsOutliveUsers
PROPERTIES
    Connects
    StopCompletes
