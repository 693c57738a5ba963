\* Messages sent mid-turn; three relayed activities, one too large,
\* with one fault.
CONSTANTS
    Messages = {m1, m2, m3}
    MaxReruns = 1
    Activities = {"x", "y", "z"}
    Oversized = {"z"}
    Unreadable = {}
    MaxDeliveries = 2
    SeenCapacity = 1
    MaxBatch = 2
    Faults = {"push", "pull", "ack", "stop"}
    MaxFaults = 1
SPECIFICATION AllSpec
INVARIANTS
    TypesOK
    OneFate
    NotHandledTwice
PROPERTIES
    EveryMessageHandled
    KeepsPromise
CHECK_DEADLOCK FALSE
