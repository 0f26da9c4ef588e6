SPECIFICATION FairSpec
CONSTANTS
    Nodes = {"a", "b"}
    Calls = {1, 2, 3}
    Caller <- AllButLast
    MaxConns = 2
    QueueCap = 1
    Faults = {"refuse", "cut", "silence", "unreadable", "disconnect", "stop", "stranger"}
    MaxEvents = 3
INVARIANTS
    TypeOK
    OneDial
    LostOnlyWithConnection
PROPERTIES
    CallsReturn
    NoBlackHole
CHECK_DEADLOCK FALSE
