SPECIFICATION FairSpec
CONSTANTS
    Nodes = {"a", "b"}
    Statuses = {"online", "busy"}
    Keys = {"k", "k2"}
    None = None
    Faults = {"crash", "rekey", "late", "lose", "copy"}
    MaxSpent = 2
    MaxNet = 1
    MaxInbox = 2
INVARIANTS
    TypeOK
    PinsSaved
    ContactListed
PROPERTIES
    PinsFinal
    ViewsConverge
    NoStorm
