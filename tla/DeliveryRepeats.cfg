SPECIFICATION FairSpec
CONSTANTS
    Texts = {}
    Groups = {1}
    Shakes = {2}
    Recalls = {}
    Target <- OneTarget
    MaxAge = 2
    DedupTTL = 1
    RecallWindow = 0
    Faults = {"break", "refuse", "stop", "flood"}
    MaxWire = 2
    MaxInbox = 2
    MaxShakes = 0
INVARIANTS
    SenderKeepsWhatArrived
    UnreadExact
PROPERTIES
    QueueDrains
