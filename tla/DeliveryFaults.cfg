SPECIFICATION Spec
CONSTANTS
    Texts = {1}
    Groups = {}
    Shakes = {}
    Recalls = {2}
    Target <- OneTarget
    MaxAge = 2
    DedupTTL = 1
    RecallWindow = 0
    Faults = {"break", "refuse", "crash", "stop", "storeA", "storeB", "flood"}
    MaxWire = 1
    MaxInbox = 1
    MaxShakes = 0
INVARIANTS
    TypeOK
    AcksTruthful
    RecallOnBothSides
    RetryUntilSettled
PROPERTIES
    ImplementsMailbox
    RecallSticks
