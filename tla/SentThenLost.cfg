SPECIFICATION Spec
CONSTANTS
    Texts = {1}
    Groups = {}
    Shakes = {}
    Recalls = {}
    Target <- OneTarget
    MaxAge = 2
    DedupTTL = 1
    RecallWindow = 0
    Faults = {"break"}
    MaxWire = 1
    MaxInbox = 1
    MaxShakes = 0
INVARIANTS
    SentIsNotLost
