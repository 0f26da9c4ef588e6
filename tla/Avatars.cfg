SPECIFICATION FairSpec
CONSTANTS
    Images = {"i", "j"}
    Big = {"j"}
    None = None
    Unknown = Unknown
    AVATAR_RETRY_MAX = 3
    Full = {"b"}
    Users = {"b"}
    Faults = {"break", "refuse", "restart"}
    MaxFaults = 1
    MaxChanges = 2
INVARIANTS
    TypeOK
PROPERTIES
    AvatarsConverge
    PullsEnd
CHECK_DEADLOCK FALSE
