SPECIFICATION FairSpec
CONSTANTS
    Batches <- OneFile
    Updates = {"u"}
    Offers = {"o"}
    SEND_RETRY_MAX = 2
    Faults = {"crash", "lag"}
    MaxSpent = 1
INVARIANTS
    TypeOK
    OneSession
    RowsTruthful
PROPERTIES
    RetryConcludes
    OffersSettle
CHECK_DEADLOCK FALSE
