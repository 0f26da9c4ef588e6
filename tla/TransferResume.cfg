SPECIFICATION FairSpec
CONSTANTS
    Tokens = {1, 2}
    Files = {"f"}
    Dirs = {"d"}
    Manifest <- Tree
    Size <- Two
    MaxVersion = 2
    MaxWire = 2
    NoFile = NoFile
    Faults = {"break", "refuse", "crashA", "crashB", "readA", "diskB", "edit"}
INVARIANTS
    TypeOK
    WholeFiles
    CompletedAgrees
PROPERTIES
    ImplementsFileCopy
    GoodCopyKept
    SessionsEnd
CHECK_DEADLOCK FALSE
