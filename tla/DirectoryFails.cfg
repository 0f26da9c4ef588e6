SPECIFICATION Spec
CONSTANTS
    Tokens = {2}
    Files = {"f"}
    Dirs = {"d"}
    Manifest <- Tree
    Size <- Two
    MaxVersion = 1
    MaxWire = 2
    NoFile = NoFile
    Faults = {}
INVARIANT FailedIsNotComplete
CHECK_DEADLOCK FALSE
