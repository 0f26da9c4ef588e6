SPECIFICATION Spec
CONSTANTS
    Tokens = {1, 2}
    Files = {"f"}
    Dirs = {}
    Manifest <- OneFile
    Size <- Two
    MaxVersion = 1
    MaxWire = 2
    NoFile = NoFile
    Faults = {"overlap"}
INVARIANT WholeFiles
CHECK_DEADLOCK FALSE
