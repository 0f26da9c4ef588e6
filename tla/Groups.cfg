SPECIFICATION Spec
CONSTANTS
    Nodes = {"a", "b", "c"}
    Texts = {1, 2}
    Sender <- AllButLast
    None = None
    Faults = {"break", "expire"}
    MaxSpent = 2
INVARIANTS
    TypeOK
    NoCopyForgotten
    PreviewTruthful
CHECK_DEADLOCK FALSE
