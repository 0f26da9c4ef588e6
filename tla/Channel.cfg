SPECIFICATION FairSpec
CONSTANTS
    Sizes = {2, 3, 6, 7}
    MAX_FRAME_BYTES = 6
    NOISE_MAX_PLAINTEXT = 3
    NOISE_TAG_LEN = 1
    LENGTH_PREFIX_BYTES = 2
    COMPACT_THRESHOLD = 8
    READ_BYTES = 5
    MaxEnvelopes = 3
INVARIANTS
    TypeOK
    BufferBounded
PROPERTIES
    ImplementsFifo
CHECK_DEADLOCK FALSE
