SPECIFICATION FairSpec
CONSTANTS
    SUB_CAP = 2
    PREFIX_CAP = 2
    CTX_CAP = 1
    RX_CAP = 5
    RX_RING = 4
    TX_RING = 6
    Accepted = {}
    Streams <- AllStreams
    Valid <- ValidUnits
INVARIANTS
    NothingLost
    PongPerPing
    OutputWellFormed
PROPERTY
    GetsThrough
CHECK_DEADLOCK FALSE
