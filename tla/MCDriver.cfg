SPECIFICATION EitherFairSpec
CONSTANTS
    SUB_CAP = 2
    PREFIX_CAP = 2
    CTX_CAP = 1
    GROUP_CAP = 2
    NAME_CAP = 1
    RX_CAP = 6
    MaxOut = 6
    MaxWork = 30
    READS_FAIL = TRUE
    WRITES_FAIL = TRUE
    Retries <- RetryRead
    Accepted <- MCAccepted
    Topics <- MCTopics
    Groups <- MCGroups
    Streams <- AllStreams
    RadioStreams <- AllRadio
    Valid <- ValidUnits
INVARIANTS
    ExactlyOnce
    PongPerPing
    BlockedOwesNothing
    OutputWellFormed
PROPERTIES
    PublishedWanted
    GetsThrough
CHECK_DEADLOCK FALSE
