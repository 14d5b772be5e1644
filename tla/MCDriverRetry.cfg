SPECIFICATION EitherSpec
CONSTANTS
    SUB_CAP = 2
    PREFIX_CAP = 2
    CTX_CAP = 1
    GROUP_CAP = 2
    NAME_CAP = 1
    RX_CAP = 6
    MaxOut = 4
    MaxWork = 30
    READS_FAIL = TRUE
    WRITES_FAIL = TRUE
    Retries <- RetryAll
    Accepted <- MCAccepted
    Topics <- MCTopics
    Groups <- MCGroups
    Streams <- ValidStreams
    RadioStreams = {}
    Valid <- ValidUnits
INVARIANT
    OneEntryPerSubscribe
CHECK_DEADLOCK FALSE
