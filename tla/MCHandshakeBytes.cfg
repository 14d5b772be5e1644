SPECIFICATION BytesSpec
CONSTANTS
    RADIX = 16
    W = 2
    USIZE = 65536
    MaxMore = 5
    Octets <- MCOctets
    Beginnings <- MCBeginnings
    MECH_LEN = 4
INVARIANTS
    ReadyAgrees
    HelloAgrees
    EncodersAgree
    EarlyIsFinal
    AcceptedIsEncoded
CHECK_DEADLOCK FALSE
