SPECIFICATION BytesSpec
CONSTANTS
    RADIX = 16
    W = 2
    USIZE = 256
    MaxMore = 5
    Octets <- MCOctets
    Beginnings <- MCBeginnings
    MECH_LEN = 4
INVARIANT
    NeverPanics
CHECK_DEADLOCK FALSE
