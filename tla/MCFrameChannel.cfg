SPECIFICATION FairChannelSpec
CONSTANTS
    CAP = 10
    RADIX = 9
    USIZE = 43046721
    MaxFrames = 2
    Outgoing <- MCOutgoing
INVARIANT
    RoundTrip
PROPERTY
    AllDelivered
CHECK_DEADLOCK FALSE
