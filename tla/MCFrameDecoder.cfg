SPECIFICATION FairSpec
CONSTANTS
    CAP = 3
    RADIX = 9
    USIZE = 43046721
    Wires <- MCWires
INVARIANTS
    TypeOK
    ChunkingInvisible
    PoisonedByInvalid
    FrameFaithful
    OversizeRejected
    NoneConsumesAll
PROPERTY
    StreamIsDrained
