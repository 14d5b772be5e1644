SPECIFICATION Spec
CONSTANTS
    CAP = 3
    RADIX = 9
    USIZE = 6561
    Wires <- MCWires
INVARIANT
    OversizeRejected
