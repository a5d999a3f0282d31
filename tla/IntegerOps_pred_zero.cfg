CONSTANTS
    P = 139
    U128Bits = 4
    ComparedBitSizes <- MC_None
    SignedComparedBitSizes <- MC_None
    ReleaseBuilds = {TRUE}
    SignedBitSizes <- MC_None
    UnsignedBitSizes <- MC_UnsignedBitSizes
    TruncateBitSizes <- MC_None
    BoundBitSizes <- MC_None
    BoundOffsets <- MC_None
    RhsOutOfRange = FALSE
    BitwiseBitSizes <- MC_None
    Radices <- MC_None
    LimbCounts <- MC_None
SPECIFICATION Spec
INVARIANTS
    PredicateZeroYieldsZero
CHECK_DEADLOCK FALSE
