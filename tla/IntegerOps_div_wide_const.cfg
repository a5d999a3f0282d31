CONSTANTS
    P = 101
    U128Bits = 4
    ComparedBitSizes <- MC_None
    SignedComparedBitSizes <- MC_None
    ReleaseBuilds = {TRUE}
    SignedBitSizes <- MC_None
    UnsignedBitSizes <- MC_U128BitSizes
    TruncateBitSizes <- MC_None
    BoundBitSizes <- MC_None
    BoundOffsets <- MC_None
    RhsOutOfRange = FALSE
    BitwiseBitSizes <- MC_None
    Radices <- MC_None
    LimbCounts <- MC_None
SPECIFICATION Spec
INVARIANTS
    EuclideanDivisionCorrect
CHECK_DEADLOCK FALSE
