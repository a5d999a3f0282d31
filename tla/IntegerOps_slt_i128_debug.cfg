CONSTANTS
    P = 139
    U128Bits = 4
    UnsignedBitSizes <- MC_None
    ComparedBitSizes <- MC_None
    SignedComparedBitSizes <- MC_U128BitSizes
    ReleaseBuilds = {FALSE}
    SignedBitSizes <- MC_None
    TruncateBitSizes <- MC_None
    BoundBitSizes <- MC_None
    BoundOffsets <- MC_None
    RhsOutOfRange = FALSE
    BitwiseBitSizes <- MC_None
    Radices <- MC_None
    LimbCounts <- MC_None
SPECIFICATION Spec
INVARIANTS
    NoCompilerPanic
CHECK_DEADLOCK FALSE
