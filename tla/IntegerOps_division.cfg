CONSTANTS
    P = 139
    U128Bits = 4
    UnsignedBitSizes <- MC_UnsignedBitSizes
    ComparedBitSizes <- MC_UnsignedBitSizes
    SignedComparedBitSizes <- MC_UnsignedBitSizes
    ReleaseBuilds = {TRUE}
    SignedBitSizes <- MC_UnsignedBitSizes
    TruncateBitSizes <- MC_TruncateBitSizesBelowEdge
    BoundBitSizes <- MC_BoundBitSizes
    BoundOffsets <- MC_BoundOffsets
    RhsOutOfRange = FALSE
    BitwiseBitSizes <- MC_UnsignedBitSizes
    Radices <- MC_Radices
    LimbCounts <- MC_LimbCounts
SPECIFICATION Spec
INVARIANTS
    TypeOK
    EuclideanDivisionCorrect
    PredicateZeroNeverFails
    SignedDivisionCorrect
    BoundConstraintCorrect
    TruncateCorrect
    ComparisonCorrect
    NoCompilerPanic
    BitwiseCorrect
    DecompositionCorrect
CHECK_DEADLOCK FALSE
