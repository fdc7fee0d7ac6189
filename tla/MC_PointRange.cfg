SPECIFICATION Spec
CONSTANTS
    Time <- MCTime
    MaxPoints = 6
    Stride <- MCStride
    U32 = 7
INVARIANTS
    TypeOK
    RangeInChunk
    SkippedNodesMatchNothing
    MissesWithinOneStride
