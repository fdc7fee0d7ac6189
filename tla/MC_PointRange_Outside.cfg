SPECIFICATION Spec
CONSTANTS
    Time <- MCTime
    MaxPoints = 6
    Stride <- MCStride
    U32 = 7
INVARIANT
    OutsideNeverMatches
