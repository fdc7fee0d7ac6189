SPECIFICATION Spec
CONSTANTS
    MaxLevel = 2
    Edge <- MCEdge
    RootMin <- MCRootMin
    Page <- MCPage
    RootPage = 0
    RootSize = 5
    Wire <- MCWire
    Anchor <- MCAnchor
    Box <- MCBox
    LevelLimit <- MCLevelLimit
    U64 = 1000
    SourceSize = 100
    Size5 <- Negative
INVARIANT
    NegativeEntriesSkipped
