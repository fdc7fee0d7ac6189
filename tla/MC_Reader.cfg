SPECIFICATION ReaderFairSpec
CONSTANTS
    MaxLevel = 2
    Edge <- MCEdge
    RootMin <- MCRootMin
    Page <- MCPage
    RootPage = 0
    RootSize = 5
    Wire <- MCWire
    Anchor <- MCAnchor
    Box <- MCQueryBox
    LevelLimit <- MCQueryLimit
    U64 = 1000
    SourceSize = 100
    Size5 = 2
    Points <- MCPoints
    QueryBox <- MCQueryBox
    QueryLimit <- MCQueryLimit
INVARIANTS
    ReaderTypeOK
    OpenReaderHasRoot
    QueryReturnsChunks
    QueryReturnsPoints
PROPERTIES
    MethodReturns
