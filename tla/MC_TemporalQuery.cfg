SPECIFICATION QueryFairSpec
CONSTANTS
    MaxLevel = 1
    Edge <- MCEdge
    RootMin <- MCRootMin
    Page <- MCPage
    RootPage = 0
    RootSize = 5
    Wire <- MCWire
    Anchor <- MCAnchor
    Box <- MCBox
    LevelLimit = {}
    U64 = 1000
    SourceSize = 100
    U32 = 100
    Chunk <- MCChunk
    Entry <- MCEntry
    TPage <- MCTPage
    TRootPage = 0
    TWire <- MCTWire
    Span <- MCSpan
    EvlrLists <- MCEvlrLists
    Cuts <- MCCuts
    Window <- MCWindow
INVARIANTS
    QueryTypeOK
    FetchIsSafe
    RangesOfTheirChunks
    ChunksFound
    PointsFound
PROPERTIES
    QueryReturns
