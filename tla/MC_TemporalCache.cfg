SPECIFICATION FairSpec
CONSTANTS
    EvlrLists <- MCEvlrLists
    Key = {0, 1, 2, 3, 4, 5}
    Page <- MCPage
    RootPage = 0
    Wire <- MCWire
    Cuts <- MCCuts
    Span <- MCSpan
    Window <- MCWindow
INVARIANTS
    TypeOK
    HeaderOfFirstIndex
    PagesAccounted
    FoundOrLost
    RootReloadRepairs
    SameAsSequential
PROPERTIES
    OthersStayPending
    CallReturns
