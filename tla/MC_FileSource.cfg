SPECIFICATION FairSpec
CONSTANTS
    Task = {t1, t2}
    Batch <- MCBatch
    FileSize = 3
    Content <- MCContent
    Byte <- MCByte
    MaxAlloc = 4
    MaxSeek = 8
    MaxCalls = 2
CHECK_DEADLOCK FALSE
INVARIANTS
    TypeOK
    CursorIsMine
PROPERTIES
    BatchReturns
    ImplementsByteSource
