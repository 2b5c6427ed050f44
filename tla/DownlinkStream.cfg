CONSTANTS
    BufferSize = 2
    MaxRecv = 4
CHECK_DEADLOCK FALSE
SPECIFICATION FairSpec
INVARIANTS
    DownlinkInv
    CloseEndsSession
PROPERTIES
    ImplementsQueue
    CloseReturns
    CanceledStreamEnds
