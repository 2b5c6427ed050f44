CONSTANTS
    BufferSize = 2
    MaxSend = 4
CHECK_DEADLOCK FALSE
SPECIFICATION FairSpec
INVARIANTS
    UplinkInv
PROPERTIES
    ImplementsQueue
    ClosedStreamEnds
