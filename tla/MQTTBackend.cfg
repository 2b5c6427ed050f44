SPECIFICATION FairSpec
CONSTANTS
    MAC = {g1, g2}
    Depth = 1
    MaxConn = 2
    MaxCall = 2
    MaxMsg = 4
CHECK_DEADLOCK FALSE
INVARIANTS
    MQTTInv
PROPERTIES
    CallReturnsUnlessStuck
