SPECIFICATION FairSpec
CONSTANTS
    MAC = {g1}
    Publisher = {}
    BufferSize = 1
    MaxSub = 2
    MaxRecv = 2
PROPERTIES
    CallbacksAndDownlinksProceed
