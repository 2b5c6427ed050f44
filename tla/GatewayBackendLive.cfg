CONSTANTS
    m1 = m1
    v1 = v1
    v2 = v2
    MAC = {m1}
    Addr = {a1}
    Version = {v1}
    BadVersion = v0
    CleanupAge = 1
    NoGateway = NoGateway
    Goroutine = {h1, h2}
    Datagram <- FewDatagrams
    Tx = Tx
    MaxSend = 1
CHECK_DEADLOCK FALSE
SPECIFICATION FairSpec
PROPERTIES
    DatagramsHandled
    SendAndCloseReturn
