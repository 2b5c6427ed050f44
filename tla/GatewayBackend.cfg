CONSTANTS
    m1 = m1
    v1 = v1
    v2 = v2
    MAC = {m1}
    Addr = {a1, a2}
    Version = {v1, v2}
    BadVersion = v0
    CleanupAge = 1
    NoGateway = NoGateway
    Goroutine = {h1, h2}
    Datagram <- Datagrams
    Tx = Tx
    MaxSend = 1
SYMMETRY Symmetry
CHECK_DEADLOCK FALSE
SPECIFICATION Spec
INVARIANTS
    TypeOK
    PullRespToAnnounced
    AcksAnswerRequests
    UplinksAreGoodPrefix
PROPERTIES
    ShutdownIsNotFatal
    CloseWaitsForLoops
