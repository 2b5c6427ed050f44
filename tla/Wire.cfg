CONSTANTS
    JSON <- ThreeJSON
    Payload <- TwoPayloads
    NoPayload = "none"
    jsonUnmarshal <- Unmarshal
    jsonMarshal <- Marshal
    EUI64 <- TwoEUI64
    Token <- EdgeTokens
    DamageTo <- EdgeBytes
    Wrap = 8
    Tick = {0, 1, 6, 7}
    Delay = {1, 2}
    BitRate = {1, 50000, 131071}
    SpreadFactor = {6, 7, 12, 17}
    Bandwidth = {25, 125, 500, 1250, 5000000}
CHECK_DEADLOCK FALSE
SPECIFICATION CSpec
INVARIANTS
    RoundTrip
    OneReading
    CutIsNoticed
    AckRepeatsHeader
    EchoKeepsDataRate
    SaysWhenUnlessZero
