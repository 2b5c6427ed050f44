CONSTANTS
    MAC = {m1, m2}
    Addr = {a1}
    Version = {v1}
    CleanupAge = 1
    NoGateway = NoGateway
    Setter = {s1}
    Getter = {r1}
    Cleaner = Cleaner
    NoOne = NoOne
SPECIFICATION FairSpec
PROPERTIES
    CallsReturn
    SilentGatewayForgotten
