CONSTANTS
    MAC = {m1, m2}
    Addr = {a1, a2}
    Version = {v1}
    CleanupAge = 1
    NoGateway = NoGateway
    Setter = {s1, s2}
    Getter = {r1}
    Cleaner = Cleaner
    NoOne = NoOne
SYMMETRY Symmetry
SPECIFICATION Spec
INVARIANTS
    TypeOK
    SubscribedIffRegistered
    CallbacksAlternate
PROPERTIES
    CompletePassForgetsOverdue
    GetSeesWholeUpdates
    ImplementsRegistry
