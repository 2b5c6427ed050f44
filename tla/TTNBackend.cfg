SPECIFICATION Spec
CONSTANTS
    MAC = {g1}
    Publisher = {p1}
    BufferSize = 1
    MaxSub = 2
    MaxRecv = 2
INVARIANTS
    TTNInv
    PublishSafeInService
    SubscriptionFollowsRegistry
    CurrentStreamServed
