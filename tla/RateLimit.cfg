CONSTANTS
    Publisher = {p1, p2}
    Limit = 1
    Scale = 100
    MaxBurst = 6
SPECIFICATION FairSpec
INVARIANTS
    RateInv
PROPERTIES
    QuietGatewayReadmitted
