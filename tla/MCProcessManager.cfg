CONSTANTS
    Child = {1, 2, 3}
    Post = {r1, r2}
    Config = {k}
    None = None
    MayCrash = TRUE
SPECIFICATION FairSpec
INVARIANTS
    TypeOK
    StatusTruth
    SignalsHitOwn
PROPERTIES
    StopReturns
    StopEnds
    OneAtATime
