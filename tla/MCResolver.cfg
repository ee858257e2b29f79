SPECIFICATION FairSpec
CONSTANTS
    Keys = {k1}
    Reqs = {r1, r2, r3}
    None = None
    BatchCount = 1
    RawTtls = {1, 3}
    MinTtl = 1
    MaxTtl = 1
    NegativeTtl = 1
    MaxUpdates = 1
CHECK_DEADLOCK FALSE
INVARIANTS
    ExpiryMatches
    OneQueryPerKey
    CacheOrTrash
    NoLostWakeup
PROPERTIES
    StaleBeforeFailure
    ImplementsSingleFlight
    EveryQuerySettles
    ThreadStops
