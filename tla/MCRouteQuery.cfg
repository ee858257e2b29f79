SPECIFICATION RouteFairSpec
CONSTANTS
    Keys = {k1}
    Reqs = {r1, r2}
    None = None
    BatchCount = 1
    Ttls = {1, 2, 3}
    ProtectiveTtl = 1
    VanishWait = 1
    QueryWait = 1
    Ids = {i1, i2}
    RawTtls = {0, 3}
    MaximumTtl = 2
CHECK_DEADLOCK FALSE
INVARIANTS
    MapsAgree
    TtlBounded
PROPERTIES
    ImplementsEffectiveCache
    RouteCallSettles
