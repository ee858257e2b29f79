SPECIFICATION FairSpec
CONSTANTS
    Reqs = {r1, r2, r3, r4}
    None = None
    MaxRequests = 3
CHECK_DEADLOCK FALSE
INVARIANTS
    OwnResponse
    WaitingIsHeld
    ClosesGracefully
    TimeoutNotEarly
PROPERTIES
    WaitsOnlyForServer
