SPECIFICATION FairSpec
CONSTANTS
    Procs = {p1, p2, p3}
    First = p1
    None = None
    MaxRequests = 1
    MaxCrashes = 1
CHECK_DEADLOCK FALSE
INVARIANTS
    NoOutage
    ControllerReachable
    OneServes
PROPERTIES
    StartSettles
    OldDrains
