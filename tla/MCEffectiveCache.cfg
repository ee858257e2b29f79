SPECIFICATION FairSpec
CONSTANTS
    Keys = {k1, k2}
    Reqs = {r1, r2}
    None = None
    BatchCount = 2
    Ttls = {1}
    ProtectiveTtl = 1
    VanishWait = 1
    QueryWait = 1
CHECK_DEADLOCK FALSE
INVARIANTS
    TimersTrack
    InFlightOnce
    NoLostCall
    WaitOnlyUncached
PROPERTIES
    RecordKept
    ImplementsSingleFlight
    EveryCallSettles
    TasksEnd
