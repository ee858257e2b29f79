SPECIFICATION ReadingSpec
CONSTANTS
    Reqs = {r1, r2}
    None = None
    MaxRequests = 2
CHECK_DEADLOCK FALSE
PROPERTIES
    EveryRequestSettles
