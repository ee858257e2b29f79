SPECIFICATION Spec
CONSTANTS
    Keys = {k1}
    Reqs = {r1}
    None = None
    BatchCount = 1
    Ttls = {1}
    ProtectiveTtl = 1
    VanishWait = 1
    QueryWait = 1
CHECK_DEADLOCK FALSE
INVARIANTS
    SendReqNeverFails
