SPECIFICATION FairSpec
CONSTANTS
    a = a
    b = b
    c = c
    Names = {a, b, c}
    Servers = {s1}
    None = None
    Docs <- MCDocs
    Users = {c}
    MaxOps = 2
    MaxWork = 6
CHECK_DEADLOCK FALSE
INVARIANTS
    NoLoop
    HandlesCurrent
    ServersCurrent
    InSync
PROPERTIES
    OpsEnd
