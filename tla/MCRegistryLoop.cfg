SPECIFICATION Spec
CONSTANTS
    a = a
    b = b
    c = c
    Names = {a, b, c}
    Servers = {s1}
    None = None
    Docs <- MCSwap
    Users = {c}
    MaxOps = 1
    MaxWork = 6
CHECK_DEADLOCK FALSE
INVARIANTS
    LoopsRefused
