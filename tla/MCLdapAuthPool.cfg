SPECIFICATION Spec
CONSTANTS
    r1 = r1
    r2 = r2
    r3 = r3
    good = good
    bad = bad
    Reqs = {r1, r2}
    Creds <- MCCreds
    CredOf <- MCCredOf2
    Valid <- MCValid
    None = None
    MinIdle = 1
    MaxIdle = 2
    QueueSize = 1
    Word = 32
    OverflowChecks = TRUE
    MaxId = 2
    Slots = 3
    MaxEnding = 0
    MaxNotes = 1
CHECK_DEADLOCK FALSE
INVARIANTS
    IdleWithinMax
    SuccessIsVerified
    RetriedOnce
