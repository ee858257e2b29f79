SPECIFICATION FairSpec
CONSTANTS
    r1 = r1
    r2 = r2
    r3 = r3
    good = good
    bad = bad
    Reqs = {r1, r2}
    Creds <- MCCreds
    CredOf <- MCCredOf2
    Valid <- MCValid
    None = None
    MinIdle = 2
    MaxIdle = 2
    QueueSize = 1
    Word = 32
    OverflowChecks = FALSE
    MaxId = 1
    Slots = 2
    MaxEnding = 0
    MaxNotes = 0
CHECK_DEADLOCK FALSE
PROPERTIES
    KeepsTrying
    EndsAfterExit
