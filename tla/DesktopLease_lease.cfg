SPECIFICATION Spec
CONSTANTS
    a = a
    b = b
    p = p
    q = q
    desk = desk
    Procs <- MCProcs
    Threads <- MCThreads
    Desks <- MCDesks
    Term = 2
    StaleAfter = 1
    MaxOps = 3
    MaxClock = 2
    MaxCrashes = 1
    MaxFaults = 1
SYMMETRY Alike
INVARIANTS
    GrantsKept
    CrashNeverShuts
PROPERTIES
    ActionsFenced
    TakenForCause
CHECK_DEADLOCK FALSE
