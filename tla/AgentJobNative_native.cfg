SPECIFICATION LiveSpec
CONSTANTS
    p1 = p1
    none = none
    send = send
    Processes <- MCProcesses
    NoProcess = none
    Keys <- MCKeys
    Args <- MCKeys
    MaxAttempts = 2
    MaxCalls = 2
    MaxFaults = 1
INVARIANTS
    RepeatedByPerson
    CallsAccountedFor
PROPERTIES
    CancelEnds
CHECK_DEADLOCK FALSE
