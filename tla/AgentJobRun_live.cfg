SPECIFICATION LiveSpec
CONSTANTS
    d1 = d1
    d2 = d2
    pr = pr
    msg = msg
    a1 = a1
    a2 = a2
    p1 = p1
    Drivers = {d1}
    Keys = {msg}
    Args <- MCArgs
    ArgsOf <- MCMessageOnly
    Gated = {msg}
    Reconcilable = {}
    Unsure = {msg}
    Points <- MCOnePoint
    Failures <- MCFailures
    MaxAttempts = 2
    Providers = 1
    MaxSteps = 2
    MaxCalls = 4
    MaxCrashes = 1
    MaxLapses = 0
INVARIANT
    TypeOK
PROPERTIES
    AskedBeforeStart
    CancelFinishes
    RunFinishes
