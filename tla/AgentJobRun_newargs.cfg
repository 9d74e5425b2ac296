SPECIFICATION Spec
CONSTANTS
    d1 = d1
    d2 = d2
    pr = pr
    msg = msg
    a1 = a1
    a2 = a2
    p1 = p1
    Drivers = {d1}
    Keys = {msg}
    Args <- MCArgs
    ArgsOf <- MCMessageTwoArgs
    Gated = {}
    Reconcilable = {}
    Unsure = {}
    Points <- MCOnePoint
    Failures <- MCNoFailures
    MaxAttempts = 2
    Providers = 1
    MaxSteps = 1
    MaxCalls = 2
    MaxCrashes = 1
    MaxLapses = 0
INVARIANT
    NeverRepeatedUnasked
