SPECIFICATION Spec
CONSTANTS
    d1 = d1
    d2 = d2
    pr = pr
    msg = msg
    a1 = a1
    a2 = a2
    p1 = p1
    Drivers <- MCDrivers
    Keys = {msg}
    Args <- MCArgs
    ArgsOf <- MCMessageOnly
    Gated = {msg}
    Reconcilable = {}
    Unsure = {}
    Points <- MCOnePoint
    Failures <- MCNoFailures
    MaxAttempts = 2
    Providers = 1
    MaxSteps = 1
    MaxCalls = 3
    MaxCrashes = 0
    MaxLapses = 1
SYMMETRY DriverSymmetry
INVARIANTS
    ApprovalSingleUse
    NoEffectAfterCancel
    FinishAnnouncedOnce
