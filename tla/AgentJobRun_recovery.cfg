SPECIFICATION Spec
CONSTANTS
    d1 = d1
    d2 = d2
    pr = pr
    msg = msg
    a1 = a1
    a2 = a2
    p1 = p1
    Drivers <- MCDrivers
    Keys <- MCKeys
    Args <- MCArgs
    ArgsOf <- MCTwoArgs
    Gated = {msg}
    Reconcilable = {pr}
    Unsure = {msg}
    Points <- MCOnePoint
    Failures <- MCProviderFails
    MaxAttempts = 2
    Providers = 2
    MaxSteps = 2
    MaxCalls = 3
    MaxCrashes = 1
    MaxLapses = 0
SYMMETRY DriverSymmetry
INVARIANTS
    NoSilentRepeat
    ApprovalBindsArgs
    BoundedAttempts
    OneDriver
    SealedIsFinal
PROPERTIES
    KeepsPromise
