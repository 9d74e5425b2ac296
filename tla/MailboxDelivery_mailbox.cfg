SPECIFICATION LiveSpec
CONSTANTS
    request = request
    pump = pump
    m1 = m1
    l1 = l1
    NoWorker = NoWorker
    Ingests = {request}
    Pumps = {pump}
    Messages = {m1}
    Listeners = {l1}
    MaxAttempts = 2
    MaxReplays = 2
    MaxRevision = 3
    MaxFaults = 1
INVARIANTS
    ThreadMatchesRow
    RevokedForCause
PROPERTIES
    AppendUnderPolicy
    RowsSettle
CHECK_DEADLOCK FALSE
