SPECIFICATION LiveSpec
CONSTANTS
    server = server
    cli = cli
    e1 = e1
    Processes = {server, cli}
    Schedulers = {server}
    Events = {e1}
    Policies = {"forbid", "queue", "replace"}
    Period = 1
    Aligned = TRUE
    MaxAttempts = 1
    MaxRuns = 2
    MaxClock = 3
    MaxEdits = 1
    MaxCrashes = 1
INVARIANTS
    OneRunPerKey
    OverlapAllowed
    QueueInOrder
PROPERTIES
    MissedFiresCoalesced
    RunsEnd
CHECK_DEADLOCK FALSE
