SPECIFICATION Spec
CONSTANTS
    p1 = p1
    p2 = p2
    Passes <- MCPasses
    Claimants <- MCPasses
    Channels = {"email"}
    ThrowsAfter = {"rejected", "lost"}
    MaxAttempts = 2
    MaxFaults = 0
    MaxRequests = 2
INVARIANT
    MailedOnce
CHECK_DEADLOCK FALSE
