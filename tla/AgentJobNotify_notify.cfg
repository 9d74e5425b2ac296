SPECIFICATION LiveSpec
CONSTANTS
    p1 = p1
    p2 = p2
    Passes <- MCPasses
    Claimants <- MCPasses
    Channels = {"thread", "whatsapp", "email", "webhook"}
    ThrowsAfter = {"rejected", "lost"}
    MaxAttempts = 2
    MaxFaults = 2
    MaxRequests = 2
INVARIANTS
    WhatsAppOnce
    MailedAgainForCause
    ClaimsBounded
    DeliveredReached
    EnqueuedOnce
PROPERTIES
    SettledStays
    NotificationSettles
CHECK_DEADLOCK FALSE
