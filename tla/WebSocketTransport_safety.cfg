SPECIFICATION FairSpec
CONSTANTS
    Attempts = {a1, a2, a3}
    Reconnect = TRUE
    Reentrant = {"connecting", "schedule", "batch"}
    BatchMax = 2
    MaxGeneration = 6
    MaxDelivered = 3
    None = None
INVARIANTS
    SocketsInHand
PROPERTIES
    ImplementsContract
    AlwaysProceeds
CHECK_DEADLOCK FALSE
