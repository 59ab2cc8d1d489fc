SPECIFICATION FairSpec
CONSTANTS
    PollImmediately = TRUE
    PollAfterSend = TRUE
    Senders = {s1, s2}
    Reentrant = {"connected", "batch"}
    BatchMax = 2
    MaxGeneration = 8
    MaxDelivered = 3
    MaxErrors = 2
    None = None
INVARIANTS
    PollsNeverOverlap
    OneLoop
    SendIsPolledSoon
PROPERTIES
    ImplementsContract
    AlwaysProceeds
CHECK_DEADLOCK FALSE
