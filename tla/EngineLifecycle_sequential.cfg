SPECIFICATION FairSpec
CONSTANTS
    p1 = p1
    p2 = p2
    Configured <- MCConfigured
    Late = {q}
    MaxCalls = 4
    MaxDrops = 2
    Overlap = FALSE
INVARIANTS
    EngineMirrorsTransport
    StoppedIsClosed
    StoppedIsUninstalled
PROPERTIES
    CallsSettle
CHECK_DEADLOCK FALSE
