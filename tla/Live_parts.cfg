SPECIFICATION LiveSpec
CONSTANTS
    p1 = p1
    Configured <- MCConfigured
    Late = {}
    MaxCalls = 6
    MaxDrops = 1
    Overlap = TRUE
    MaxMounts = 3
    Limit = 2
    MaxPages = 2
    SeenMax = 4
    MaxRoom = 7
    MaxFaults = 1
    MaxConnects = 3
    Sockets = {s1, s2}
    MaxPublished = 2
    MaxBreaks = 2
INVARIANTS
    ConnectedAsMounted
    NoGapNoRepeat
    ReceivesAPrefix
    ClosedIsQuiet
PROPERTIES
    NewMessagesArrive
    EventsReachSockets
CHECK_DEADLOCK FALSE
