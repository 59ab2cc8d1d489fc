SPECIFICATION BridgeSpec
CONSTANTS
    BridgeStreams = {r1}
    BridgeRooms = {c1}
    MaxChunks = 2
    MaxBreaks = 1
    MaxViews = 1
INVARIANTS
    ChunksReachPage
CHECK_DEADLOCK FALSE
