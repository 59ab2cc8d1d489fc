SPECIFICATION FairSpec
CONSTANTS
    c1 = c1  c2 = c2
    SeedOrder <- MCSeedOrder
    None = None
    HistoryMax = 2
    SnapshotMax = 1
    MaxEvents = 4
    MaxSessions = 2
    MaxFaults = 1
INVARIANTS
    NothingSkipped
PROPERTIES
    MessagesArrive
CHECK_DEADLOCK FALSE
