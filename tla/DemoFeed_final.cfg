SPECIFICATION Spec
CONSTANTS
    c1 = c1  c2 = c2
    SeedOrder <- MCSeedOrder
    None = None
    HistoryMax = 9
    SnapshotMax = 9
    MaxEvents = 4
    MaxSessions = 2
    MaxFaults = 1
INVARIANTS
    FinalArrivesByPolling
CHECK_DEADLOCK FALSE
