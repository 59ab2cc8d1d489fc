SPECIFICATION FairSpec
CONSTANTS
    m1 = m1  m2 = m2  e1 = e1  p1 = p1
    EchoOf <- MCEchoOf
    Original = "v0"
    None = None
    Own = {m1}
    Remote = {e1, p1}
    Contents = {"v0"}
    Storage = "memory"
    Handlers = {h1, h2}
    Editors = {}
    EditPending = FALSE
    IndexMax = 3
    NonceMax = 1
    PageMax = 3
    MaxRestarts = 1
    MaxFaults = 1
    MaxEdits = 0
    MaxSeen = 1
PROPERTIES
    CallsSettle
CHECK_DEADLOCK FALSE
