SPECIFICATION Spec
CONSTANTS
    m1 = m1  m2 = m2  e1 = e1  p1 = p1
    EchoOf <- MCEchoOf
    Original = "v0"
    None = None
    Own = {m1}
    Remote = {}
    Contents = {"v0", "v1"}
    Storage = "memory"
    Handlers = {}
    Editors = {o1}
    EditPending = TRUE
    IndexMax = 3
    NonceMax = 1
    PageMax = 3
    MaxRestarts = 1
    MaxFaults = 1
    MaxEdits = 1
    MaxSeen = 2
INVARIANTS
    SentStatusDurable
CHECK_DEADLOCK FALSE
