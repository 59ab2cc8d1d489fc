SPECIFICATION Spec
CONSTANTS
    m1 = m1  m2 = m2  e1 = e1  p1 = p1
    EchoOf <- MCEchoOf
    Original = "v0"
    None = None
    Own = {m1, m2}
    Remote = {e1, p1}
    Contents = {"v0", "v1"}
    Storage = "none"
    Handlers = {h1}
    Editors = {o1}
    EditPending = TRUE
    IndexMax = 2
    NonceMax = 1
    PageMax = 1
    MaxRestarts = 1
    MaxFaults = 1
    MaxEdits = 1
    MaxSeen = 2
INVARIANTS
    ReceivedAtMostOnce
CHECK_DEADLOCK FALSE
