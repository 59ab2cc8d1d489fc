SPECIFICATION Spec
CONSTANTS
    m1 = m1  m2 = m2  e1 = e1  p1 = p1
    EchoOf <- MCEchoOf
    Original = "v0"
    None = None
    Own = {m1}
    Remote = {e1, p1}
    Contents = {"v0", "v1"}
    Storage = "indexeddb"
    Handlers = {h1, h2}
    Editors = {o1}
    EditPending = FALSE
    IndexMax = 3
    NonceMax = 1
    PageMax = 1
    MaxRestarts = 1
    MaxFaults = 1
    MaxEdits = 1
    MaxSeen = 2
INVARIANTS
    ReservationExclusive
    EchoSuppressed
    NoInboundSwallowed
    StoreKeepsWhatWasSaid
PROPERTIES
    OncePerSession
SYMMETRY MCSymmetry
CHECK_DEADLOCK FALSE
