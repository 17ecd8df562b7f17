CONSTANTS
    Hands = {h1, h2}
    Ids = {d1, d2, d3}
    Keys = {k1, k2}
    Creds = {c1}
    MaxDevices = 1
    MaxClients = 1
    MaxRate = 2
    Window = 2
    PageSize = 1
    Scan = 2
    Keep = 1
    MaxClock = 2
    MaxOps = 3
    MaxRestarts = 1
    None = None
    Unknown = Unknown
SPECIFICATION Spec
SYMMETRY Interchangeable
INVARIANTS TypeOK Promised Capped Paced PagedOnce PagedAll
CHECK_DEADLOCK FALSE
