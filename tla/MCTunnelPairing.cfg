CONSTANTS
    Conns = {c1, c2, c3}
    Devices = {d}
    Creds = {k}
    Admins = {}
    None = None
    MaxDevices = 1
    MaxClients = 1
    Inputs = {"agent", "client"}
SPECIFICATION FairSpec
INVARIANTS NoGhost Exclusive Introduced
PROPERTIES OwnEntryOnly ClosedLeaves
CHECK_DEADLOCK FALSE
