CONSTANTS
    Conns = {c1, c2}
    Devices = {d}
    Creds = {k}
    Admins = {}
    None = None
    MaxDevices = 1
    MaxClients = 1
    Inputs = {"agent", "client"}
    MaxDials <- ControllerTwice
    MaxReqs = 2
SPECIFICATION SessionSpec
SYMMETRY ConnSymmetry
INVARIANTS SessionTypeOK AgreeInTurn WindowsOpen
PROPERTY CallsHold
CHECK_DEADLOCK FALSE
