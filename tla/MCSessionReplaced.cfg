CONSTANTS
    Conns = {c1, c2, c3}
    Devices = {d}
    Creds = {k}
    Admins = {}
    None = None
    MaxDevices = 1
    MaxClients = 1
    Inputs = {"agent", "client"}
    MaxDials <- ControllerTwice
    MaxReqs = 0
SPECIFICATION SessionSpec
SYMMETRY ConnSymmetry
INVARIANT AgreeAlways
CHECK_DEADLOCK FALSE
