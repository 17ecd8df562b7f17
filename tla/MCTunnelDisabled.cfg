CONSTANTS
    Conns = {c1, c2}
    Devices = {d}
    Creds = {k}
    Admins = {x}
    None = None
    MaxDevices = 1
    MaxClients = 1
    Inputs = {"agent", "client", "disable"}
SPECIFICATION Spec
SYMMETRY Interchangeable
INVARIANT DisabledKeepsOut
CHECK_DEADLOCK FALSE
