CONSTANTS
    Conns = {c1, c2}
    Devices = {d}
    Creds = {k}
    Admins = {x, y}
    None = None
    MaxDevices = 1
    MaxClients = 1
    Inputs = {"register", "agent", "client", "presence", "client-add", "client-del", "unregister", "forget", "kick-client", "kick", "disable", "client-disable"}
SPECIFICATION Spec
SYMMETRY Interchangeable
CONSTRAINTS BansMeet OneLapse
INVARIANTS TypeOK ControllerPermitted PresencePermitted NoticeCurrent
CHECK_DEADLOCK FALSE
