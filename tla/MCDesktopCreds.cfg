CONSTANTS
    Runs = {r1, r2}
    Tasks = {boot, t1}
    Boot = boot
    Syncs = {s1, s2}
    Ids = {i1}
    Creds = {k1}
    AgentFiles = {i1}
    Inputs = {"invite", "remove", "forget", "break", "controller", "ban"}
    MaxRestarts = 1
    None = None
SPECIFICATION Spec
SYMMETRY Interchangeable
INVARIANTS SyncedTrue NoOrphans ShownTrue
CHECK_DEADLOCK FALSE
