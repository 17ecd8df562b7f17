CONSTANTS
    Runs = {r1, r2, r3}
    Tasks = {boot, t1, t2}
    Boot = boot
    Syncs = {s1}
    Ids = {i1, i2}
    Creds = {k1}
    AgentFiles = {i1}
    Inputs = {"setName", "import", "enroll", "revoke", "start",
              "stop", "break"}
    MaxRestarts = 0
    None = None
SPECIFICATION Spec
SYMMETRY Interchangeable
INVARIANTS TypeOK Held InService Silenced
PROPERTIES Supervised
CHECK_DEADLOCK FALSE
