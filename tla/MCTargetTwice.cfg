CONSTANTS
    Loops = {l1, l2}
    Standbys = {p1, p2}
    Jobs = {j1}
    None = None
SPECIFICATION Spec
SYMMETRY Interchangeable
INVARIANT OneConnection
CHECK_DEADLOCK FALSE
