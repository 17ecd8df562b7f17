CONSTANTS
    Loops = {l1, l2}
    Standbys = {p1, p2}
    Jobs = {j1, j2}
    None = None
SPECIFICATION FairSpec
CONSTRAINTS ThreeAtWork RequestsMeet WritesAlone
INVARIANTS TypeOK NeverDead NobodyForgotten Honest
PROPERTIES RequestsSettle SilenceFound
CHECK_DEADLOCK FALSE
