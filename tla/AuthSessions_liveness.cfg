CONSTANTS
    Users = {u1}
    SessionIds = {s1, s2}
    Jtis = {j1, j2}
    Requests = {r1, r2}
    NULL = NULL
    AccessTTL = 1
    RefreshTTL = 1
    TicksPerSecond = 1
    MaxTime = 1
SPECIFICATION FairSpec

CHECK_DEADLOCK FALSE
PROPERTIES
    RequestsFinish
