CONSTANTS
    Users = {u1}
    SessionIds = {s1, s2}
    Jtis = {j1, j2}
    Requests = {r1, r2}
    NULL = NULL
    AccessTTL = 2
    RefreshTTL = 2
    TicksPerSecond = 2
    MaxTime = 1
SPECIFICATION Spec

CHECK_DEADLOCK FALSE
INVARIANTS
    LogoutAllIsNotRefused
