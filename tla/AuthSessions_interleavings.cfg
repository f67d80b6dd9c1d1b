CONSTANTS
    Users = {u1, u2}
    SessionIds = {s1, s2}
    Jtis = {j1, j2, j3}
    Requests = {r1, r2}
    NULL = NULL
    AccessTTL = 2
    RefreshTTL = 3
    TicksPerSecond = 2
    MaxTime = 2
SPECIFICATION Spec
SYMMETRY Symmetry
CHECK_DEADLOCK FALSE
INVARIANTS
    TypeOK
    IndInv
    TokenInv
    RefreshTokenSingleUse
    CurrentTokenIsLeaf
    DeletedAccountHasNoLiveSession
    LastLoginIsLatest
    SessionOutlivesItsTokens
PROPERTIES
    RevokedSessionIsFrozen
    CallerSessionEnds
    ImplementsPromise
