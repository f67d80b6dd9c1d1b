CONSTANTS
    Users = {u1, u2}
    Roles = {user, admin, extra}
    OtherCodes = {c1, c2}
    DefaultRole = user
    AdminRole = admin
    AssignmentIds = {a1, a2, a3}
    Workers = {w1, w2}
    NULL = NULL
SPECIFICATION RacesSpec
SYMMETRY Symmetry
INVARIANTS
    TypeOK
    RoleInv
    EveryAccountWasEnrolled
PROPERTIES
    AssignedWhileUsable
    RevokedAssignmentIsFrozen
    ImplementsCatalogue
