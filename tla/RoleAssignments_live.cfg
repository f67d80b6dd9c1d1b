CONSTANTS
    Users = {u1, u2}
    Roles = {user, admin}
    OtherCodes = {}
    DefaultRole = user
    AdminRole = admin
    AssignmentIds = {a1, a2, a3, a4}
    Workers = {w1, w2}
    NULL = NULL
SPECIFICATION AdministratorsSpec
PROPERTIES
    RequestsFinish
