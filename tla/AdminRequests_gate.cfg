CONSTANTS
    r1 = r1
    Users = {u1}
    Roles = {r1, r2}
    Actions = {"create", "manage"}
    Workers = {w1}
    NULL = NULL
    Required <- MCRequired
SPECIFICATION Spec
CONSTRAINT OneRoleCreates
INVARIANTS
    GateInv
    ScopeIsJustified
PROPERTIES
    HolderIsNotDenied
    WithdrawalNeverGrants
    ExtensionNeverDenies
