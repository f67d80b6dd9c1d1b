CONSTANTS
    x1 = x1
    g1 = g1
    p1 = p1
    c1 = c1
    NULL = NULL
    Grants = {g1}
    Codes = {c1}
    ResourceIds = {x1}
    PolicyIds = {p1}
    Admins = {a1, a2}
    Seeders = {}
    Scopes = {"own", "all"}
    SeedRows <- NoSeedRows
SPECIFICATION Spec
SYMMETRY Symmetry
INVARIANTS
    OwnPolicyNeedsOwner
