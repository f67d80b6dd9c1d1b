CONSTANTS
    x1 = x1
    g1 = g1
    p1 = p1
    c1 = c1
    NULL = NULL
    Grants = {g1}
    Codes = {c1, c2}
    ResourceIds = {x1, x2}
    PolicyIds = {p1, p2}
    Admins = {a1, a2}
    Seeders = {}
    Scopes = {"own", "all"}
    SeedRows <- NoSeedRows
SPECIFICATION Spec
SYMMETRY Symmetry
INVARIANTS
    TypeOK
    PolicyInv
PROPERTIES
    NoLostUpdate
