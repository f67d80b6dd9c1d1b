CONSTANTS
    Users = {u1, u2}
    OrderIds = {o1, o2}
    ProductIds = {p1, p2}
    DemoIds = {p1}
    Workers = {w1, w2}
    NULL = NULL
SPECIFICATION Spec
SYMMETRY Symmetry
INVARIANTS
    TypeOK
    ReadsAreCurrent
    ListMatchesDetail
PROPERTIES
    AccessIsEntitled
    ObjectsAreNotRevived
