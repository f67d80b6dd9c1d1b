CONSTANTS
    Users = {u1}
    NameFields = {"first_name", "middle_name"}
    Names = {n1, n2}
    Workers = {w1, w2, w3}
    NULL = NULL
SPECIFICATION Spec
SYMMETRY Symmetry
INVARIANTS
    TypeOK
    PatchIsShown
    PatchInv
PROPERTIES
    NamesAreNotLost
