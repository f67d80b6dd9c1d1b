-------------------------- MODULE MCAccessPolicies --------------------------
EXTENDS AccessPolicies, TLC

CONSTANTS x1, g1, p1, c1

\* Without a command no row and no code is named.
Symmetry == Permutations(Admins) \cup Permutations(ResourceIds)
              \cup Permutations(PolicyIds) \cup Permutations(Codes)

\* No command: the tables start empty.
NoSeedRows == [i \in {} |-> NULL]

\* profiles, read by their owners
MCSeedRows ==
    x1 :> [code |-> c1, has_owner |-> TRUE, is_active |-> TRUE]
      @@ p1 :> [grant |-> g1, resource |-> x1, scope |-> "own", is_active |-> TRUE]
=============================================================================
