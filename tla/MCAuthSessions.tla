--------------------------- MODULE MCAuthSessions ---------------------------
EXTENDS AuthSessions, TLC
Symmetry == Permutations(Users) \cup Permutations(SessionIds)
              \cup Permutations(Jtis) \cup Permutations(Requests)
=============================================================================
