------------------------- MODULE MCBusinessObjects -------------------------
EXTENDS BusinessObjects, TLC
Symmetry == Permutations(Users) \cup Permutations(Workers)
=============================================================================
