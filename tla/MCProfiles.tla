----------------------------- MODULE MCProfiles -----------------------------
EXTENDS Profiles, TLC
Symmetry == Permutations(Workers) \cup Permutations(Names)
=============================================================================
