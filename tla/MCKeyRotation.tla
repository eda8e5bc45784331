--------------------------- MODULE MCKeyRotation ---------------------------
EXTENDS KeyRotation, TLC
Symmetry == Permutations(Devices) \cup Permutations(Members)
=============================================================================
