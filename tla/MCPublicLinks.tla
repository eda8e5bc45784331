--------------------------- MODULE MCPublicLinks ----------------------------
EXTENDS PublicLinks, TLC
Symmetric == Permutations(Submissions) \cup Permutations(Calls)
=============================================================================
