------------------------- MODULE MCResumableUpload -------------------------
EXTENDS ResumableUpload, TLC

Symmetry == Permutations(Rows)
=============================================================================
