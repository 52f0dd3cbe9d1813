--------------------------- MODULE MCContentSave ---------------------------
EXTENDS ContentSave, TLC
WordSymmetry == Permutations(Mine)
=============================================================================
