---------------------------- MODULE MCSourceCache ----------------------------
EXTENDS SourceCache, TLC
GridSymmetry == Permutations(Grids)
=============================================================================
