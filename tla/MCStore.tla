------------------------------ MODULE MCStore ------------------------------
EXTENDS Store, TLC
Sym == Permutations(Blobs)
=============================================================================
