------------------------------ MODULE MCWatch ------------------------------
EXTENDS Watch, TLC
Symmetry == Permutations(Viewers) \cup Permutations(Grids) \cup Permutations(Listings)
=============================================================================
