-------------------------- MODULE MCInflightReads --------------------------
EXTENDS InflightReads, TLC
FetchSymmetry == Permutations(Fetches)
=============================================================================
