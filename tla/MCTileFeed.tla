---------------------------- MODULE MCTileFeed ----------------------------
EXTENDS TileFeed, TLC
CONSTANTS near, far, near1, near2, far1
MCGridOf == near1 :> near @@ near2 :> near @@ far1 :> far
\* Nothing tells the two places of one grid apart.
PlaceSymmetry == Permutations({near1, near2}) \cup Permutations(Moves)
=============================================================================
