------------------------------ MODULE MCShown ------------------------------
EXTENDS Shown, TLC

CONSTANTS c1, c2, k1, k2, k3

MCOwnerOf == (k1 :> c1) @@ (k2 :> c1) @@ (k3 :> c2)

\* The clients start with a grid each.
MCInit == Init /\ tracker[c1].want = {"g1"} /\ tracker[c2].want = {"g2"}
MCSpec == MCInit /\ [][Next]_vars /\ Fairness
=============================================================================
