---------------------------- MODULE MCConnection ----------------------------
EXTENDS Connection, TLC

\* The homes are alike, so the one the far node starts with is given.
CONSTANT FirstHome

MCInit == ConnInit /\ far = FirstHome
MCSpec == MCInit /\ [][ConnNext]_connVars /\ ConnFairness
=============================================================================
