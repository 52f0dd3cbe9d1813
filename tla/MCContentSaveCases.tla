------------------------- MODULE MCContentSaveCases -------------------------
EXTENDS MCContentSave

\* Two cases in one run, each small: the user types two words and erases them
\* with nobody else writing and no call lost, or types one with others writing.
VARIABLE case

CaseInit == Init /\ case \in {"alone", "others"}

CaseNext ==
    /\ Next /\ UNCHANGED case
    /\ case = "alone" => Alone' /\ stray' = {}
    /\ case = "others" => Cardinality(typed') <= 1

CaseSpec == CaseInit /\ [][CaseNext]_<<vars, case>>
=============================================================================
