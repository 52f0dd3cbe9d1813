----------------------------- MODULE TouchedKeys -----------------------------
(***************************************************************************)
(* What foldOrder promises (internal/sourcecache/foldorder.go): a live     *)
(* read's answer is installed exactly when no fold recorded since the read *)
(* began has touched one of its keys.  SourceCache is written over this.   *)
(***************************************************************************)
CONSTANTS Reads, Keys

VARIABLES
    flight,   \* the reads between begin and end
    touched,  \* the keys folded since each began
    ran       \* whether each read's answer was written: its last verdict

vars == <<flight, touched, ran>>

Init ==
    /\ flight = {}
    /\ touched = [r \in Reads |-> {}]
    /\ ran = [r \in Reads |-> FALSE]

Begin(r) ==
    /\ r \notin flight
    /\ flight' = flight \cup {r}
    /\ UNCHANGED <<touched, ran>>

Install(r, ks) ==
    /\ r \in flight
    /\ ran' = [ran EXCEPT ![r] = (ks \cap touched[r] = {})]
    /\ UNCHANGED <<flight, touched>>

End(r) ==
    /\ r \in flight
    /\ flight' = flight \ {r}
    /\ touched' = [touched EXCEPT ![r] = {}]
    /\ ran' = [ran EXCEPT ![r] = FALSE]

Fold(ks) ==
    /\ touched' = [r \in Reads |-> IF r \in flight THEN touched[r] \cup ks ELSE touched[r]]
    /\ UNCHANGED <<flight, ran>>

Next ==
    \/ \E r \in Reads : Begin(r) \/ End(r) \/ \E ks \in SUBSET Keys : Install(r, ks)
    \/ \E ks \in SUBSET Keys : Fold(ks)

Spec == Init /\ [][Next]_vars
=============================================================================
