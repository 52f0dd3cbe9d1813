------------------------------ MODULE FoldOrder ------------------------------
(***************************************************************************)
(* foldOrder (internal/sourcecache/foldorder.go): which is newer, a live   *)
(* answer or a fold.  Every fold takes the next sequence number and        *)
(* stamps its keys with it; a read remembers the number it began at, and   *)
(* its answer is refused when one of its keys has a later stamp.  The      *)
(* stamps are dropped whenever no read is in flight, and no fold is        *)
(* stamped then: the reads in flight are counted by where they began.      *)
(***************************************************************************)
EXTENDS Integers, FiniteSets

CONSTANTS
    Reads,
    Names,      \* the keys a fold stamps: ids of rows and of grids
    MaxFolds

FoldOrderAssumption == IsFiniteSet(Reads) /\ MaxFolds \in Nat

VARIABLES
    seq,
    last,   \* the stamp of the latest fold that touched each key, 0 for none
    begun,   \* how many reads in flight began at each number
    at,     \* where each read began, -1 for one not in flight
    ran     \* whether the read's answer was written

orderVars == <<seq, last, begun, at, ran>>

Seqs == 0..MaxFolds

OpenReads == {r \in Reads : at[r] # -1}
Began(s) == {r \in Reads : at[r] = s}

OrderInit ==
    /\ seq = 0
    /\ last = [k \in Names |-> 0]
    /\ begun = [s \in Seqs |-> 0]
    /\ at = [r \in Reads |-> -1]
    /\ ran = [r \in Reads |-> FALSE]

OrderBegin(r) ==
    /\ at[r] = -1
    /\ at' = [at EXCEPT ![r] = seq]
    /\ begun' = [begun EXCEPT ![seq] = @ + 1]
    /\ UNCHANGED <<seq, last, ran>>

\* With none in flight no answer can be compared, and the stamps are dropped.
OrderEnd(r) ==
    /\ at[r] # -1
    /\ begun' = [begun EXCEPT ![at[r]] = @ - 1]
    /\ last' = IF \A s \in Seqs : begun'[s] = 0 THEN [k \in Names |-> 0] ELSE last
    /\ at' = [at EXCEPT ![r] = -1]
    /\ ran' = [ran EXCEPT ![r] = FALSE]
    /\ UNCHANGED seq

OrderInstall(r, ks) ==
    /\ at[r] # -1
    /\ ran' = [ran EXCEPT ![r] = ~ \E k \in ks : last[k] > at[r]]
    /\ UNCHANGED <<seq, last, begun, at>>

OrderFold(ks) ==
    /\ IF \E s \in Seqs : begun[s] > 0
       THEN /\ seq < MaxFolds
            /\ seq' = seq + 1
            /\ last' = [k \in Names |-> IF k \in ks THEN seq' ELSE last[k]]
       ELSE UNCHANGED <<seq, last>>
    /\ UNCHANGED <<begun, at, ran>>

OrderNext ==
    \/ \E r \in Reads : OrderBegin(r) \/ OrderEnd(r) \/ \E ks \in SUBSET Names : OrderInstall(r, ks)
    \/ \E ks \in SUBSET Names : OrderFold(ks)

OrderSpec == OrderInit /\ [][OrderNext]_orderVars

----------------------------------------------------------------------------
OrderTypeOK ==
    /\ seq \in Seqs
    /\ last \in [Names -> Seqs]
    /\ begun \in [Seqs -> Nat]
    /\ at \in [Reads -> Seqs \cup {-1}]
    /\ ran \in [Reads -> BOOLEAN]

(***************************************************************************)
(* The counts are those of the reads in flight ("live reads in flight, by  *)
(* the seq each began at"), and no stamp and no read is ahead of seq.      *)
(***************************************************************************)
Counted ==
    /\ \A s \in Seqs : begun[s] = Cardinality(Began(s))
    /\ \A k \in Names : last[k] <= seq
    /\ \A r \in Reads : at[r] <= seq

Touched == [r \in Reads |-> IF at[r] = -1 THEN {} ELSE {k \in Names : last[k] > at[r]}]

(* An answer is installed unless a fold has touched its keys since. *)
Promised == INSTANCE TouchedKeys WITH Keys <- Names, flight <- OpenReads, touched <- Touched
Promises == Promised!Spec
=============================================================================
