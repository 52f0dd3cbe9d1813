------------------------------ MODULE Mailbox ------------------------------
(***************************************************************************)
(* What one subscriber of the event hub is promised: a box of undelivered  *)
(* events in the order their entities were first touched, holding the      *)
(* newest event of each, and a line of events taken from it, read in       *)
(* order.  A reader that cancels loses the rest of the box, and at most    *)
(* the last event of the line.                                             *)
(***************************************************************************)
EXTENDS Sequences, Integers

CONSTANTS
    Entity,  \* what events are about
    Event    \* what they say

VARIABLES box, line, stopped

mail == <<box, line, stopped>>

Letter == [entity : Entity, event : Event]

Init ==
    /\ box = <<>>
    /\ line = <<>>
    /\ stopped = FALSE

Holds(k) == \E i \in DOMAIN box : box[i].entity = k

\* The newest event takes the place of an older one about the same entity.
Put(k, e) ==
    /\ box' = IF Holds(k)
              THEN [i \in DOMAIN box |-> IF box[i].entity = k
                                         THEN [entity |-> k, event |-> e]
                                         ELSE box[i]]
              ELSE Append(box, [entity |-> k, event |-> e])
    /\ UNCHANGED <<line, stopped>>

Take ==
    /\ ~stopped /\ box # <<>>
    /\ box' = Tail(box)
    /\ line' = Append(line, Head(box).event)
    /\ UNCHANGED stopped

Read ==
    /\ line # <<>>
    /\ line' = Tail(line)
    /\ UNCHANGED <<box, stopped>>

Stop ==
    /\ ~stopped
    /\ stopped' = TRUE
    /\ \/ line' = line
       \/ line # <<>> /\ line' = SubSeq(line, 1, Len(line) - 1)
    /\ UNCHANGED box

Next ==
    \/ \E k \in Entity, e \in Event : Put(k, e)
    \/ Take
    \/ Read
    \/ Stop

Spec == Init /\ [][Next]_mail

(* No entity has two events waiting, and only events about entities wait. *)
OnePerEntity ==
    /\ box \in Seq(Letter)
    /\ \A i, j \in DOMAIN box : box[i].entity = box[j].entity => i = j
=============================================================================
