--------------------------- MODULE EventHubProofs ---------------------------
(***************************************************************************)
(* The event fan-out, for every number of subscribers, publishers and      *)
(* events and every buffer: no wakeup is lost, and each subscription is    *)
(* the mailbox it promises to be.  And the client such a mailbox feeds,    *)
(* for any grids, writers and moves: a tile has one home on the screen,    *)
(* stays under the hand that moved it, and is shown where the node has it  *)
(* once the events have come.                                              *)
(***************************************************************************)
EXTENDS EventHub, TileFeed, FiniteSetTheorems, SequenceTheorems, TLAPS

Types ==
    /\ subs \in SUBSET Subs
    /\ pub \in [Publishers -> Publisher]
    /\ keys \in [Subs -> Seq(Entity)]
    /\ pending \in [Subs -> [Entity -> Event \cup {NoEvent}]]
    /\ seq \in [Subs -> Nat]
    /\ done \in SUBSET Subs
    /\ pump \in [Subs -> {"unborn", "look", "wait", "send", "ended"}]
    /\ hand \in [Subs -> Event \cup {NoEvent}]
    /\ out \in [Subs -> Seq(Event)]
    /\ published \in 0..MaxEvents
    /\ queued \in [Subs -> Seq(Event)]
    /\ heard \in [Subs -> Seq(Event)]

(* A pump holds an event while it sends it, and then only.                 *)
Handed == \A s \in Subs : hand[s] # NoEvent <=> pump[s] = "send"

Ordered == \A s \in Subs : QueueOK(s)

(* A publisher signals the queue it touched before it touches the next.    *)
OneSignal == \A p \in Publishers : \A r, s \in pub[p].signal : r = s

Waked == NoLostWakeup /\ OneSignal

(* No event is given to a queue twice, and each fallback key was made for  *)
(* one of them: the keys do not run out before the events do.              *)
Numbered ==
    /\ \A p \in Publishers : pub[p].todo # {} => pub[p].event \in Event /\ pub[p].event.n <= published
    /\ \A p, q \in Publishers :
          pub[p].todo # {} /\ pub[q].todo # {} /\ p # q => pub[p].event.n # pub[q].event.n
    /\ \A s \in Subs : \A i \in DOMAIN queued[s] :
          /\ queued[s][i].n <= published
          /\ \A j \in DOMAIN queued[s] : queued[s][i].n = queued[s][j].n => i = j
          /\ \A p \in Publishers : s \in pub[p].todo => queued[s][i].n # pub[p].event.n
    /\ \A s \in Subs : seq[s] <= Len(queued[s])

Flags == wake \in [Subs -> BOOLEAN]

Inv == Types /\ Flags /\ Handed /\ Ordered /\ Waked /\ Numbered

----------------------------------------------------------------------------
\* No event is an event.
LEMMA NoEventIsNone == NoEvent \notin Event /\ Event \subseteq [key : Keys \cup {NoKey}, n : Nat]
BY DEF Event, NoEvent

\* The invariant holds of a hub nobody subscribed to.
LEMMA InitHolds == ASSUME Init PROVE Inv
<1> USE HubAssumption, NoEventIsNone DEF HubAssumption, Init
<1>1. Types
  BY DEF Types, Resting, Publisher
<1>2. Flags
  BY DEF Flags
<1>3. Handed /\ Waked /\ Numbered
  BY DEF Handed, Waked, OneSignal, NoLostWakeup, Numbered, Resting
<1>4. Ordered
  BY DEF Ordered, QueueOK, Holds
<1>5. QED
  BY <1>1, <1>2, <1>3, <1>4 DEF Inv

(* A sequence of events with a number each, none beyond n, has at most n.  *)
LEMMA NoMoreThanNumbers ==
    ASSUME NEW n \in Nat, NEW es \in Seq(Event),
           \A i \in DOMAIN es : es[i].n <= n,
           \A i, j \in DOMAIN es : es[i].n = es[j].n => i = j
    PROVE  Len(es) <= n
<1> DEFINE number == [i \in 1..Len(es) |-> es[i].n]
<1>1. Len(es) \in Nat /\ DOMAIN es = 1..Len(es) /\ \A i \in 1..Len(es) : es[i] \in Event
  OBVIOUS
<1>2. \A i \in 1..Len(es) : es[i].n \in 1..n
  BY <1>1, HubAssumption DEF Event, HubAssumption
<1>3. number \in Injection(1..Len(es), 1..n)
  BY <1>1, <1>2 DEF Injection, IsInjective
<1>4. Cardinality(1..Len(es)) <= Cardinality(1..n)
  BY <1>3, FS_Injection, FS_Interval
<1>5. ASSUME NEW m \in Nat PROVE Cardinality(1..m) = m
  <2>1. Cardinality(1..m) = IF 1 > m THEN 0 ELSE m - 1 + 1
    BY FS_Interval
  <2>2. QED
    BY <2>1
<1>6. QED
  BY <1>1, <1>4, <1>5

(* The key an event waits under is an entity's, or a number yet to come.   *)
LEMMA KeysSuffice ==
    ASSUME Inv, NEW p \in Publishers, NEW s \in pub[p].todo
    PROVE  /\ s \in Subs /\ pub[p].event \in Event
           /\ QueueKey(s, pub[p].event) \in Entity
           /\ published \in Nat /\ published <= MaxEvents
           /\ Len(queued[s]) + 1 <= published
<1> USE HubAssumption DEF HubAssumption
<1> DEFINE e == pub[p].event
           es == Append(queued[s], e)
<1>1. s \in Subs /\ e \in Event /\ e.n <= published /\ published \in Nat /\ published <= MaxEvents
  BY DEF Inv, Types, Numbered, Publisher
<1>2. queued[s] \in Seq(Event) /\ seq[s] \in Nat
  BY <1>1 DEF Inv, Types
<1>3. es \in Seq(Event) /\ Len(es) = Len(queued[s]) + 1
      /\ \A i \in DOMAIN es : \/ i = Len(es) /\ es[i] = e
                              \/ i \in DOMAIN queued[s] /\ i # Len(es) /\ es[i] = queued[s][i]
  BY <1>1, <1>2
<1>4. /\ \A i \in DOMAIN queued[s] : queued[s][i].n <= published /\ queued[s][i].n # e.n
      /\ \A i, j \in DOMAIN queued[s] : queued[s][i].n = queued[s][j].n => i = j
  BY <1>1 DEF Inv, Numbered
<1> HIDE DEF es
<1>5. \A i \in DOMAIN es : es[i].n <= published
  BY <1>1, <1>3, <1>4
<1>6. \A i, j \in DOMAIN es : es[i].n = es[j].n => i = j
  BY <1>1, <1>3, <1>4
<1>7. Len(es) <= published
  BY <1>1, <1>3, <1>5, <1>6, NoMoreThanNumbers
<1>8. seq[s] <= Len(queued[s])
  BY <1>1 DEF Inv, Numbered
<1>9. QueueKey(s, e) \in Entity
  BY SMTT(30), <1>1, <1>2, <1>3, <1>7, <1>8 DEF QueueKey, Entity, Event
<1>10. QED
  BY <1>1, <1>3, <1>7, <1>9

(* What queues and publishers hold is numbered still when some of it is    *)
(* done with.                                                              *)
LEMMA NumberedStays ==
    ASSUME Inv, UNCHANGED <<queued, seq, published>>,
           \A p \in Publishers : pub'[p].todo \subseteq pub[p].todo /\ pub'[p].event = pub[p].event
    PROVE  Numbered'
<1>1. /\ \A p \in Publishers : pub'[p].todo # {} => pub'[p].event \in Event /\ pub'[p].event.n <= published'
      /\ \A p, q \in Publishers :
            pub'[p].todo # {} /\ pub'[q].todo # {} /\ p # q => pub'[p].event.n # pub'[q].event.n
  BY DEF Inv, Numbered
<1>2. ASSUME NEW s \in Subs, NEW i \in DOMAIN queued'[s]
      PROVE  /\ queued'[s][i].n <= published'
             /\ \A j \in DOMAIN queued'[s] : queued'[s][i].n = queued'[s][j].n => i = j
             /\ \A p \in Publishers : s \in pub'[p].todo => queued'[s][i].n # pub'[p].event.n
  BY DEF Inv, Numbered
<1>3. \A s \in Subs : seq'[s] <= Len(queued'[s])
  BY DEF Inv, Numbered
<1>4. QED
  BY <1>1, <1>2, <1>3 DEF Numbered

----------------------------------------------------------------------------
(* A queue keeps its keys and its events in step, whoever touches it.      *)
LEMMA PutKeepsOrder ==
    ASSUME Inv, NEW s \in Subs, NEW e \in Event, QueueKey(s, e) \in Entity, Put(s, e)
    PROVE  /\ keys' \in [Subs -> Seq(Entity)]
           /\ pending' \in [Subs -> [Entity -> Event \cup {NoEvent}]]
           /\ seq' \in [Subs -> Nat]
           /\ Ordered'
<1> DEFINE k == QueueKey(s, e)
<1> USE NoEventIsNone
<1>1. k \in Entity /\ keys[s] \in Seq(Entity) /\ pending[s] \in [Entity -> Event \cup {NoEvent}]
  BY DEF Inv, Types
<1>2. /\ keys' = [keys EXCEPT ![s] = IF Holds(s, k) THEN keys[s] ELSE Append(keys[s], k)]
      /\ pending' = [pending EXCEPT ![s][k] = e]
      /\ seq' = [seq EXCEPT ![s] = IF e.key = NoKey THEN seq[s] + 1 ELSE seq[s]]
  BY DEF Put
<1> HIDE DEF k
<1>3. keys' \in [Subs -> Seq(Entity)]
  BY <1>1, <1>2 DEF Inv, Types
<1>4. pending' \in [Subs -> [Entity -> Event \cup {NoEvent}]]
  BY <1>1, <1>2 DEF Inv, Types
<1>5. seq' \in [Subs -> Nat]
  BY <1>2 DEF Inv, Types
<1>6. ASSUME NEW r \in Subs \ {s} PROVE QueueOK(r)'
  <2>1. keys'[r] = keys[r] /\ pending'[r] = pending[r]
    BY <1>2 DEF Inv, Types
  <2>2. QED
    BY <2>1 DEF Inv, Ordered, QueueOK, Holds
<1>7. QueueOK(s)'
  <2>1. /\ \A j \in Entity : pending'[s][j] = IF j = k THEN e ELSE pending[s][j]
        /\ keys'[s] = IF Holds(s, k) THEN keys[s] ELSE Append(keys[s], k)
    BY <1>1, <1>2 DEF Inv, Types
  <2>2. QueueOK(s)
    BY DEF Inv, Ordered
  <2>3. \A j \in Entity : Holds(s, j)' <=> (j = k \/ Holds(s, j))
    BY <2>1 DEF Holds
  <2>4. CASE Holds(s, k)
    BY <1>1, <2>1, <2>2, <2>3, <2>4 DEF QueueOK
  <2>5. CASE ~Holds(s, k)
    <3>1. \A i \in DOMAIN keys[s] : keys[s][i] # k
      BY <1>1, <2>2, <2>5 DEF QueueOK
    <3>2. /\ \A i \in DOMAIN keys'[s] :
                \/ i \in DOMAIN keys[s] /\ keys'[s][i] = keys[s][i]
                \/ i = Len(keys[s]) + 1 /\ keys'[s][i] = k
          /\ DOMAIN keys'[s] = DOMAIN keys[s] \cup {Len(keys[s]) + 1}
          /\ \A i \in DOMAIN keys[s] : i # Len(keys[s]) + 1
      BY <1>1, <2>1, <2>5
    <3>3. \A j \in Entity : (\E i \in DOMAIN keys'[s] : keys'[s][i] = j)
                            <=> (j = k \/ \E i \in DOMAIN keys[s] : keys[s][i] = j)
      BY <3>2
    <3>4. \A i, j \in DOMAIN keys'[s] : keys'[s][i] = keys'[s][j] => i = j
      BY <2>2, <3>1, <3>2 DEF QueueOK
    <3>5. QED
      BY <2>2, <2>3, <3>3, <3>4 DEF QueueOK
  <2>6. QED
    BY <2>4, <2>5
<1>8. QED
  BY <1>3, <1>4, <1>5, <1>6, <1>7 DEF Ordered

\* Taking the head of the queue leaves the rest in order.
LEMMA LookKeepsOrder ==
    ASSUME Inv, NEW s \in Subs, Look(s), keys[s] # <<>>
    PROVE  /\ keys' \in [Subs -> Seq(Entity)]
           /\ pending' \in [Subs -> [Entity -> Event \cup {NoEvent}]]
           /\ hand' \in [Subs -> Event \cup {NoEvent}] /\ hand'[s] # NoEvent
           /\ Ordered'
<1> DEFINE k == Head(keys[s])
<1> USE NoEventIsNone
<1>1. keys[s] \in Seq(Entity) /\ pending[s] \in [Entity -> Event \cup {NoEvent}] /\ QueueOK(s)
  BY DEF Inv, Types, Ordered
<1>2. k \in Entity /\ Holds(s, k)
  BY <1>1 DEF QueueOK
<1>3. /\ keys' = [keys EXCEPT ![s] = Tail(keys[s])]
      /\ pending' = [pending EXCEPT ![s][k] = NoEvent]
      /\ hand' = [hand EXCEPT ![s] = pending[s][k]]
  BY DEF Look
<1>4. /\ DOMAIN keys[s] = 1..Len(keys[s]) /\ Len(keys[s]) \in Nat /\ keys[s][1] = k
      /\ DOMAIN Tail(keys[s]) = 1..(Len(keys[s]) - 1)
      /\ \A i \in DOMAIN Tail(keys[s]) : Tail(keys[s])[i] = keys[s][i + 1]
  BY <1>1
<1> HIDE DEF k
<1>5. keys' \in [Subs -> Seq(Entity)]
  BY <1>1, <1>3 DEF Inv, Types
<1>6. pending' \in [Subs -> [Entity -> Event \cup {NoEvent}]]
  BY <1>1, <1>2, <1>3 DEF Inv, Types
<1>7. hand' \in [Subs -> Event \cup {NoEvent}] /\ hand'[s] # NoEvent
  BY <1>1, <1>2, <1>3 DEF Inv, Types, Holds
<1>8. ASSUME NEW r \in Subs \ {s} PROVE QueueOK(r)'
  <2>1. keys'[r] = keys[r] /\ pending'[r] = pending[r]
    BY <1>3 DEF Inv, Types
  <2>2. QED
    BY <2>1 DEF Inv, Ordered, QueueOK, Holds
<1>9. QueueOK(s)'
  <2>1. /\ \A j \in Entity : pending'[s][j] = IF j = k THEN NoEvent ELSE pending[s][j]
        /\ keys'[s] = Tail(keys[s])
    BY <1>1, <1>2, <1>3 DEF Inv, Types
  <2>2. \A j \in Entity : Holds(s, j)' <=> (j # k /\ Holds(s, j))
    BY <2>1 DEF Holds
  <2>3. \A i, j \in DOMAIN keys[s] : keys[s][i] = keys[s][j] => i = j
    BY <1>1 DEF QueueOK
  <2>4. \A i \in DOMAIN keys'[s] : i + 1 \in DOMAIN keys[s] /\ i + 1 # 1 /\ keys'[s][i] = keys[s][i + 1]
    BY <1>4, <2>1
  <2>5. \A i \in DOMAIN keys[s] : i # 1 => i - 1 \in DOMAIN keys'[s] /\ keys'[s][i - 1] = keys[s][i]
    BY <1>4, <2>1
  <2>6. \A j \in Entity : (\E i \in DOMAIN keys'[s] : keys'[s][i] = j)
                          <=> (j # k /\ \E i \in DOMAIN keys[s] : keys[s][i] = j)
    <3>1. 1 \in DOMAIN keys[s]
      BY <1>1, <1>4
    <3>2. QED
      BY <1>4, <2>3, <2>4, <2>5, <3>1
  <2>7. \A i, j \in DOMAIN keys'[s] : keys'[s][i] = keys'[s][j] => i = j
    <3>1. ASSUME NEW i \in DOMAIN keys'[s], NEW j \in DOMAIN keys'[s], keys'[s][i] = keys'[s][j]
          PROVE  i = j
      <4>1. i \in Nat /\ j \in Nat
        BY <1>4, <2>1
      <4>2. i + 1 = j + 1
        BY <2>3, <2>4, <3>1
      <4>3. QED
        BY <4>1, <4>2
    <3>2. QED
      BY <3>1
  <2>8. QED
    BY <1>1, <2>2, <2>6, <2>7 DEF QueueOK
<1>10. QED
  BY <1>5, <1>6, <1>7, <1>8, <1>9 DEF Ordered

\* Every step keeps the invariant.
LEMMA NextKeeps == ASSUME Inv, [Next]_vars PROVE Inv'
<1> USE DEF Inv, queue, line
<1>1. ASSUME NEW s \in Subs, Subscribe(s)
      PROVE  Inv'
  <2> USE <1>1 DEF Subscribe
  <2>1. Types'
    BY NoEventIsNone DEF Types
  <2>2. Handed'
    BY NoEventIsNone DEF Types, Handed
  <2>3. Ordered'
    BY DEF Ordered, QueueOK, Holds
  <2>4. Flags'
    BY DEF Flags
  <2>5. Waked'
    BY NoEventIsNone DEF Types, Flags, Waked, NoLostWakeup, OneSignal, Publisher
  <2>6. Numbered'
    BY NumberedStays
  <2>7. QED
    BY <2>1, <2>2, <2>3, <2>4, <2>5, <2>6
<1>2. ASSUME NEW s \in Subs, Detach(s)
      PROVE  Inv'
  <2> USE <1>2 DEF Detach
  <2>1. Types'
    BY NoEventIsNone DEF Types
  <2>2. Handed'
    BY NoEventIsNone DEF Types, Handed
  <2>3. Ordered'
    BY DEF Ordered, QueueOK, Holds
  <2>4. Flags'
    BY DEF Flags
  <2>5. Waked'
    BY NoEventIsNone DEF Types, Flags, Waked, NoLostWakeup, OneSignal, Publisher
  <2>6. Numbered'
    BY NumberedStays
  <2>7. QED
    BY <2>1, <2>2, <2>3, <2>4, <2>5, <2>6
<1>3. ASSUME NEW s \in Subs, CloseDone(s)
      PROVE  Inv'
  <2> USE <1>3 DEF CloseDone
  <2>1. Types'
    BY NoEventIsNone DEF Types
  <2>2. Handed'
    BY NoEventIsNone DEF Types, Handed
  <2>3. Ordered'
    BY DEF Ordered, QueueOK, Holds
  <2>4. Flags'
    BY DEF Flags
  <2>5. Waked'
    BY NoEventIsNone DEF Types, Flags, Waked, NoLostWakeup, OneSignal, Publisher
  <2>6. Numbered'
    BY NumberedStays
  <2>7. QED
    BY <2>1, <2>2, <2>3, <2>4, <2>5, <2>6
<1>4. ASSUME NEW p \in Publishers, NEW k \in Keys \cup {NoKey}, Publish(p, k)
      PROVE  Inv'
  <2> USE <1>4 DEF Publish
  <2>a. [key |-> k, n |-> published + 1] \in Event /\ published + 1 \in 0..MaxEvents /\ published \in Nat
    BY HubAssumption DEF HubAssumption, Types, Event
  <2>b. /\ pub' \in [Publishers -> Publisher]
        /\ pub'[p].event.n = published + 1 /\ pub'[p].event \in Event
        /\ pub'[p].todo = subs /\ pub'[p].signal = {}
        /\ \A q \in Publishers \ {p} : pub'[q] = pub[q]
    BY <2>a DEF Types, Publisher
  <2>1. Types'
    BY <2>a, <2>b, NoEventIsNone DEF Types
  <2>2. Handed'
    BY NoEventIsNone DEF Types, Handed
  <2>3. Ordered'
    BY DEF Ordered, QueueOK, Holds
  <2>4. Flags'
    BY DEF Flags
  <2>5. Waked'
    BY <2>b, NoEventIsNone DEF Types, Flags, Waked, NoLostWakeup, OneSignal, Publisher
  <2>6. Numbered'
    <3>1. /\ published' = published + 1 /\ published \in Nat /\ UNCHANGED <<queued, seq>>
          /\ \A q \in Publishers : pub[q].todo # {} => pub[q].event.n \in Nat /\ pub[q].event.n <= published
          /\ \A r \in Subs : \A i \in DOMAIN queued[r] : queued[r][i].n \in Nat /\ queued[r][i].n <= published
      BY <2>a, NoEventIsNone DEF Types, Numbered
    <3>2. /\ \A q \in Publishers : pub'[q].todo # {} => pub'[q].event \in Event /\ pub'[q].event.n <= published'
          /\ \A q, r \in Publishers :
                pub'[q].todo # {} /\ pub'[r].todo # {} /\ q # r => pub'[q].event.n # pub'[r].event.n
      BY <2>b, <3>1 DEF Numbered
    <3>3. ASSUME NEW r \in Subs, NEW i \in DOMAIN queued'[r]
          PROVE  /\ queued'[r][i].n <= published'
                 /\ \A j \in DOMAIN queued'[r] : queued'[r][i].n = queued'[r][j].n => i = j
                 /\ \A q \in Publishers : r \in pub'[q].todo => queued'[r][i].n # pub'[q].event.n
      BY <2>b, <3>1 DEF Numbered
    <3>4. QED
      BY <3>1, <3>2, <3>3 DEF Numbered
  <2>7. QED
    BY <2>1, <2>2, <2>3, <2>4, <2>5, <2>6
<1>5. ASSUME NEW p \in Publishers, NEW s \in Subs, Enqueue(p, s)
      PROVE  Inv'
  <2> DEFINE e == pub[p].event
  <2>1. /\ s \in pub[p].todo /\ pub[p].signal = {} /\ Put(s, e)
        /\ pub' = [pub EXCEPT ![p].todo = pub[p].todo \ {s}, ![p].signal = {s}]
        /\ queued' = [queued EXCEPT ![s] = Append(queued[s], e)]
        /\ UNCHANGED <<subs, wake, done, pump, line, published, heard>>
    BY <1>5 DEF Enqueue
  <2>2. /\ e \in Event /\ QueueKey(s, e) \in Entity /\ queued[s] \in Seq(Event)
        /\ Len(queued[s]) + 1 <= published /\ published \in Nat
    BY <2>1, KeysSuffice DEF Inv, Types
  <2>3. /\ keys' \in [Subs -> Seq(Entity)]
        /\ pending' \in [Subs -> [Entity -> Event \cup {NoEvent}]]
        /\ seq' \in [Subs -> Nat]
        /\ Ordered'
    BY <2>1, <2>2, PutKeepsOrder
  <2>4. /\ seq'[s] \in {seq[s], seq[s] + 1}
        /\ \A r \in Subs \ {s} : keys'[r] = keys[r] /\ seq'[r] = seq[r]
    BY <2>1 DEF Put, Types
  <2> HIDE DEF e
  <2>5. /\ pub' \in [Publishers -> Publisher]
        /\ pub'[p].event = e /\ pub[p].event = e /\ pub'[p].todo = pub[p].todo \ {s} /\ pub'[p].signal = {s}
        /\ \A q \in Publishers \ {p} : pub'[q] = pub[q]
    BY <2>1 DEF Types, Publisher, e
  <2>6. /\ queued' \in [Subs -> Seq(Event)]
        /\ Len(queued'[s]) = Len(queued[s]) + 1
        /\ \A i \in DOMAIN queued'[s] :
              \/ i \in DOMAIN queued[s] /\ queued'[s][i] = queued[s][i]
              \/ i = Len(queued[s]) + 1 /\ queued'[s][i] = e
        /\ \A r \in Subs \ {s} : queued'[r] = queued[r]
    BY <2>1, <2>2 DEF Types
  <2>7. Types'
    BY <2>1, <2>3, <2>5, <2>6 DEF Types, line
  <2>8. Handed'
    BY <2>1 DEF Handed, line
  <2>9. Waked'
    <3>1. OneSignal'
      BY <2>5 DEF Waked, OneSignal
    <3>2. ASSUME NEW r \in Subs, pump'[r] = "wait", keys'[r] # <<>>
          PROVE  wake'[r] \/ \E q \in Publishers : r \in pub'[q].signal
      <4>1. CASE r = s
        BY <2>5, <4>1
      <4>2. CASE r # s
        <5>1. wake[r] \/ \E q \in Publishers : r \in pub[q].signal
          BY <2>1, <2>4, <3>2, <4>2 DEF Waked, NoLostWakeup
        <5>2. pub[p].signal = {} /\ wake' = wake
          BY <2>1
        <5>3. QED
          BY <2>5, <5>1, <5>2
      <4>3. QED
        BY <4>1, <4>2
    <3>3. QED
      BY <3>1, <3>2 DEF Waked, NoLostWakeup
  <2>10. Numbered'
    <3>1. /\ \A q \in Publishers : /\ pub'[q].todo \subseteq pub[q].todo
                                   /\ pub'[q].event = pub[q].event
          /\ s \notin pub'[p].todo /\ e.n <= published
          /\ published' = published
      BY <2>1, <2>5 DEF Numbered
    <3>2. \A q \in Publishers \ {p} : s \in pub[q].todo => pub[q].event.n # e.n
      BY <2>1, <2>5 DEF Numbered
    <3>3. \A i \in DOMAIN queued[s] : queued[s][i].n <= published /\ queued[s][i].n # e.n
      BY <2>1, <2>5 DEF Numbered
    <3>4. \A r \in Subs : seq'[r] <= Len(queued'[r])
      <4>1. \A r \in Subs : seq[r] <= Len(queued[r])
        BY DEF Numbered
      <4>2. seq[s] \in Nat /\ Len(queued[s]) \in Nat
        BY <2>2 DEF Types
      <4>3. seq'[s] <= Len(queued'[s])
        BY <2>4, <2>6, <4>1, <4>2
      <4>4. QED
        BY <2>4, <2>6, <4>1, <4>3
    <3>5. ASSUME NEW r \in Subs, NEW i \in DOMAIN queued'[r]
          PROVE  /\ queued'[r][i].n <= published
                 /\ \A j \in DOMAIN queued'[r] : queued'[r][i].n = queued'[r][j].n => i = j
                 /\ \A q \in Publishers : r \in pub'[q].todo => queued'[r][i].n # pub'[q].event.n
      <4>1. CASE r = s
        <5>1. /\ queued'[s][i].n <= published
              /\ \A q \in Publishers : s \in pub'[q].todo => queued'[s][i].n # pub'[q].event.n
          <6>1. CASE queued'[s][i] = e
            BY <2>5, <3>1, <3>2, <6>1
          <6>2. CASE i \in DOMAIN queued[s] /\ queued'[s][i] = queued[s][i]
            BY <3>1, <3>3, <6>2 DEF Numbered
          <6>3. QED
            BY <2>6, <4>1, <6>1, <6>2
        <5>2. ASSUME NEW j \in DOMAIN queued'[s], queued'[s][i].n = queued'[s][j].n PROVE i = j
          <6>1. \A a, b \in DOMAIN queued[s] : queued[s][a].n = queued[s][b].n => a = b
            BY DEF Numbered
          <6>2. QED
            BY <2>6, <3>3, <4>1, <5>2, <6>1
        <5>3. QED
          BY <4>1, <5>1, <5>2
      <4>2. CASE r # s
        <5>1. queued'[r] = queued[r]
          BY <2>6, <4>2
        <5>2. \A q \in Publishers : r \in pub'[q].todo => queued[r][i].n # pub'[q].event.n
          BY <3>1, <5>1 DEF Numbered
        <5>3. /\ queued[r][i].n <= published
              /\ \A j \in DOMAIN queued[r] : queued[r][i].n = queued[r][j].n => i = j
          BY <5>1 DEF Numbered
        <5>4. QED
          BY <5>1, <5>2, <5>3
      <4>3. QED
        BY <4>1, <4>2
    <3>6. /\ \A q \in Publishers : pub'[q].todo # {} => pub'[q].event \in Event /\ pub'[q].event.n <= published'
          /\ \A q, r \in Publishers :
                pub'[q].todo # {} /\ pub'[r].todo # {} /\ q # r => pub'[q].event.n # pub'[r].event.n
      BY <3>1 DEF Numbered
    <3>7. QED
      BY <3>1, <3>4, <3>5, <3>6 DEF Numbered
  <2>11. Flags'
    BY <2>1 DEF Flags
  <2>12. QED
    BY <2>3, <2>7, <2>8, <2>9, <2>10, <2>11
<1>6. ASSUME NEW p \in Publishers, NEW s \in Subs, Signal(p, s)
      PROVE  Inv'
  <2> USE <1>6 DEF Signal
  <2>b. /\ pub' \in [Publishers -> Publisher]
        /\ pub'[p].event = pub[p].event /\ pub'[p].todo = pub[p].todo /\ pub'[p].signal = {}
        /\ \A q \in Publishers \ {p} : pub'[q] = pub[q]
    BY DEF Types, Publisher
  <2>1. Types'
    BY <2>b, NoEventIsNone DEF Types
  <2>2. Handed'
    BY NoEventIsNone DEF Types, Handed
  <2>3. Ordered'
    BY DEF Ordered, QueueOK, Holds
  <2>4. Flags'
    BY DEF Flags
  <2>5. Waked'
    BY SMTT(30), <2>b, NoEventIsNone DEF Types, Flags, Waked, NoLostWakeup, OneSignal, Publisher
  <2>6. Numbered'
    BY <2>b, NumberedStays
  <2>7. QED
    BY <2>1, <2>2, <2>3, <2>4, <2>5, <2>6
<1>7. ASSUME NEW s \in Subs, Look(s), keys[s] = <<>>
      PROVE  Inv'
  <2>a. /\ keys[s] = <<>> /\ pump[s] = "look" /\ pump' = [pump EXCEPT ![s] = "wait"]
        /\ UNCHANGED <<keys, pending, seq, hand, subs, pub, wake, done, out, published, queued, heard>>
    BY <1>7 DEF Look
  <2> USE <2>a
  <2>1. Types'
    BY NoEventIsNone DEF Types
  <2>2. Handed'
    BY NoEventIsNone DEF Types, Handed
  <2>3. Ordered'
    BY DEF Ordered, QueueOK, Holds
  <2>4. Flags'
    BY DEF Flags
  <2>5. Waked'
    BY NoEventIsNone DEF Types, Flags, Waked, NoLostWakeup, OneSignal, Publisher
  <2>6. Numbered'
    BY NumberedStays
  <2>7. QED
    BY <2>1, <2>2, <2>3, <2>4, <2>5, <2>6
<1>8. ASSUME NEW s \in Subs, Look(s), keys[s] # <<>>
      PROVE  Inv'
  <2>1. /\ keys' \in [Subs -> Seq(Entity)]
        /\ pending' \in [Subs -> [Entity -> Event \cup {NoEvent}]]
        /\ hand' \in [Subs -> Event \cup {NoEvent}] /\ hand'[s] # NoEvent
        /\ Ordered'
    BY <1>8, LookKeepsOrder
  <2>2. /\ pump' = [pump EXCEPT ![s] = "send"]
        /\ \A r \in Subs \ {s} : hand'[r] = hand[r] /\ keys'[r] = keys[r]
        /\ UNCHANGED <<seq, subs, pub, wake, done, out, published, queued, heard>>
    BY <1>8 DEF Look, Types
  <2>3. Types'
    BY <2>1, <2>2 DEF Types
  <2>4. Handed'
    BY <2>1, <2>2 DEF Types, Handed
  <2>5. Waked'
    BY <2>2 DEF Types, Waked, NoLostWakeup, OneSignal
  <2>6. Numbered'
    BY <2>2, NumberedStays
  <2>7. Flags'
    BY <2>2 DEF Flags
  <2>8. QED
    BY <2>1, <2>3, <2>4, <2>5, <2>6, <2>7
<1>9. ASSUME NEW s \in Subs, Woken(s)
      PROVE  Inv'
  <2> USE <1>9 DEF Woken
  <2>1. Types'
    BY NoEventIsNone DEF Types
  <2>2. Handed'
    BY NoEventIsNone DEF Types, Handed
  <2>3. Ordered'
    BY DEF Ordered, QueueOK, Holds
  <2>4. Flags'
    BY DEF Flags
  <2>5. Waked'
    BY NoEventIsNone DEF Types, Flags, Waked, NoLostWakeup, OneSignal, Publisher
  <2>6. Numbered'
    BY NumberedStays
  <2>7. QED
    BY <2>1, <2>2, <2>3, <2>4, <2>5, <2>6
<1>10. ASSUME NEW s \in Subs, Send(s)
      PROVE  Inv'
  <2> USE <1>10 DEF Send
  <2>a. hand[s] \in Event /\ out[s] \in Seq(Event)
    BY DEF Types, Handed
  <2>1. Types'
    BY <2>a, NoEventIsNone DEF Types
  <2>2. Handed'
    BY NoEventIsNone DEF Types, Handed
  <2>3. Ordered'
    BY DEF Ordered, QueueOK, Holds
  <2>4. Flags'
    BY DEF Flags
  <2>5. Waked'
    BY SMTT(30), NoEventIsNone DEF Types, Flags, Waked, NoLostWakeup, OneSignal, Publisher
  <2>6. Numbered'
    BY NumberedStays
  <2>7. QED
    BY <2>1, <2>2, <2>3, <2>4, <2>5, <2>6
<1>11. ASSUME NEW s \in Subs, End(s)
      PROVE  Inv'
  <2> USE <1>11 DEF End
  <2>1. Types'
    BY NoEventIsNone DEF Types
  <2>2. Handed'
    BY NoEventIsNone DEF Types, Handed
  <2>3. Ordered'
    BY DEF Ordered, QueueOK, Holds
  <2>4. Flags'
    BY DEF Flags
  <2>5. Waked'
    BY SMTT(30), NoEventIsNone DEF Types, Flags, Waked, NoLostWakeup, OneSignal, Publisher
  <2>6. Numbered'
    BY NumberedStays
  <2>7. QED
    BY <2>1, <2>2, <2>3, <2>4, <2>5, <2>6
<1>12. ASSUME NEW s \in Subs, Receive(s)
      PROVE  Inv'
  <2> USE <1>12 DEF Receive
  <2>a. out[s] \in Seq(Event) /\ Head(out[s]) \in Event /\ heard[s] \in Seq(Event)
    BY DEF Types
  <2>1. Types'
    BY <2>a, NoEventIsNone DEF Types
  <2>2. Handed'
    BY NoEventIsNone DEF Types, Handed
  <2>3. Ordered'
    BY DEF Ordered, QueueOK, Holds
  <2>4. Flags'
    BY DEF Flags
  <2>5. Waked'
    BY NoEventIsNone DEF Types, Flags, Waked, NoLostWakeup, OneSignal, Publisher
  <2>6. Numbered'
    BY NumberedStays
  <2>7. QED
    BY <2>1, <2>2, <2>3, <2>4, <2>5, <2>6
<1>13. CASE UNCHANGED vars
  <2> USE <1>13 DEF vars
  <2>1. Types' /\ Handed'
    BY DEF Types, Handed
  <2>2. Ordered'
    BY DEF Ordered, QueueOK, Holds
  <2>3. Flags' /\ Waked'
    BY DEF Flags, Waked, NoLostWakeup, OneSignal
  <2>4. Numbered'
    BY NumberedStays
  <2>5. QED
    BY <2>1, <2>2, <2>3, <2>4
<1>14. QED
  BY <1>1, <1>2, <1>3, <1>4, <1>5, <1>6, <1>7, <1>8, <1>9, <1>10, <1>11, <1>12, <1>13 DEF Next

(* Queues keep their keys and events in step, and whoever holds an event   *)
(* is sending it, in every reachable state of the fan-out.                 *)
THEOREM Invariance == Spec => []Inv
<1>1. QED
  BY InitHolds, NextKeeps, PTL DEF Spec

(* A pump never sleeps on a queue nobody will wake it for.                 *)
THEOREM NoWakeupIsLost == Spec => []NoLostWakeup
<1>1. Inv => NoLostWakeup
  BY DEF Inv, Waked
<1>2. QED
  BY <1>1, Invariance, PTL

----------------------------------------------------------------------------
(***************************************************************************)
(* Each subscription is a mailbox.                                         *)
(***************************************************************************)

\* A subscription none of whose parts change is the mailbox it was.
LEMMA BoxStays ==
    ASSUME NEW s \in Subs, keys'[s] = keys[s], pending'[s] = pending[s],
           out'[s] = out[s], hand'[s] = hand[s], pump'[s] = pump[s]
    PROVE  UNCHANGED Box(s)!mail
BY DEF Box!mail, InHand

(* An event touched again takes its entity's place; another goes last.     *)
LEMMA PutIsPut ==
    ASSUME Inv, NEW s \in Subs, NEW e \in Event, QueueKey(s, e) \in Entity, Put(s, e),
           UNCHANGED <<pump, line>>
    PROVE  Box(s)!Next
<1> DEFINE k == QueueKey(s, e)
           letters(ks, ev) == [i \in 1..Len(ks) |-> [entity |-> ks[i], event |-> ev[ks[i]]]]
           mails == letters(keys[s], pending[s])
<1>1. /\ keys[s] \in Seq(Entity) /\ pending[s] \in [Entity -> Event \cup {NoEvent}] /\ k \in Entity
      /\ QueueOK(s)
  BY DEF Inv, Types, Ordered
<1>2. /\ keys'[s] = IF Holds(s, k) THEN keys[s] ELSE Append(keys[s], k)
      /\ pending'[s] = [pending[s] EXCEPT ![k] = e]
  BY DEF Put, Inv, Types
<1>3. ASSUME NEW j \in Entity PROVE Box(s)!Holds(j) <=> \E i \in DOMAIN keys[s] : keys[s][i] = j
  <2>1. DOMAIN mails = DOMAIN keys[s] /\ \A i \in DOMAIN keys[s] : mails[i].entity = keys[s][i]
    BY <1>1
  <2>2. Box(s)!Holds(j) <=> \E i \in DOMAIN mails : mails[i].entity = j
    BY DEF Box!Holds
  <2> HIDE DEF mails
  <2>3. QED
    BY <2>1, <2>2
<1>4. Holds(s, k) <=> \E i \in DOMAIN keys[s] : keys[s][i] = k
  BY <1>1 DEF QueueOK
<1>line. UNCHANGED <<out[s] \o InHand(s), pump[s] = "ended">>
  BY DEF InHand, line
<1> HIDE DEF k
<1>5. CASE Holds(s, k)
  <2>1. letters(keys'[s], pending'[s]) =
          [i \in DOMAIN mails |-> IF mails[i].entity = k THEN [entity |-> k, event |-> e] ELSE mails[i]]
    BY <1>1, <1>2, <1>5
  <2>2. Box(s)!Put(k, e)
    BY <1>1, <1>3, <1>4, <1>5, <1>line, <2>1 DEF Box!Put
  <2>3. QED
    BY <1>1, <2>2 DEF Box!Next
<1>6. CASE ~Holds(s, k)
  <2>1. \A i \in DOMAIN keys[s] : keys[s][i] # k
    BY <1>4, <1>6
  <2>2. keys'[s] = Append(keys[s], k) /\ Len(keys[s]) \in Nat
    BY <1>1, <1>2, <1>6
  <2>3. letters(keys'[s], pending'[s]) = Append(mails, [entity |-> k, event |-> e])
    <3>1. /\ letters(keys'[s], pending'[s]) = letters(Append(keys[s], k), [pending[s] EXCEPT ![k] = e])
          /\ Len(Append(keys[s], k)) = Len(keys[s]) + 1
      BY <1>1, <1>2, <2>2
    <3>2. mails \in Seq([entity : Entity, event : Event \cup {NoEvent}]) /\ Len(mails) = Len(keys[s])
      BY <1>1, <2>2
    <3> HIDE DEF mails
    <3>3. Append(mails, [entity |-> k, event |-> e])
            = [i \in 1..(Len(keys[s]) + 1) |-> IF i = Len(keys[s]) + 1 THEN [entity |-> k, event |-> e] ELSE mails[i]]
      BY <3>2, AppendProperties
    <3>4. \A i \in 1..(Len(keys[s]) + 1) :
            letters(keys'[s], pending'[s])[i] =
              IF i = Len(keys[s]) + 1 THEN [entity |-> k, event |-> e] ELSE mails[i]
      <4>1. ASSUME NEW i \in 1..Len(keys[s]) PROVE letters(keys'[s], pending'[s])[i] = mails[i]
        <5>1. keys'[s][i] = keys[s][i] /\ keys[s][i] # k /\ i \in 1..Len(keys'[s]) /\ keys[s][i] \in Entity
          BY <1>1, <2>1, <2>2
        <5>2. pending'[s][keys[s][i]] = pending[s][keys[s][i]]
          BY <1>1, <1>2, <5>1
        <5>3. QED
          BY <5>1, <5>2 DEF mails
      <4>2. letters(keys'[s], pending'[s])[Len(keys[s]) + 1] = [entity |-> k, event |-> e]
        BY <1>1, <1>2, <2>2
      <4> HIDE DEF letters
      <4>3. QED
        BY <2>2, <4>1, <4>2
    <3>5. QED
      BY ZenonT(30), <1>1, <2>2, <3>1, <3>3, <3>4
  <2>4. Box(s)!Put(k, e)
    BY <1>1, <1>3, <1>4, <1>6, <1>line, <2>3 DEF Box!Put
  <2>5. QED
    BY <1>1, <2>4 DEF Box!Next
<1>7. QED
  BY <1>5, <1>6

(* The event taken is the one whose entity was touched first.              *)
LEMMA LookIsTake ==
    ASSUME Inv, NEW s \in Subs, Look(s), keys[s] # <<>>
    PROVE  Box(s)!Next
<1> DEFINE letters(ks, ev) == [i \in 1..Len(ks) |-> [entity |-> ks[i], event |-> ev[ks[i]]]]
           mails == letters(keys[s], pending[s])
           k == Head(keys[s])
<1>1. /\ keys[s] \in Seq(Entity) /\ pending[s] \in [Entity -> Event \cup {NoEvent}] /\ QueueOK(s)
      /\ out[s] \in Seq(Event) /\ hand[s] = NoEvent /\ pump[s] = "look"
  BY DEF Inv, Types, Ordered, Handed, Look
<1>2. /\ keys'[s] = Tail(keys[s]) /\ pending'[s] = [pending[s] EXCEPT ![k] = NoEvent]
      /\ hand'[s] = pending[s][k] /\ out'[s] = out[s] /\ pump'[s] = "send"
  BY DEF Look, Inv, Types
<1>3. /\ Len(keys[s]) \in Nat \ {0} /\ keys[s][1] = k /\ k \in Entity
      /\ Len(keys'[s]) = Len(keys[s]) - 1
      /\ \A i \in 1..Len(keys'[s]) : keys'[s][i] = keys[s][i + 1] /\ keys[s][i + 1] \in Entity
      /\ DOMAIN keys[s] = 1..Len(keys[s])
  BY <1>1, <1>2
<1>4. hand'[s] # NoEvent
  BY LookKeepsOrder
<1>5. mails \in Seq([entity : Entity, event : Event \cup {NoEvent}]) /\ Len(mails) = Len(keys[s])
  BY <1>1, <1>3
<1>6. \A i \in 1..Len(keys'[s]) : letters(keys'[s], pending'[s])[i] = mails[i + 1]
  <2> SUFFICES ASSUME NEW i \in 1..Len(keys'[s])
               PROVE  letters(keys'[s], pending'[s])[i] = mails[i + 1]
    OBVIOUS
  <2>1. i + 1 \in DOMAIN keys[s] /\ 1 \in DOMAIN keys[s] /\ i + 1 # 1
    BY <1>3
  <2>2. keys[s][i + 1] # k
    BY SMTT(30), <1>1, <1>3, <2>1 DEF QueueOK
  <2>3. pending'[s][keys[s][i + 1]] = pending[s][keys[s][i + 1]]
    BY <1>1, <1>2, <1>3, <2>2
  <2>4. QED
    BY <1>3, <2>1, <2>3
<1>7. mails[1].event = pending[s][k]
  BY <1>3
<1>8. /\ letters(keys'[s], pending'[s]) \in Seq([entity : Entity, event : Event \cup {NoEvent}])
      /\ Len(letters(keys'[s], pending'[s])) = Len(keys'[s])
  <2>1. pending'[s] \in [Entity -> Event \cup {NoEvent}] /\ Len(keys'[s]) \in Nat
    BY <1>1, <1>2, <1>3
  <2>2. QED
    BY <1>3, <2>1
<1> HIDE DEF mails
<1>9. /\ Tail(mails) \in Seq([entity : Entity, event : Event \cup {NoEvent}]) /\ mails # <<>>
      /\ Len(Tail(mails)) = Len(keys[s]) - 1 /\ Head(mails) = mails[1]
      /\ \A i \in 1..(Len(keys[s]) - 1) : Tail(mails)[i] = mails[i + 1]
  BY <1>3, <1>5, HeadTailProperties
<1>10. letters(keys'[s], pending'[s]) = Tail(mails)
  <2> HIDE DEF letters
  <2>1. QED
    BY <1>3, <1>6, <1>8, <1>9, SeqEqual
<1>11. (out[s] \o InHand(s))' = Append(out[s] \o InHand(s), Head(mails).event)
  <2>1. InHand(s) = <<>> /\ InHand(s)' = <<pending[s][k]>> /\ pending[s][k] \in Event
    BY <1>1, <1>2, <1>3, <1>4 DEF InHand
  <2>2. out[s] \o <<>> = out[s]
    BY <1>1
  <2>3. out[s] \o <<pending[s][k]>> = Append(out[s], pending[s][k])
    BY <1>1, <2>1, AppendIsConcat
  <2>4. QED
    BY <1>2, <1>7, <1>9, <2>1, <2>2, <2>3
<1>12. Box(s)!Take
  BY <1>1, <1>2, <1>9, <1>10, <1>11 DEF Box!Take, mails
<1>13. QED
  BY <1>12 DEF Box!Next

(* What is sent stays on the line.                                         *)
LEMMA SendIsQuiet ==
    ASSUME Inv, NEW s \in Subs, Send(s)
    PROVE  UNCHANGED Box(s)!mail
<1>1. /\ out[s] \in Seq(Event) /\ hand[s] \in Event /\ hand[s] # NoEvent /\ pump[s] = "send"
      /\ out'[s] = Append(out[s], hand[s]) /\ hand'[s] = NoEvent /\ pump'[s] = "look"
      /\ keys'[s] = keys[s] /\ pending'[s] = pending[s]
  BY NoEventIsNone DEF Inv, Types, Handed, Send, queue
<1>2. out[s] \o <<hand[s]>> = Append(out[s], hand[s])
  BY <1>1, AppendIsConcat
<1>3. Append(out[s], hand[s]) \o <<>> = Append(out[s], hand[s])
  BY <1>1
<1>4. (out[s] \o InHand(s))' = out[s] \o InHand(s)
  BY <1>1, <1>2, <1>3 DEF InHand
<1>5. QED
  BY <1>1, <1>4 DEF Box!mail

\* A consumer's receive is the mailbox's read.
LEMMA ReceiveIsRead ==
    ASSUME Inv, NEW s \in Subs, Receive(s)
    PROVE  Box(s)!Next
<1>1. /\ out[s] \in Seq(Event) /\ out[s] # <<>> /\ hand[s] \in Event \cup {NoEvent}
      /\ out'[s] = Tail(out[s]) /\ hand'[s] = hand[s] /\ pump'[s] = pump[s]
      /\ keys'[s] = keys[s] /\ pending'[s] = pending[s]
  BY DEF Inv, Types, Receive, queue
<1>2. InHand(s) \in Seq(Event) /\ InHand(s)' = InHand(s)
  BY <1>1 DEF InHand
<1>3. out[s] \o InHand(s) # <<>> /\ Tail(out[s] \o InHand(s)) = Tail(out[s]) \o InHand(s)
  <2> DEFINE h == InHand(s)
             o == out[s]
  <2>1. h \in Seq(Event)
    BY <1>2
  <2> HIDE DEF h
  <2>2. out[s] \o h # <<>> /\ Tail(out[s] \o h) = Tail(out[s]) \o h
    <3>1. o \in Seq(Event) /\ o # <<>> /\ Len(o) \in Nat \ {0}
      BY <1>1 DEF o
    <3> HIDE DEF o
    <3>2. o \o h \in Seq(Event) /\ Len(o \o h) = Len(o) + Len(h) /\ o \o h # <<>> /\ Len(h) \in Nat
      BY <2>1, <3>1, ConcatProperties, ConcatEqualIffEmpty
    <3>3. /\ Tail(o) \in Seq(Event) /\ Len(Tail(o)) = Len(o) - 1
          /\ \A i \in 1..(Len(o) - 1) : Tail(o)[i] = o[i + 1]
      BY <3>1, HeadTailProperties
    <3>4. /\ Tail(o \o h) \in Seq(Event) /\ Len(Tail(o \o h)) = Len(o) + Len(h) - 1
          /\ \A i \in 1..(Len(o) + Len(h) - 1) : Tail(o \o h)[i] = (o \o h)[i + 1]
      BY <3>2, HeadTailProperties
    <3>5. Tail(o) \o h \in Seq(Event) /\ Len(Tail(o) \o h) = Len(o) - 1 + Len(h)
      BY <2>1, <3>3, ConcatProperties
    <3>6. ASSUME NEW i \in 1..(Len(o) + Len(h) - 1) PROVE (Tail(o) \o h)[i] = (o \o h)[i + 1]
      <4>1. (o \o h)[i + 1] = IF i + 1 <= Len(o) THEN o[i + 1] ELSE h[i + 1 - Len(o)]
        BY <2>1, <3>1, <3>2, ConcatProperties
      <4>2. (Tail(o) \o h)[i] = IF i <= Len(o) - 1 THEN Tail(o)[i] ELSE h[i - (Len(o) - 1)]
        BY <2>1, <3>1, <3>2, <3>3, ConcatProperties
      <4>3. QED
        BY <3>1, <3>2, <3>3, <4>1, <4>2
    <3>7. Tail(o \o h) = Tail(o) \o h
      BY <3>1, <3>2, <3>4, <3>5, <3>6, SeqEqual
    <3>8. QED
      BY <3>2, <3>7 DEF o
  <2>3. QED
    BY <2>2 DEF h
<1>4. Box(s)!Read
  BY <1>1, <1>2, <1>3 DEF Box!Read
<1>5. QED
  BY <1>4 DEF Box!Next

(* A pump that ends drops what it holds, and no more.                      *)
LEMMA EndIsStop ==
    ASSUME Inv, NEW s \in Subs, End(s)
    PROVE  Box(s)!Next
<1>1. /\ out[s] \in Seq(Event) /\ hand[s] \in Event \cup {NoEvent}
      /\ pump[s] # "ended" /\ pump'[s] = "ended" /\ hand'[s] = NoEvent /\ out'[s] = out[s]
      /\ keys'[s] = keys[s] /\ pending'[s] = pending[s]
  BY DEF Inv, Types, End, queue
<1> DEFINE held == out[s] \o InHand(s)
<1>2. CASE hand[s] = NoEvent
  <2>1. held' = held
    BY <1>1, <1>2 DEF InHand
  <2>2. QED
    BY <1>1, <2>1 DEF Box!Stop, Box!Next
<1>3. CASE hand[s] # NoEvent
  <2>1. held = Append(out[s], hand[s])
    BY <1>1, <1>3, AppendIsConcat DEF InHand
  <2>2. held' = out[s]
    BY <1>1 DEF InHand
  <2>3. Append(out[s], hand[s]) # <<>>
        /\ SubSeq(Append(out[s], hand[s]), 1, Len(Append(out[s], hand[s])) - 1) = out[s]
    BY <1>1, <1>3
  <2>4. held # <<>> /\ held' = SubSeq(held, 1, Len(held) - 1)
    BY <2>1, <2>2, <2>3
  <2>5. QED
    BY <1>1, <2>4 DEF Box!Stop, Box!Next
<1>4. QED
  BY <1>2, <1>3

(* Each subscription is a mailbox, and steps of the others leave it alone: *)
(* coalesced in place, delivered in order of first touch, nothing but what *)
(* a cancelled pump was holding taken from the line.                       *)
THEOREM SubscriptionsAreMailboxes == Spec => Mailboxes
<1>1. ASSUME Init, NEW s \in Subs PROVE Box(s)!Init
  BY <1>1 DEF Init, Box!Init, InHand
<1>2. ASSUME Inv, Next, NEW s \in Subs
      PROVE  [Box(s)!Next]_(Box(s)!mail)
  <2> USE <1>2
  <2>0. \A r \in Subs : /\ r \in DOMAIN keys /\ r \in DOMAIN pending /\ r \in DOMAIN out
                        /\ r \in DOMAIN hand /\ r \in DOMAIN pump
    BY DEF Inv, Types
  <2>1. CASE \E r \in Subs : Subscribe(r)
    BY <2>0, <2>1 DEF Subscribe, queue, line, Box!mail, InHand
  <2>2. CASE \/ \E r \in Subs : Detach(r) \/ CloseDone(r)
             \/ \E p \in Publishers, k \in Keys \cup {NoKey} : Publish(p, k)
             \/ \E p \in Publishers, r \in Subs : Signal(p, r)
    BY <2>2, BoxStays DEF Detach, CloseDone, Publish, Signal, queue, line
  <2>3. ASSUME NEW p \in Publishers, NEW r \in Subs, Enqueue(p, r)
        PROVE  [Box(s)!Next]_(Box(s)!mail)
    <3>1. /\ r \in pub[p].todo /\ Put(r, pub[p].event) /\ UNCHANGED <<pump, line>>
      BY <2>3 DEF Enqueue
    <3>2. CASE r = s
      BY <3>1, <3>2, KeysSuffice, PutIsPut
    <3>3. CASE r # s
      <4>1. keys'[s] = keys[s] /\ pending'[s] = pending[s]
        BY <3>1, <3>3, <2>0 DEF Put
      <4>2. QED
        BY <3>1, <4>1, BoxStays DEF line
    <3>4. QED
      BY <3>2, <3>3
  <2>4. ASSUME NEW r \in Subs, Look(r)
        PROVE  [Box(s)!Next]_(Box(s)!mail)
    <3>1. CASE keys[r] = <<>>
      <4>1. pump[r] = "look" /\ pump' = [pump EXCEPT ![r] = "wait"] /\ UNCHANGED <<queue, line>>
        BY <2>4, <3>1 DEF Look, line
      <4>2. pump'[s] = "ended" <=> pump[s] = "ended"
        BY <2>0, <4>1
      <4>3. QED
        BY <4>1, <4>2 DEF queue, line, Box!mail, InHand
    <3>2. CASE keys[r] # <<>> /\ r = s
      BY <2>4, <3>2, LookIsTake
    <3>3. CASE keys[r] # <<>> /\ r # s
      <4>1. /\ keys'[s] = keys[s] /\ pending'[s] = pending[s] /\ hand'[s] = hand[s] /\ pump'[s] = pump[s]
            /\ out'[s] = out[s]
        BY <2>0, <2>4, <3>3 DEF Look
      <4>2. QED
        BY <4>1, BoxStays
    <3>4. QED
      BY <3>1, <3>2, <3>3
  <2>5. CASE \E r \in Subs : Woken(r)
    BY <2>0, <2>5 DEF Woken, queue, line, Box!mail, InHand
  <2>6. ASSUME NEW r \in Subs, Send(r) \/ End(r) \/ Receive(r)
        PROVE  [Box(s)!Next]_(Box(s)!mail)
    <3>1. CASE r = s
      BY <2>6, <3>1, SendIsQuiet, EndIsStop, ReceiveIsRead
    <3>2. CASE r # s
      <4>1. /\ keys'[s] = keys[s] /\ pending'[s] = pending[s] /\ hand'[s] = hand[s] /\ pump'[s] = pump[s]
            /\ out'[s] = out[s]
        BY <2>0, <2>6, <3>2 DEF Send, End, Receive, queue
      <4>2. QED
        BY <4>1, BoxStays
    <3>3. QED
      BY <3>1, <3>2
  <2>7. QED
    BY <2>1, <2>2, <2>3, <2>4, <2>5, <2>6 DEF Next
<1>3. Init => \A s \in Subs : Box(s)!Init
  BY <1>1
<1>4. Inv /\ [Next]_vars => [\A s \in Subs : [Box(s)!Next]_(Box(s)!mail)]_vars
  BY <1>2
<1>5. QED
  BY <1>3, <1>4, Invariance, PTL DEF Spec, Mailboxes

----------------------------------------------------------------------------
(***************************************************************************)
(* The client the mailbox feeds (TileFeed): the tile has one home on its   *)
(* screen and stays under its user's hand.                                 *)
(***************************************************************************)

\* Rows that put the tile in one grid at most, the one its place is in.
AtHome(rows) ==
    /\ rows \in [Grids -> Row \cup {NoRow}]
    /\ \A g \in Grids : rows[g] # NoRow => GridOf[rows[g].place] = g
    /\ \A g, k \in Grids : rows[g] # NoRow /\ rows[k] # NoRow => g = k

\* Rows that have the tile where it is held.
UnderHand(rows, h) == h # NoHold => \A g \in Grids : rows[g] # NoRow => rows[g].place = h.place

\* A write that was made has a place to go to, one that landed an answer, and
\* one that is held a place to go back to.
MovesKnown ==
    /\ \A m \in Moves : moves[m].phase # "unmade" => moves[m].to \in Places
    /\ \A m \in Moves : moves[m].phase = "landed" => moves[m].answer \in Row
    /\ hold # NoHold => /\ moves[hold.move].phase # "unmade"
                        /\ moves[hold.move].origin \in Places

Feeds == FeedTypeOK /\ MovesKnown /\ AtHome(shown) /\ UnderHand(shown, hold)

\* What a row, an event and a hold hold; none of each is told apart from all.
LEMMA FeedTypes ==
    /\ \A r \in Row : /\ r.place \in Places /\ r.version \in 1..MaxVersion /\ r # NoRow
                      /\ GridOf[r.place] \in Grids
    /\ NoRow.place = NoPlace /\ NoRow.version = 0
    /\ \A h \in Hold : /\ h.move \in Moves /\ h.place \in Places /\ h.landed \in BOOLEAN
                       /\ h.covered \subseteq Places /\ h # NoHold
                       /\ GridOf[h.place] \in Grids
    /\ NoHold.move = NoMove /\ NoHold.covered = {} /\ NoHold.landed = FALSE
    /\ \A e \in FeedEvent : e.grid \in Grids /\ e.row \in Row /\ e.n \in 1..MaxCommits
    /\ MaxVersion \in Nat \ {0} /\ MaxCommits \in Nat
<1>1. \A r \in Row : r.place \in Places /\ r.version \in 1..MaxVersion
  BY DEF Row
<1>2. NoRow.place = NoPlace /\ NoRow.version = 0
  BY DEF NoRow
<1>3. \A h \in Hold : /\ h.move \in Moves /\ h.place \in Places /\ h.landed \in BOOLEAN
                      /\ h.covered \subseteq Places
  BY DEF Hold
<1>4. NoHold.move = NoMove /\ NoHold.covered = {} /\ NoHold.landed = FALSE
  BY DEF NoHold
<1>5. \A e \in FeedEvent : e.grid \in Grids /\ e.row \in Row /\ e.n \in 1..MaxCommits
  BY DEF FeedEvent
<1>6. QED
  BY <1>1, <1>2, <1>3, <1>4, <1>5, FeedAssumption DEF FeedAssumption

\* A row for a held tile is put where it is held, or ends the hold.
LEMMA AdmitHolds ==
    ASSUME NEW h \in Hold \cup {NoHold}, NEW r \in Row, NEW stream \in BOOLEAN
    PROVE  LET a == Admit(h, r, stream) IN
           /\ a.row \in Row /\ a.hold \in Hold \cup {NoHold}
           /\ a.hold # NoHold => /\ h # NoHold /\ a.hold.place = h.place /\ a.hold.move = h.move
                                 /\ a.row.place = h.place
<1>1. CASE h = NoHold \/ (stream /\ r.place = h.place) \/ (~stream /\ h.landed)
  BY <1>1 DEF Admit
<1>2. CASE ~(h = NoHold \/ (stream /\ r.place = h.place) \/ (~stream /\ h.landed))
  <2>1. h \in Hold /\ h.place \in Places /\ h.covered \subseteq Places /\ r.place \in Places
    BY <1>2, FeedTypes
  <2>2. [r EXCEPT !.place = h.place] \in Row /\ [r EXCEPT !.place = h.place].place = h.place
    BY <2>1 DEF Row
  <2>3. /\ [h EXCEPT !.covered = @ \cup {r.place}] \in Hold
        /\ [h EXCEPT !.covered = @ \cup {r.place}].place = h.place
        /\ [h EXCEPT !.covered = @ \cup {r.place}].move = h.move
    BY <2>1 DEF Hold
  <2>4. /\ Admit(h, r, stream).row = [r EXCEPT !.place = h.place]
        /\ Admit(h, r, stream).hold = [h EXCEPT !.covered = @ \cup {r.place}]
    BY <1>2 DEF Admit
  <2>5. h # NoHold
    BY <1>2
  <2>6. QED
    BY <2>2, <2>3, <2>4, <2>5
<1>3. QED
  BY <1>1, <1>2

\* The tile in one grid.
LEMMA OneRowIsHome ==
    ASSUME NEW r \in Row
    PROVE  LET rows == [x \in Grids |-> IF x = GridOf[r.place] THEN r ELSE NoRow] IN
           /\ AtHome(rows)
           /\ \A h \in Hold : h.place = r.place => UnderHand(rows, h)
<1>1. r.place \in Places /\ GridOf[r.place] \in Grids
  BY FeedTypes
<1>2. QED
  BY <1>1 DEF AtHome, UnderHand

\* A row stored: the rows as they were, or the tile in its grid.
LEMMA StoredIsHome ==
    ASSUME NEW rows, AtHome(rows), NEW r \in Row
    PROVE  /\ AtHome(Stored(rows, r))
           /\ \A h \in Hold : UnderHand(rows, h) /\ h.place = r.place => UnderHand(Stored(rows, r), h)
           /\ ~(r.version < rows[GridOf[r.place]].version) =>
                  Stored(rows, r) = [x \in Grids |-> IF x = GridOf[r.place] THEN r ELSE NoRow]
BY OneRowIsHome DEF Stored

\* A grid emptied of the tile.
LEMMA EmptiedIsHome ==
    ASSUME NEW rows, AtHome(rows), NEW g \in Grids
    PROVE  /\ AtHome([rows EXCEPT ![g] = NoRow])
           /\ \A h \in Hold \cup {NoHold} : UnderHand(rows, h) => UnderHand([rows EXCEPT ![g] = NoRow], h)
BY DEF AtHome, UnderHand

\* A read of a grid: the tile there, or not there, or put where it is held.
LEMMA ReadIsHome ==
    ASSUME NEW g \in Grids, NEW r \in Row \cup {NoRow}, hold \in Hold \cup {NoHold},
           AtHome(shown), UnderHand(shown, hold), PutGrid(hold, g, r)
    PROVE  /\ hold' \in Hold \cup {NoHold} /\ AtHome(shown') /\ UnderHand(shown', hold')
           /\ hold' # NoHold => hold # NoHold /\ hold'.move = hold.move
<1>1. CASE r = NoRow
  <2>1. \/ hold' = NoHold /\ shown' = [shown EXCEPT ![g] = NoRow]
        \/ UNCHANGED <<hold, shown>>
        \/ hold' = hold /\ shown' = [shown EXCEPT ![g] = NoRow]
    BY <1>1 DEF PutGrid
  <2>2. /\ AtHome([shown EXCEPT ![g] = NoRow]) /\ UnderHand([shown EXCEPT ![g] = NoRow], hold)
        /\ UnderHand([shown EXCEPT ![g] = NoRow], NoHold)
    BY EmptiedIsHome DEF UnderHand
  <2>3. QED
    BY <2>1, <2>2
<1>2. CASE r # NoRow
  <2>1. r \in Row /\ FALSE \in BOOLEAN
    BY <1>2
  <2>2. PICK a : a = Admit(hold, r, FALSE)
    OBVIOUS
  <2>3. /\ a.row \in Row /\ a.hold \in Hold \cup {NoHold}
        /\ a.hold # NoHold => /\ hold # NoHold /\ a.hold.place = hold.place /\ a.hold.move = hold.move
                              /\ a.row.place = hold.place
    BY <2>1, <2>2, AdmitHolds
  <2>4. hold' = a.hold /\ \/ /\ GridOf[a.row.place] = g
                             /\ shown' = [x \in Grids |-> IF x = g THEN a.row ELSE NoRow]
                          \/ shown' = Stored([shown EXCEPT ![g] = NoRow], a.row)
    BY <1>2, <2>2 DEF PutGrid
  <2>5. CASE GridOf[a.row.place] = g /\ shown' = [x \in Grids |-> IF x = g THEN a.row ELSE NoRow]
    BY <2>3, <2>4, <2>5, OneRowIsHome DEF UnderHand
  <2>6. CASE shown' = Stored([shown EXCEPT ![g] = NoRow], a.row)
    <3>1. /\ AtHome([shown EXCEPT ![g] = NoRow])
          /\ UnderHand([shown EXCEPT ![g] = NoRow], hold)
      BY EmptiedIsHome
    <3>2. /\ AtHome(shown')
          /\ \A h \in Hold : UnderHand([shown EXCEPT ![g] = NoRow], h) /\ h.place = a.row.place => UnderHand(shown', h)
      BY <2>3, <2>6, <3>1, StoredIsHome
    <3>3. ASSUME a.hold # NoHold PROVE UnderHand(shown', a.hold)
      <4>1. UnderHand([shown EXCEPT ![g] = NoRow], a.hold)
        BY <2>3, <3>1, <3>3 DEF UnderHand
      <4>2. QED
        BY <2>3, <3>2, <3>3, <4>1
    <3>4. QED
      BY <2>3, <2>4, <3>2, <3>3 DEF UnderHand
  <2>7. QED
    BY <2>4, <2>5, <2>6
<1>3. QED
  BY <1>1, <1>2

\* What the box holds.
Letters == [entity : EventKeys, event : FeedEvent]

\* The tile is where it began, and nothing is held.
LEMMA FeedBegins == ASSUME FeedInit PROVE Feeds
<1> USE DEF FeedInit
<1>1. row \in Row /\ row.place \in Places
  BY FeedTypes DEF Row
<1>2. AtHome(shown)
  BY <1>1, OneRowIsHome
<1>3. \A m \in Moves : moves[m] = Unmade
  OBVIOUS
<1>4. Unmade \in Move /\ Unmade.phase = "unmade"
  BY FeedTypes DEF Unmade, Move
<1>5. NoRead \in Read
  BY FeedTypes DEF NoRead, Read
<1>6. FeedTypeOK
  BY <1>1, <1>2, <1>3, <1>4, <1>5, FeedTypes, FeedAssumption DEF FeedTypeOK, FeedAssumption, AtHome
<1>7. QED
  BY <1>2, <1>3, <1>4, <1>6 DEF Feeds, MovesKnown, UnderHand

\* The events of a write that commits.
LEMMA CommitTypes ==
    ASSUME Feeds, NEW s \in Slots, NEW r \in Row, Commit(s, r)
    PROVE  /\ row' = r /\ commits' \in 0..MaxCommits /\ commits' = commits + 1
           /\ telling' \in [Slots -> Seq(FeedEvent)]
<1>0. /\ commits \in 0..MaxCommits /\ commits < MaxCommits /\ commits' = commits + 1
      /\ row \in Row /\ row' = r /\ telling \in [Slots -> Seq(FeedEvent)]
  BY DEF Feeds, FeedTypeOK, Commit
<1>1. commits + 1 \in 1..MaxCommits
  BY <1>0, FeedAssumption DEF FeedAssumption
<1>2. /\ Changed(r, commits + 1) \in FeedEvent
      /\ Removed(GridOf[row.place], row, commits + 1) \in FeedEvent
  BY <1>0, <1>1, FeedTypes DEF Changed, Removed, FeedEvent
<1>3. \A c, d \in FeedEvent : <<c>> \in Seq(FeedEvent) /\ <<d, c>> \in Seq(FeedEvent)
  OBVIOUS
<1>4. PICK q \in Seq(FeedEvent) : telling' = [telling EXCEPT ![s] = q]
  <2>1. telling' = [telling EXCEPT ![s] =
            IF GridOf[r.place] = GridOf[row.place] THEN <<Changed(r, commits + 1)>>
            ELSE <<Removed(GridOf[row.place], row, commits + 1), Changed(r, commits + 1)>>]
    BY DEF Commit
  <2>2. QED
    BY <1>2, <1>3, <2>1
<1>5. telling' \in [Slots -> Seq(FeedEvent)]
  BY <1>0, <1>4
<1>6. QED
  BY <1>0, <1>1, <1>5

\* The node takes the user's write or refuses it.
LEMMA NodeMovesFeeds ==
    ASSUME Feeds, NEW m \in Moves, NEW overlap \in BOOLEAN, NodeMoves(m, overlap)
    PROVE  Feeds'
<1>0. /\ moves \in [Moves -> Move] /\ moves[m] \in Move /\ moves[m].phase = "sent"
      /\ moves[m].to \in Places /\ row \in Row /\ commits \in 0..MaxCommits
      /\ UNCHANGED <<shown, hold>>
  BY DEF Feeds, FeedTypeOK, MovesKnown, NodeMoves, cacheVars
<1>1. /\ row' \in Row /\ commits' \in 0..MaxCommits /\ telling' \in [Slots -> Seq(FeedEvent)]
      /\ \/ moves' = [moves EXCEPT ![m].phase = "landed", ![m].answer = row', ![m].n = commits']
         \/ moves' = [moves EXCEPT ![m].phase = "refused"]
  <2>1. CASE UNCHANGED nodeVars /\ \/ moves' = [moves EXCEPT ![m].phase = "landed", ![m].answer = row,
                                                            ![m].n = commits]
                                   \/ moves' = [moves EXCEPT ![m].phase = "refused"]
    BY <2>1 DEF Feeds, FeedTypeOK, nodeVars
  <2>2. CASE /\ Commit(m, [row EXCEPT !.place = moves[m].to])
             /\ moves' = [moves EXCEPT ![m].phase = "landed", ![m].answer = row', ![m].n = commits + 1]
    <3>1. [row EXCEPT !.place = moves[m].to] \in Row /\ m \in Slots
      BY <1>0 DEF Row, Slots
    <3>2. QED
      BY <2>2, <3>1, CommitTypes
  <2>3. QED
    BY <2>1, <2>2 DEF NodeMoves
<1>2. \A k \in Moves : /\ moves'[k].to = moves[k].to /\ moves'[k].origin = moves[k].origin
                       /\ moves'[k].claim = moves[k].claim
                       /\ moves'[k].phase = "unmade" <=> moves[k].phase = "unmade"
                       /\ k # m => moves'[k] = moves[k]
  BY <1>0, <1>1 DEF Move
<1>3. moves' \in [Moves -> Move]
  <2>1. /\ [moves[m] EXCEPT !.phase = "landed", !.answer = row', !.n = commits'] \in Move
        /\ [moves[m] EXCEPT !.phase = "refused"] \in Move
    BY <1>0, <1>1 DEF Move
  <2>2. PICK x \in Move : moves' = [moves EXCEPT ![m] = x]
    <3>1. CASE moves' = [moves EXCEPT ![m].phase = "landed", ![m].answer = row', ![m].n = commits']
      <4>1. moves' = [moves EXCEPT ![m] = [moves[m] EXCEPT !.phase = "landed", !.answer = row', !.n = commits']]
        BY <1>0, <3>1
      <4>2. QED
        BY <2>1, <4>1
    <3>2. CASE moves' = [moves EXCEPT ![m].phase = "refused"]
      <4>1. moves' = [moves EXCEPT ![m] = [moves[m] EXCEPT !.phase = "refused"]]
        BY <3>2
      <4>2. QED
        BY <2>1, <4>1
    <3>3. QED
      BY <1>1, <3>1, <3>2
  <2>3. QED
    BY <1>0, <2>2
<1>4. moves'[m].phase = "landed" => moves'[m].answer \in Row
  BY <1>0, <1>1 DEF Move
<1>5. FeedTypeOK'
  BY <1>1, <1>3 DEF NodeMoves, Feeds, FeedTypeOK, streamVars, cacheVars
<1>6. MovesKnown'
  BY <1>0, <1>2, <1>4, FeedTypes DEF Feeds, FeedTypeOK, MovesKnown
<1>7. QED
  BY <1>0, <1>5, <1>6 DEF Feeds

\* Another client moves the tile, or edits it.
LEMMA OthersFeed ==
    ASSUME Feeds, NEW w \in Writers,
           (\E p \in Places : OtherMoves(w, p)) \/ OtherEdits(w)
    PROVE  Feeds'
<1>1. w \in Slots
  BY DEF Slots
<1>2. \E r \in Row : Commit(w, r)
  <2>1. ASSUME NEW p \in Places, OtherMoves(w, p) PROVE [row EXCEPT !.place = p] \in Row
    BY DEF Feeds, FeedTypeOK, Row
  <2>2. ASSUME OtherEdits(w) PROVE [row EXCEPT !.version = @ + 1] \in Row
    <3>1. row \in Row /\ row.version < MaxVersion
      BY <2>2 DEF Feeds, FeedTypeOK, OtherEdits
    <3>2. row.version + 1 \in 1..MaxVersion
      BY <3>1, FeedAssumption DEF FeedAssumption, Row
    <3>3. QED
      BY <3>1, <3>2 DEF Row
  <2>3. QED
    BY <2>1, <2>2 DEF OtherMoves, OtherEdits
<1>3. row' \in Row /\ commits' \in 0..MaxCommits /\ telling' \in [Slots -> Seq(FeedEvent)]
  BY <1>1, <1>2, CommitTypes
<1>4. UNCHANGED <<streamVars, press, moves, cacheVars, reads, resyncs, excuse>>
  BY DEF OtherMoves, OtherEdits
<1>5. QED
  BY <1>3, <1>4 DEF Feeds, FeedTypeOK, MovesKnown, streamVars, cacheVars

\* An event is published into the box.
LEMMA PublishesFeeds ==
    ASSUME Feeds, NEW s \in Slots, Publishes(s)
    PROVE  Feeds'
<1> USE DEF Publishes
<1>0. /\ telling \in [Slots -> Seq(FeedEvent)] /\ telling[s] \in Seq(FeedEvent) /\ telling[s] # <<>>
      /\ box \in Seq(Letters)
  BY DEF Feeds, FeedTypeOK, Letters
<1>1. Head(telling[s]) \in FeedEvent /\ Tail(telling[s]) \in Seq(FeedEvent)
  BY <1>0
<1>2. EventKey(Head(telling[s])) \in EventKeys
  BY <1>1, FeedTypes DEF EventKey, EventKeys
<1>3. telling' \in [Slots -> Seq(FeedEvent)]
  BY <1>0, <1>1
<1>4. box' \in Seq(Letters) /\ arriving' = arriving
  <2>1. CASE open
    <3>1. PICK k, e : k = EventKey(Head(telling[s])) /\ e = Head(telling[s])
      OBVIOUS
    <3>2. [entity |-> k, event |-> e] \in Letters
      BY <1>1, <1>2, <3>1 DEF Letters
    <3>3. Feed!Put(k, e)
      BY <2>1, <3>1
    <3>4. CASE Feed!Holds(k)
      <4>1. box' = [i \in DOMAIN box |-> IF box[i].entity = k THEN [entity |-> k, event |-> e] ELSE box[i]]
        BY <3>3, <3>4 DEF Feed!Put
      <4>2. box' = [i \in 1..Len(box) |-> IF box[i].entity = k THEN [entity |-> k, event |-> e] ELSE box[i]]
        BY <1>0, <4>1
      <4>3. \A i \in 1..Len(box) : box[i] \in Letters
        BY <1>0
      <4>4. box' \in [1..Len(box) -> Letters] /\ Len(box) \in Nat
        BY <1>0, <3>2, <4>2, <4>3
      <4>5. QED
        <5>1. arriving' = arriving
          BY <3>3 DEF Feed!Put
        <5>2. QED
          BY <4>4, <5>1
    <3>5. CASE ~Feed!Holds(k)
      BY <1>0, <3>2, <3>3, <3>5 DEF Feed!Put
    <3>6. QED
      BY <3>4, <3>5
  <2>2. CASE ~open
    BY <1>0, <2>2
  <2>3. QED
    BY <2>1, <2>2
<1>5. UNCHANGED <<row, commits, told, press, moves, cacheVars, reads, resyncs>> /\ open' = open
  OBVIOUS
<1>6. excuse' \subseteq excuse \cup {"order"}
  OBVIOUS
<1>7. FeedTypeOK'
  BY <1>3, <1>4, <1>5, <1>6 DEF Feeds, FeedTypeOK, cacheVars, Letters
<1>8. QED
  BY <1>5, <1>7 DEF Feeds, MovesKnown, cacheVars

\* Reads and the stream, which the cache does not hear of yet, and the press.
LEMMA QuietFeeds ==
    ASSUME Feeds,
           \/ Take \/ Break \/ Reopen
           \/ \E g \in Grids : Ask(g) \/ Answer(g) \/ Press(g)
    PROVE  Feeds'
<1>1. FeedTypeOK
  BY DEF Feeds
<1>2. UNCHANGED <<row, commits, telling, told, moves, shown, hold>>
  BY DEF Take, Break, Reopen, Ask, Answer, Press, nodeVars, cacheVars, streamVars
<1>3. box' \in Seq(Letters) /\ arriving' \in Seq(FeedEvent) /\ open' \in BOOLEAN
  <2>1. CASE Take
    <3>1. /\ box \in Seq(Letters) /\ box # <<>>
          /\ box' = Tail(box) /\ arriving' = Append(arriving, Head(box).event) /\ open' = open
      BY <1>1, <2>1 DEF FeedTypeOK, Take, Feed!Take, Letters
    <3>2. Head(box) \in Letters /\ Tail(box) \in Seq(Letters)
      BY <3>1
    <3>3. Head(box).event \in FeedEvent
      BY <3>2 DEF Letters
    <3>4. arriving \in Seq(FeedEvent) /\ open \in BOOLEAN
      BY <1>1 DEF FeedTypeOK
    <3>5. Append(arriving, Head(box).event) \in Seq(FeedEvent)
      BY <3>3, <3>4
    <3>6. QED
      BY <3>1, <3>2, <3>4, <3>5
  <2>2. CASE Break
    <3>1. box' = <<>> /\ arriving' = <<>> /\ open' = FALSE
      BY <2>2 DEF Break
    <3>2. <<>> \in Seq(Letters) /\ <<>> \in Seq(FeedEvent)
      OBVIOUS
    <3>3. QED
      BY <3>1, <3>2
  <2>3. CASE Reopen \/ \E g \in Grids : Ask(g) \/ Answer(g) \/ Press(g)
    BY <1>1, <2>3 DEF FeedTypeOK, Reopen, Ask, Answer, Press, streamVars, Letters
  <2>4. QED
    BY <2>1, <2>2, <2>3
<1>4. Asking \in Read
  <2>1. 0 \in 0..MaxCommits
    BY FeedAssumption DEF FeedAssumption
  <2>2. QED
    BY <2>1 DEF Asking, NoRead, Read
<1>5. reads' \in [Grids -> Read]
  <2>1. CASE \E g \in Grids : Answer(g)
    <3>1. PICK g \in Grids : Answer(g)
      BY <2>1
    <3>2. [reads[g] EXCEPT !.phase = "answered", !.n = commits,
                           !.row = IF GridOf[row.place] = g THEN row ELSE NoRow] \in Read
      BY <1>1 DEF FeedTypeOK, Read
    <3>3. QED
      BY <1>1, <3>1, <3>2 DEF FeedTypeOK, Answer
  <2>2. CASE Take \/ Break \/ \E g \in Grids : Press(g)
    BY <1>1, <2>2 DEF FeedTypeOK, Take, Break, Press
  <2>3. CASE Reopen \/ \E g \in Grids : Ask(g)
    BY <1>1, <1>4, <2>3 DEF FeedTypeOK, Reopen, Ask
  <2>4. QED
    BY <2>1, <2>2, <2>3
<1>6. press' \in Places \cup {NoPlace}
  <2>1. CASE \E g \in Grids : Press(g)
    BY <1>1, <2>1, FeedTypes DEF FeedTypeOK, Press, Held
  <2>2. CASE Take \/ Break \/ Reopen \/ \E g \in Grids : Ask(g) \/ Answer(g)
    BY <1>1, <2>2 DEF FeedTypeOK, Take, Break, Reopen, Ask, Answer
  <2>3. QED
    BY <2>1, <2>2
<1>7. resyncs' \in 0..MaxResyncs /\ excuse' = excuse
  <2>1. resyncs \in 0..MaxResyncs /\ MaxResyncs \in Nat
    BY <1>1, FeedAssumption DEF FeedAssumption, FeedTypeOK
  <2>2. excuse' = excuse /\ (resyncs' = resyncs \/ (resyncs < MaxResyncs /\ resyncs' = resyncs + 1))
    BY DEF Take, Break, Reopen, Ask, Answer, Press
  <2>3. QED
    BY <2>1, <2>2
<1>8. FeedTypeOK'
  BY <1>1, <1>2, <1>3, <1>5, <1>6, <1>7 DEF FeedTypeOK, Letters
<1>9. QED
  BY <1>2, <1>8 DEF Feeds, MovesKnown

\* An event is applied: a row admitted, or one taken away.
LEMMA AppliesFeeds ==
    ASSUME Feeds, ApplyChanged \/ ApplyRemoved
    PROVE  Feeds'
<1>1. /\ FeedTypeOK /\ MovesKnown /\ AtHome(shown) /\ UnderHand(shown, hold)
      /\ hold \in Hold \cup {NoHold}
  BY DEF Feeds, FeedTypeOK
<1>2. PICK e : e = Head(arriving)
  OBVIOUS
<1>3. /\ e \in FeedEvent /\ arriving' \in Seq(FeedEvent)
      /\ UNCHANGED <<nodeVars, open, box, press, moves, resyncs>>
      /\ Owed(e.grid) /\ Tell(e)
  <2>1. arriving \in Seq(FeedEvent) /\ arriving # <<>> /\ arriving' = Tail(arriving)
    BY <1>1 DEF FeedTypeOK, ApplyChanged, ApplyRemoved
  <2>2. e \in FeedEvent /\ arriving' \in Seq(FeedEvent)
    BY <1>2, <2>1
  <2>3. QED
    BY <1>2, <2>2 DEF ApplyChanged, ApplyRemoved
<1>4. e.grid \in Grids /\ e.row \in Row /\ e.n \in 0..MaxCommits
  <2>1. e.n \in 1..MaxCommits /\ MaxCommits \in Nat
    BY <1>3, FeedTypes
  <2>2. QED
    BY <1>3, <2>1, FeedTypes
<1>5. reads' \in [Grids -> Read]
  <2>1. reads \in [Grids -> Read] /\ (reads[e.grid].phase # "none") \in BOOLEAN
    BY <1>1 DEF FeedTypeOK
  <2>2. \A r \in Read, b \in BOOLEAN : [r EXCEPT !.owed = b] \in Read
    BY DEF Read
  <2>3. reads' = [reads EXCEPT ![e.grid] = [reads[e.grid] EXCEPT !.owed = reads[e.grid].phase # "none"]]
    BY <1>3 DEF Owed
  <2>4. QED
    BY <2>1, <2>2, <2>3
<1>6. told' \in 0..MaxCommits /\ excuse' \subseteq excuse \cup {"order"}
  BY <1>1, <1>3, <1>4 DEF FeedTypeOK, Tell, OutOfOrder
<1>7. /\ hold' \in Hold \cup {NoHold} /\ AtHome(shown') /\ UnderHand(shown', hold')
      /\ hold' # NoHold => hold # NoHold /\ hold'.move = hold.move
  <2>1. CASE ApplyChanged
    <3>1. PICK a : a = Admit(hold, e.row, TRUE)
      OBVIOUS
    <3>2. hold' = a.hold /\ shown' = Stored(shown, a.row)
      BY <1>2, <2>1, <3>1 DEF ApplyChanged
    <3>3. /\ a.row \in Row /\ a.hold \in Hold \cup {NoHold}
          /\ a.hold # NoHold => /\ hold # NoHold /\ a.hold.place = hold.place /\ a.hold.move = hold.move
                                /\ a.row.place = hold.place
      BY <1>1, <1>4, <3>1, AdmitHolds
    <3>4. AtHome(shown') /\ \A h \in Hold : UnderHand(shown, h) /\ h.place = a.row.place => UnderHand(shown', h)
      BY <1>1, <3>2, <3>3, StoredIsHome
    <3>5. ASSUME a.hold # NoHold PROVE UnderHand(shown', a.hold)
      <4>1. UnderHand(shown, a.hold)
        BY <1>1, <3>3, <3>5 DEF UnderHand
      <4>2. QED
        BY <3>3, <3>4, <3>5, <4>1
    <3>6. QED
      BY <3>2, <3>3, <3>4, <3>5 DEF UnderHand
  <2>2. CASE ApplyRemoved
    <3>1. hold' = hold /\ (shown' = shown \/ shown' = [shown EXCEPT ![e.grid] = NoRow])
      BY <1>2, <2>2 DEF ApplyRemoved
    <3>2. QED
      BY <1>1, <1>4, <3>1, EmptiedIsHome
  <2>3. QED
    BY <2>1, <2>2
<1>8. FeedTypeOK'
  BY <1>1, <1>3, <1>5, <1>6, <1>7 DEF FeedTypeOK, AtHome, nodeVars
<1>9. MovesKnown'
  BY <1>1, <1>3, <1>7 DEF MovesKnown
<1>10. QED
  BY <1>7, <1>8, <1>9 DEF Feeds

\* A read lands.
LEMMA LandFeeds ==
    ASSUME Feeds, NEW g \in Grids, Land(g)
    PROVE  Feeds'
<1>1. /\ FeedTypeOK /\ MovesKnown /\ AtHome(shown) /\ UnderHand(shown, hold)
      /\ hold \in Hold \cup {NoHold} /\ reads \in [Grids -> Read]
      /\ reads[g].row \in Row \cup {NoRow}
  BY DEF Feeds, FeedTypeOK, Read
<1>2. /\ PutGrid(hold, g, reads[g].row)
      /\ reads' = [reads EXCEPT ![g] = IF @.owed THEN Asking ELSE NoRead]
      /\ excuse' \subseteq excuse \cup {"stale read", "covered"}
      /\ UNCHANGED <<nodeVars, streamVars, press, moves, resyncs>>
  BY DEF Land
<1>3. /\ hold' \in Hold \cup {NoHold} /\ AtHome(shown') /\ UnderHand(shown', hold')
      /\ hold' # NoHold => hold # NoHold /\ hold'.move = hold.move
  BY <1>1, <1>2, ReadIsHome
<1>4. Asking \in Read /\ NoRead \in Read
  <2>1. 0 \in 0..MaxCommits
    BY FeedAssumption DEF FeedAssumption
  <2>2. QED
    BY <2>1 DEF Asking, NoRead, Read
<1>5. reads' \in [Grids -> Read]
  BY <1>1, <1>2, <1>4
<1>6. FeedTypeOK'
  BY <1>1, <1>2, <1>3, <1>5 DEF FeedTypeOK, AtHome, nodeVars, streamVars
<1>7. MovesKnown'
  BY <1>1, <1>2, <1>3 DEF MovesKnown
<1>8. QED
  BY <1>3, <1>6, <1>7 DEF Feeds

\* The tile is dropped: the placement is held, and shown.
LEMMA ReleaseFeeds ==
    ASSUME Feeds, NEW m \in Moves, NEW p \in Places, Release(m, p)
    PROVE  Feeds'
<1>1. /\ FeedTypeOK /\ MovesKnown /\ AtHome(shown) /\ UnderHand(shown, hold)
      /\ hold \in Hold \cup {NoHold} /\ moves \in [Moves -> Move] /\ moves[m].phase = "unmade"
      /\ press \in Places \cup {NoPlace} /\ press' = NoPlace
      /\ UNCHANGED <<nodeVars, streamVars, reads, resyncs, excuse>>
  BY DEF Feeds, FeedTypeOK, Release
<1>2. hold # NoHold => hold \in Hold /\ hold.move # m /\ hold.move \in Moves
  BY <1>1, FeedTypes DEF MovesKnown
<1>3. PICK v \in Move :
          /\ moves' = [moves EXCEPT ![m] = v] /\ v.phase = "sent" /\ v.to = p
          /\ \/ Held = {} /\ UNCHANGED cacheVars
             \/ /\ v.origin \in Places /\ hold'.move = m /\ hold' \in Hold /\ hold'.place = p
                /\ \E r \in Row : r.place = p /\ shown' = [x \in Grids |-> IF x = GridOf[p] THEN r ELSE NoRow]
  <2>0. Unmade \in Move
    <3>1. 0 \in 0..MaxCommits
      BY FeedAssumption DEF FeedAssumption
    <3>2. QED
      BY <3>1 DEF Unmade, Move
  <2>1. CASE Held = {}
    <3>1. PICK v : v = [Unmade EXCEPT !.phase = "sent", !.waiting = TRUE, !.to = p, !.claim = press]
      OBVIOUS
    <3>2. v \in Move /\ v.phase = "sent" /\ v.to = p
      BY <1>1, <2>0, <3>1 DEF Move
    <3>3. QED
      BY <2>1, <3>1, <3>2 DEF Release
  <2>2. CASE Held # {}
    <3>1. PICK k \in Grids : k \in Held /\ k = (CHOOSE g \in Held : TRUE)
      BY <2>2 DEF Held
    <3>2. /\ shown[k] \in Row /\ shown[k].place \in Places
          /\ \A g \in Grids : g # k => shown[g] = NoRow
          /\ GridOf[shown[k].place] = k
      BY <1>1, <3>1, FeedTypes DEF AtHome, Held
    <3>3. PICK r : r = [shown[k] EXCEPT !.place = p]
      OBVIOUS
    <3>4. r \in Row /\ r.place = p /\ r.version = shown[k].version /\ GridOf[p] \in Grids
      BY <3>2, <3>3, FeedTypes DEF Row
    <3>5. ~(r.version < shown[GridOf[r.place]].version)
      <4>1. r.version \in 1..MaxVersion /\ MaxVersion \in Nat /\ NoRow.version = 0
        BY <3>4, FeedTypes
      <4>2. CASE GridOf[p] = k
        BY <3>4, <4>1, <4>2
      <4>3. CASE GridOf[p] # k
        BY <3>2, <3>4, <4>1, <4>3
      <4>4. QED
        BY <4>2, <4>3
    <3>6. shown' = [x \in Grids |-> IF x = GridOf[p] THEN r ELSE NoRow]
      <4>1. shown' = Stored(shown, r)
        BY <2>2, <3>1, <3>3 DEF Release
      <4>2. QED
        BY <1>1, <3>4, <3>5, <4>1, StoredIsHome
    <3>7. PICK c : hold' = [move |-> m, place |-> p, landed |-> FALSE, covered |-> c]
                   /\ c = hold.covered \cup (IF hold = NoHold \/ hold.landed THEN {} ELSE {moves[hold.move].origin})
      BY <2>2 DEF Release
    <3>8. c \subseteq Places
      BY <1>1, <3>7, FeedTypes DEF MovesKnown
    <3>9. hold' \in Hold /\ hold'.move = m /\ hold'.place = p
      BY <3>7, <3>8 DEF Hold
    <3>10. moves' = [moves EXCEPT ![m] = [Unmade EXCEPT !.phase = "sent", !.waiting = TRUE, !.to = p,
                                                       !.claim = press, !.origin = shown[k].place]]
      BY <2>2, <3>1 DEF Release
    <3>11. PICK v : v = [Unmade EXCEPT !.phase = "sent", !.waiting = TRUE, !.to = p, !.claim = press,
                                       !.origin = shown[k].place]
      OBVIOUS
    <3>12. v \in Move /\ v.phase = "sent" /\ v.to = p /\ v.origin = shown[k].place
      BY <1>1, <2>0, <3>2, <3>11 DEF Move
    <3>13. QED
      BY <3>2, <3>4, <3>6, <3>9, <3>10, <3>11, <3>12
  <2>3. QED
    BY <2>1, <2>2
<1>4. moves' \in [Moves -> Move] /\ moves'[m] = v /\ \A k \in Moves : k # m => moves'[k] = moves[k]
  BY <1>1, <1>3
<1>5. /\ hold' \in Hold \cup {NoHold} /\ AtHome(shown') /\ UnderHand(shown', hold')
      /\ hold' # NoHold => \/ hold'.move = m /\ v.origin \in Places
                           \/ hold' = hold
  <2>1. CASE UNCHANGED cacheVars
    BY <1>1, <2>1 DEF cacheVars
  <2>2. CASE /\ v.origin \in Places /\ hold'.move = m /\ hold' \in Hold /\ hold'.place = p
             /\ \E r \in Row : r.place = p /\ shown' = [x \in Grids |-> IF x = GridOf[p] THEN r ELSE NoRow]
    <3>1. PICK r \in Row : r.place = p /\ shown' = [x \in Grids |-> IF x = GridOf[p] THEN r ELSE NoRow]
      BY <2>2
    <3>2. PICK h \in Hold : h = hold'
      BY <2>2
    <3>3. AtHome(shown') /\ UnderHand(shown', h)
      BY <2>2, <3>1, <3>2, OneRowIsHome
    <3>4. QED
      BY <2>2, <3>2, <3>3
  <2>3. QED
    BY <1>3, <2>1, <2>2
<1>6. FeedTypeOK'
  BY <1>1, <1>4, <1>5 DEF FeedTypeOK, AtHome, nodeVars, streamVars
<1>7. MovesKnown'
  BY <1>1, <1>2, <1>3, <1>4, <1>5, FeedTypes DEF MovesKnown
<1>8. QED
  BY <1>5, <1>6, <1>7 DEF Feeds

\* A write that is no longer waited for, whatever becomes of it.
LEMMA AnsweredMoves ==
    ASSUME Feeds, NEW m \in Moves, moves[m].waiting,
           \/ moves' = [moves EXCEPT ![m].waiting = FALSE]
           \/ moves[m].phase = "sent" /\ moves' = [moves EXCEPT ![m].waiting = FALSE, ![m].phase = "refused"],
           hold' # NoHold => hold # NoHold /\ hold'.move = hold.move,
           hold' \in Hold \cup {NoHold}
    PROVE  moves' \in [Moves -> Move] /\ MovesKnown'
<1>1. moves \in [Moves -> Move] /\ moves[m] \in Move /\ MovesKnown
  BY DEF Feeds, FeedTypeOK
<1>2. /\ [moves[m] EXCEPT !.waiting = FALSE] \in Move
      /\ [moves[m] EXCEPT !.waiting = FALSE, !.phase = "refused"] \in Move
  BY <1>1 DEF Move
<1>3. PICK v \in Move : /\ moves' = [moves EXCEPT ![m] = v]
                        /\ v.to = moves[m].to /\ v.answer = moves[m].answer /\ v.origin = moves[m].origin
                        /\ v.phase = moves[m].phase \/ (v.phase = "refused" /\ moves[m].phase = "sent")
  <2>1. CASE moves' = [moves EXCEPT ![m].waiting = FALSE]
    <3>1. moves' = [moves EXCEPT ![m] = [moves[m] EXCEPT !.waiting = FALSE]]
      BY <2>1
    <3>2. QED
      BY <1>1, <1>2, <3>1 DEF Move
  <2>2. CASE moves[m].phase = "sent" /\ moves' = [moves EXCEPT ![m].waiting = FALSE, ![m].phase = "refused"]
    <3>1. moves' = [moves EXCEPT ![m] = [moves[m] EXCEPT !.waiting = FALSE, !.phase = "refused"]]
      BY <1>1, <2>2
    <3>2. QED
      BY <1>1, <1>2, <2>2, <3>1 DEF Move
  <2>3. QED
    BY <2>1, <2>2
<1>4. moves' \in [Moves -> Move] /\ moves'[m] = v /\ \A k \in Moves : k # m => moves'[k] = moves[k]
  BY <1>1, <1>3
<1>5. QED
  BY <1>1, <1>3, <1>4, FeedTypes DEF MovesKnown

\* The answer is folded into the row it names.
LEMMA MoveLandsFeeds ==
    ASSUME Feeds, NEW m \in Moves, MoveLands(m)
    PROVE  Feeds'
<1>1. /\ FeedTypeOK /\ MovesKnown /\ AtHome(shown) /\ UnderHand(shown, hold)
      /\ hold \in Hold \cup {NoHold} /\ moves[m].waiting /\ moves[m].answer \in Row
      /\ moves' = [moves EXCEPT ![m].waiting = FALSE]
      /\ UNCHANGED <<nodeVars, streamVars, press, reads, resyncs>>
      /\ excuse' \subseteq excuse \cup {"late answer"}
  BY DEF Feeds, FeedTypeOK, MovesKnown, MoveLands
<1>2. /\ hold' \in Hold \cup {NoHold} /\ AtHome(shown') /\ UnderHand(shown', hold')
      /\ hold' # NoHold => hold # NoHold /\ hold'.move = hold.move
  <2>1. CASE UNCHANGED cacheVars
    BY <1>1, <2>1 DEF cacheVars
  <2>2. CASE ~UNCHANGED cacheVars
    <3>1. PICK w : w = WriteResponse(hold, moves[m].answer)
      OBVIOUS
    <3>2. /\ shown' = w.rows
          /\ hold' = IF w.hold.move = m THEN [w.hold EXCEPT !.landed = TRUE] ELSE w.hold
      BY <2>2, <3>1 DEF MoveLands, cacheVars
    <3>3. PICK g \in Grids : g = GridOf[moves[m].answer.place] /\ moves[m].answer.place \in Places
      BY <1>1, FeedTypes
    <3>4. /\ w.hold \in Hold \cup {NoHold} /\ AtHome(w.rows) /\ UnderHand(w.rows, w.hold)
          /\ w.hold # NoHold => w.hold = hold
      <4>1. CASE shown[g] = NoRow
        <5>1. w.rows = shown /\ w.hold = hold
          BY <3>1, <3>3, <4>1 DEF WriteResponse
        <5>2. QED
          BY <1>1, <5>1
      <4>2. CASE shown[g] # NoRow
        <5>1. PICK r : r = [shown[g] EXCEPT !.place = moves[m].answer.place]
          OBVIOUS
        <5>2. shown[g] \in Row /\ r \in Row
          <6>1. shown[g] \in Row /\ moves[m].answer.place \in Places
            BY <1>1, <3>3, <4>2 DEF AtHome
          <6>2. QED
            BY <5>1, <6>1 DEF Row
        <5>3. PICK a : a = Admit(hold, r, FALSE)
          OBVIOUS
        <5>4. w.rows = Stored(shown, a.row) /\ w.hold = (IF a.hold = NoHold THEN NoHold ELSE hold)
          BY <3>1, <3>3, <4>2, <5>1, <5>3 DEF WriteResponse
        <5>5. /\ a.row \in Row
              /\ a.hold # NoHold => hold # NoHold /\ a.row.place = hold.place
          BY <1>1, <5>2, <5>3, AdmitHolds
        <5>6. /\ AtHome(Stored(shown, a.row))
              /\ \A h \in Hold : UnderHand(shown, h) /\ h.place = a.row.place
                                     => UnderHand(Stored(shown, a.row), h)
          BY <1>1, <5>5, StoredIsHome
        <5>7. CASE a.hold = NoHold
          BY <5>4, <5>6, <5>7 DEF UnderHand
        <5>8. CASE a.hold # NoHold
          <6>1. w.hold = hold /\ hold \in Hold /\ hold.place = a.row.place
            BY <1>1, <5>4, <5>5, <5>8
          <6>2. UnderHand(Stored(shown, a.row), hold)
            BY <1>1, <5>6, <6>1
          <6>3. QED
            BY <5>4, <5>6, <6>1, <6>2
        <5>9. QED
          BY <5>7, <5>8
      <4>3. QED
        BY <4>1, <4>2
    <3>5. CASE w.hold.move # m
      BY <3>2, <3>4, <3>5
    <3>6. CASE w.hold.move = m
      <4>1. w.hold \in Hold
        BY <3>4, <3>6, FeedTypes, FeedAssumption DEF FeedAssumption
      <4>2. PICK h : h = [w.hold EXCEPT !.landed = TRUE]
        OBVIOUS
      <4>3. h \in Hold /\ h.place = w.hold.place /\ h.move = w.hold.move
        BY <4>1, <4>2 DEF Hold
      <4>4. w.hold # NoHold /\ h # NoHold
        BY <4>1, <4>3, FeedTypes
      <4>5. UnderHand(w.rows, h)
        BY <3>4, <4>3, <4>4 DEF UnderHand
      <4>6. hold' = h
        BY <3>2, <3>6, <4>2
      <4>7. QED
        BY <3>2, <3>4, <4>3, <4>4, <4>5, <4>6
    <3>7. QED
      BY <3>5, <3>6
  <2>3. QED
    BY <2>1, <2>2
<1>3. moves' \in [Moves -> Move] /\ MovesKnown'
  BY <1>1, <1>2, AnsweredMoves
<1>4. FeedTypeOK'
  BY <1>1, <1>2, <1>3 DEF FeedTypeOK, AtHome, nodeVars, streamVars
<1>5. QED
  BY <1>2, <1>3, <1>4 DEF Feeds

\* The row goes back where it was, and is held no more.
LEMMA FailedIsHome ==
    ASSUME Feeds, NEW m \in Moves, Failed(m)
    PROVE  /\ hold' \in Hold \cup {NoHold} /\ AtHome(shown') /\ UnderHand(shown', hold')
           /\ hold' # NoHold => hold # NoHold /\ hold'.move = hold.move
<1>1. /\ FeedTypeOK /\ MovesKnown /\ AtHome(shown) /\ UnderHand(shown, hold)
      /\ hold \in Hold \cup {NoHold}
  BY DEF Feeds, FeedTypeOK
<1>2. CASE hold.move # m
  BY <1>1, <1>2 DEF Failed, cacheVars
<1>3. CASE hold.move = m
  <2>1. hold # NoHold /\ moves[m].origin \in Places
    BY <1>1, <1>3, FeedTypes, FeedAssumption DEF FeedAssumption, MovesKnown
  <2>2. hold' = NoHold
    BY <1>3 DEF Failed
  <2>3. AtHome(shown')
    <3>1. CASE Held = {}
      BY <1>1, <1>3, <3>1 DEF Failed
    <3>2. CASE Held # {}
      <4>1. PICK k \in Grids : k \in Held /\ k = (CHOOSE g \in Held : TRUE)
        BY <3>2 DEF Held
      <4>2. PICK r : r = [shown[k] EXCEPT !.place = moves[m].origin]
        OBVIOUS
      <4>3. shown[k] \in Row /\ r \in Row
        BY <1>1, <2>1, <4>1, <4>2 DEF AtHome, Held, Row
      <4>4. shown' = Stored(shown, r)
        BY <1>3, <3>2, <4>1, <4>2 DEF Failed
      <4>5. QED
        BY <1>1, <4>3, <4>4, StoredIsHome
    <3>3. QED
      BY <3>1, <3>2
  <2>4. QED
    BY <2>2, <2>3 DEF UnderHand
<1>4. QED
  BY <1>2, <1>3

\* The write is refused, or the client gives up waiting for it.
LEMMA FailsFeeds ==
    ASSUME Feeds, NEW m \in Moves, MoveRefused(m) \/ MoveUnheard(m)
    PROVE  Feeds'
<1>1. /\ FeedTypeOK /\ moves[m].waiting /\ Failed(m)
      /\ \/ moves' = [moves EXCEPT ![m].waiting = FALSE]
         \/ moves[m].phase = "sent" /\ moves' = [moves EXCEPT ![m].waiting = FALSE, ![m].phase = "refused"]
      /\ excuse' \subseteq excuse \cup {"refused", "unheard"}
      /\ UNCHANGED <<nodeVars, streamVars, press, resyncs>>
  BY DEF Feeds, MoveRefused, MoveUnheard
<1>2. /\ hold' \in Hold \cup {NoHold} /\ AtHome(shown') /\ UnderHand(shown', hold')
      /\ hold' # NoHold => hold # NoHold /\ hold'.move = hold.move
  BY <1>1, FailedIsHome
<1>3. moves' \in [Moves -> Move] /\ MovesKnown'
  BY <1>1, <1>2, AnsweredMoves
<1>4. reads' \in [Grids -> Read]
  <2>1. reads \in [Grids -> Read]
    BY <1>1 DEF FeedTypeOK
  <2>2. \A r \in Read : [r EXCEPT !.owed = TRUE] \in Read
    BY DEF Read
  <2>3. Asking \in Read
    <3>1. 0 \in 0..MaxCommits
      BY FeedAssumption DEF FeedAssumption
    <3>2. QED
      BY <3>1 DEF Asking, NoRead, Read
  <2>4. \A g : Refetched(g) \in [Grids -> Read]
    BY <2>1, <2>2, <2>3 DEF Refetched
  <2>5. QED
    BY <2>1, <2>4 DEF MoveRefused, MoveUnheard
<1>5. FeedTypeOK'
  BY <1>1, <1>2, <1>3, <1>4 DEF FeedTypeOK, AtHome, nodeVars, streamVars
<1>6. QED
  BY <1>2, <1>3, <1>5 DEF Feeds

\* Every step.
LEMMA FeedStays == ASSUME Feeds, [FeedNext]_feedVars PROVE Feeds'
<1>1. CASE UNCHANGED feedVars
  BY <1>1 DEF feedVars, nodeVars, streamVars, cacheVars, Feeds, FeedTypeOK, MovesKnown
<1>2. CASE FeedNext
  BY <1>2, NodeMovesFeeds, OthersFeed, PublishesFeeds, QuietFeeds, AppliesFeeds, LandFeeds, ReleaseFeeds,
     MoveLandsFeeds, FailsFeeds DEF FeedNext
<1>3. QED
  BY <1>1, <1>2

LEMMA FeedHolds == FeedSpec => []Feeds
BY FeedBegins, FeedStays, PTL DEF FeedSpec

\* "A row has one home: the grid that last answered for it" (cache.go): however
\* reads, events, answers and refusals interleave, the tile is on the screen
\* once at most, in the grid its row names.
THEOREM TileHasOneHome == FeedSpec => []OneHome
<1>1. Feeds => OneHome
  <2> SUFFICES ASSUME Feeds PROVE OneHome
    OBVIOUS
  <2>1. AtHome(shown)
    BY DEF Feeds
  <2>2. Cardinality(Held) <= 1
    <3>1. CASE Held = {}
      BY <3>1, FS_EmptySet
    <3>2. CASE Held # {}
      <4>1. PICK g \in Grids : Held = {g}
        BY <2>1, <3>2 DEF AtHome, Held
      <4>2. Cardinality(Held) = 1
        BY <4>1, FS_Singleton
      <4>3. QED
        BY <4>2
    <3>3. QED
      BY <3>1, <3>2
  <2>3. QED
    BY <2>1, <2>2 DEF OneHome, AtHome, Held
<1>2. QED
  BY <1>1, FeedHolds, PTL

\* The user's placement stays under the user's hand: no row that is not its
\* echo, whichever grid it comes from and however late, moves a held tile.
THEOREM HandIsFollowed == FeedSpec => []HeldShown
<1>1. Feeds => HeldShown
  BY DEF Feeds, UnderHand, HeldShown, Held
<1>2. QED
  BY <1>1, FeedHolds, PTL

----------------------------------------------------------------------------
(***************************************************************************)
(* What reconciles the screen (TileFeed): the newest row is shown, or is   *)
(* still to come, by the stream or by a read.                              *)
(***************************************************************************)

\* The events a queue holds, and a box; the events on their way.
Words(q)    == {q[i] : i \in DOMAIN q}
BoxWords(b) == {b[i].event : i \in DOMAIN b}
Sent        == BoxWords(box) \cup Words(arriving)
Untold      == {e \in FeedEvent : \E s \in Slots : e \in Words(telling[s])}
OnWay       == Sent \cup Untold

IsRow(e) == e.kind = "changed"
Home     == GridOf[row.place]

\* The row as the newest commit left it is to come: by its event, by the reads
\* of a stream that is to be opened, or by a read that was not answered before.
LastComing == \E e \in OnWay : IsRow(e) /\ e.n = commits
Reading(g) == /\ reads[g].phase # "none"
              /\ reads[g].phase = "asked" \/ reads[g].owed \/ reads[g].n = commits
Awaited    == LastComing \/ ~open \/ Reading(Home)

\* An event says no more than the node did, and the newest what it holds.
EventsAreTrue ==
    \A e \in OnWay :
        /\ e.n <= commits /\ e.row.version <= row.version
        /\ IsRow(e) => e.grid = GridOf[e.row.place]
        /\ IsRow(e) /\ e.n = commits => e.row = row
        /\ ~IsRow(e) /\ e.n = commits => e.grid # Home

BoxIsKeyed ==
    /\ ~open => box = <<>> /\ arriving = <<>>
    /\ \A i \in DOMAIN box : box[i].entity = EventKey(box[i].event)
    /\ \A i, j \in DOMAIN box : box[i].entity = box[j].entity => i = j

\* A request tells of its one commit, the removal before the row.
TellsOf(q) ==
    \/ q = <<>>
    \/ \E c \in FeedEvent : q = <<c>> /\ IsRow(c)
    \/ \E b, c \in FeedEvent : q = <<b, c>> /\ ~IsRow(b) /\ IsRow(c) /\ b.n = c.n
TellsInPairs ==
    /\ \A s \in Slots : TellsOf(telling[s])
    /\ \A m \in Moves : moves[m].phase # "landed" => telling[m] = <<>>

AnswersAreTrue ==
    \A m \in Moves : moves[m].phase = "landed" =>
        /\ moves[m].answer.place = moves[m].to
        /\ moves[m].n <= commits
        /\ moves[m].n = commits => moves[m].answer = row

ReadsAreTrue ==
    \A g \in Grids : reads[g].phase = "answered" =>
        /\ reads[g].n <= commits
        /\ reads[g].n = commits => reads[g].row = IF g = Home THEN row ELSE NoRow
        /\ reads[g].row # NoRow => /\ GridOf[reads[g].row.place] = g
                                   /\ reads[g].row.version <= row.version

Said == EventsAreTrue /\ BoxIsKeyed /\ TellsInPairs /\ AnswersAreTrue /\ ReadsAreTrue

\* What a queue holds, as it grows and as it is read.
LEMMA WordsOf ==
    ASSUME NEW S, NEW q \in Seq(S)
    PROVE  /\ Words(q) \subseteq S
           /\ \A e : Words(Append(q, e)) = Words(q) \cup {e}
           /\ q # <<>> => /\ Head(q) \in Words(q) /\ Words(q) = {Head(q)} \cup Words(Tail(q))
                          /\ Tail(q) \in Seq(S)
<1>1. Words(q) \subseteq S
  BY DEF Words
<1>2. ASSUME NEW e PROVE Words(Append(q, e)) = Words(q) \cup {e}
  <2>1. q \in Seq(S \cup {e}) /\ e \in S \cup {e}
    OBVIOUS
  <2>2. PICK r : r = Append(q, e)
    OBVIOUS
  <2>3. /\ DOMAIN r = 1..(Len(q) + 1) /\ DOMAIN q = 1..Len(q) /\ Len(q) \in Nat
        /\ \A i \in 1..Len(q) : r[i] = q[i]
        /\ r[Len(q) + 1] = e
    BY <2>1, <2>2
  <2>4. \A x : x \in Words(r) <=> x \in Words(q) \/ x = e
    BY <2>3 DEF Words
  <2>5. QED
    BY <2>2, <2>4
<1>3. ASSUME q # <<>> PROVE Words(q) = {Head(q)} \cup Words(Tail(q)) /\ Tail(q) \in Seq(S)
  <2>1. PICK r : r = Tail(q)
    OBVIOUS
  <2>2. /\ Len(q) \in Nat \ {0} /\ DOMAIN q = 1..Len(q) /\ Head(q) = q[1]
        /\ DOMAIN r = 1..(Len(q) - 1) /\ \A i \in 1..(Len(q) - 1) : r[i] = q[i + 1]
        /\ r \in Seq(S)
    BY <1>3, <2>1
  <2>3. \A i \in 1..Len(q) : i = 1 \/ (i - 1 \in 1..(Len(q) - 1) /\ q[i] = r[i - 1])
    BY <2>2
  <2>4. 1 \in 1..Len(q) /\ \A i \in 1..(Len(q) - 1) : i + 1 \in 1..Len(q)
    BY <2>2
  <2>5. \A x : x \in Words(q) <=> \E i \in 1..Len(q) : x = q[i]
    BY <2>2 DEF Words
  <2>6. \A x : x \in Words(r) <=> \E i \in 1..(Len(q) - 1) : x = q[i + 1]
    BY <2>2 DEF Words
  <2>7. \A x : x \in Words(q) <=> x = Head(q) \/ x \in Words(r)
    <3>1. ASSUME NEW x, x \in Words(q) PROVE x = Head(q) \/ x \in Words(r)
      <4>1. PICK i \in 1..Len(q) : x = q[i]
        BY <2>5, <3>1
      <4>2. CASE i = 1
        BY <2>2, <4>1, <4>2
      <4>3. CASE i # 1
        <5>1. i - 1 \in 1..(Len(q) - 1) /\ x = q[(i - 1) + 1]
          BY <2>2, <4>1, <4>3
        <5>2. QED
          BY <2>6, <5>1
      <4>4. QED
        BY <4>2, <4>3
    <3>2. Head(q) \in Words(q)
      BY <2>2, <2>4, <2>5
    <3>3. ASSUME NEW x, x \in Words(r) PROVE x \in Words(q)
      BY <2>4, <2>5, <2>6, <3>3
    <3>4. QED
      BY <3>1, <3>2, <3>3
  <2>8. QED
    BY <2>1, <2>2, <2>7
<1>4. QED
  BY <1>1, <1>2, <1>3

\* An event put into the box: it is there, under its key, instead of an older
\* one of that key.
LEMMA PutWords ==
    ASSUME box \in Seq(Letters), BoxIsKeyed, NEW e \in FeedEvent, open,
           Feed!Put(EventKey(e), e)
    PROVE  /\ e \in BoxWords(box') /\ BoxWords(box') \subseteq BoxWords(box) \cup {e}
           /\ \A x \in BoxWords(box) : x \in BoxWords(box') \/ EventKey(x) = EventKey(e)
           /\ \A i \in DOMAIN box' : box'[i].entity = EventKey(box'[i].event)
           /\ \A i, j \in DOMAIN box' : box'[i].entity = box'[j].entity => i = j
           /\ arriving' = arriving
<1>1. PICK k, l : k = EventKey(e) /\ l = [entity |-> k, event |-> e]
  OBVIOUS
<1>2. l.entity = k /\ l.event = e
  BY <1>1
<1>3. Feed!Put(k, e) /\ arriving' = arriving
  BY <1>1 DEF Feed!Put
<1>4. /\ \A i \in DOMAIN box : box[i].entity = EventKey(box[i].event)
      /\ \A i, j \in DOMAIN box : box[i].entity = box[j].entity => i = j
  BY DEF BoxIsKeyed
<1>5. CASE Feed!Holds(k)
  <2>1. PICK i \in DOMAIN box : box[i].entity = k
    BY <1>5 DEF Feed!Holds
  <2>2. box' = [j \in DOMAIN box |-> IF box[j].entity = k THEN l ELSE box[j]]
    BY <1>1, <1>3, <1>5 DEF Feed!Put
  <2>3. DOMAIN box' = DOMAIN box /\ box'[i] = l /\ \A j \in DOMAIN box : j # i => box'[j] = box[j]
    BY <1>4, <2>1, <2>2
  <2>4. \A x : x \in BoxWords(box') <=> \E j \in DOMAIN box : x = box'[j].event
    BY <2>3 DEF BoxWords
  <2>5. QED
    BY <1>1, <1>2, <1>3, <1>4, <2>1, <2>3, <2>4 DEF BoxWords
<1>6. CASE ~Feed!Holds(k)
  <2>1. box' = Append(box, l)
    BY <1>1, <1>3, <1>6 DEF Feed!Put
  <2>2. /\ DOMAIN box = 1..Len(box) /\ DOMAIN box' = 1..(Len(box) + 1) /\ Len(box) \in Nat
        /\ \A j \in 1..Len(box) : box'[j] = box[j]
        /\ box'[Len(box) + 1] = l
    <3>1. box \in Seq(Letters \cup {l}) /\ l \in Letters \cup {l}
      OBVIOUS
    <3>2. QED
      BY <2>1, <3>1
  <2>3. \A j \in DOMAIN box : box[j].entity # k
    BY <1>6 DEF Feed!Holds
  <2>4. \A x : x \in BoxWords(box') <=> x = e \/ \E j \in DOMAIN box : x = box[j].event
    BY <1>2, <2>2 DEF BoxWords
  <2>5. \A j \in DOMAIN box' : j \in DOMAIN box \/ j = Len(box) + 1
    BY <2>2
  <2>6. QED
    BY <1>1, <1>2, <1>3, <1>4, <2>2, <2>3, <2>4, <2>5 DEF BoxWords
<1>7. QED
  BY <1>5, <1>6

\* The box's first letter taken.
LEMMA TakeWords ==
    ASSUME NEW b \in Seq(Letters), b # <<>>
    PROVE  /\ BoxWords(b) = {Head(b).event} \cup BoxWords(Tail(b))
           /\ Head(b) \in Letters /\ Head(b) = b[1] /\ 1 \in DOMAIN b
           /\ \A i \in DOMAIN Tail(b) : i + 1 \in DOMAIN b /\ i + 1 # 1 /\ Tail(b)[i] = b[i + 1] /\ i \in Nat
<1>1. PICK r : r = Tail(b)
  OBVIOUS
<1>2. /\ Len(b) \in Nat \ {0} /\ DOMAIN b = 1..Len(b) /\ Head(b) = b[1]
      /\ DOMAIN r = 1..(Len(b) - 1) /\ \A i \in 1..(Len(b) - 1) : r[i] = b[i + 1]
  BY <1>1
<1>3. \A i \in 1..Len(b) : i = 1 \/ (i - 1 \in 1..(Len(b) - 1) /\ b[i] = r[i - 1])
  BY <1>2
<1>4. \A x : x \in BoxWords(b) <=> x = Head(b).event \/ x \in BoxWords(r)
  <2>1. 1 \in 1..Len(b) /\ \A i \in 1..(Len(b) - 1) : i + 1 \in 1..Len(b)
    BY <1>2
  <2>2. \A x : x \in BoxWords(b) <=> \E i \in 1..Len(b) : x = b[i].event
    BY <1>2 DEF BoxWords
  <2>3. \A x : x \in BoxWords(r) <=> \E i \in 1..(Len(b) - 1) : x = r[i].event
    BY <1>2 DEF BoxWords
  <2>4. ASSUME NEW x PROVE (x \in BoxWords(b)) <=> (x = Head(b).event \/ x \in BoxWords(r))
    <3>1. ASSUME NEW i \in 1..Len(b), x = b[i].event PROVE x = Head(b).event \/ x \in BoxWords(r)
      BY <1>2, <1>3, <2>3, <3>1
    <3>2. ASSUME NEW i \in 1..(Len(b) - 1), x = r[i].event PROVE x \in BoxWords(b)
      BY <1>2, <2>1, <2>2, <3>2
    <3>3. QED
      BY <1>2, <2>1, <2>2, <2>3, <3>1, <3>2
  <2>5. QED
    BY <2>4
<1>5. Head(b) \in Letters /\ \A i \in DOMAIN r : i + 1 \in DOMAIN b /\ i + 1 # 1 /\ i \in Nat
  BY <1>2
<1>6. QED
  BY <1>1, <1>2, <1>4, <1>5

\* Two events of one key are both rows, or both removals.
LEMMA KeysTell ==
    ASSUME NEW x \in FeedEvent, NEW y \in FeedEvent, EventKey(x) = EventKey(y)
    PROVE  IsRow(x) <=> IsRow(y)
<1>1. x.grid \in Grids /\ y.grid \in Grids /\ "row" \notin Grids
  BY FeedTypes, FeedAssumption DEF FeedAssumption
<1>2. x.kind \in {"changed", "removed"} /\ y.kind \in {"changed", "removed"}
  BY DEF FeedEvent
<1>3. QED
  BY <1>1, <1>2 DEF EventKey, IsRow

\* What the stream's variables hold.
LEMMA WayTypes ==
    ASSUME Feeds
    PROVE  /\ telling \in [Slots -> Seq(FeedEvent)] /\ box \in Seq(Letters) /\ arriving \in Seq(FeedEvent)
           /\ BoxWords(box) \subseteq FeedEvent /\ Words(arriving) \subseteq FeedEvent
           /\ Sent \subseteq FeedEvent /\ OnWay \subseteq FeedEvent
           /\ \A s \in Slots : Words(telling[s]) \subseteq Untold
           /\ commits \in 0..MaxCommits /\ told \in 0..MaxCommits /\ MaxCommits \in Nat
           /\ row \in Row /\ open \in BOOLEAN
<1>1. /\ telling \in [Slots -> Seq(FeedEvent)] /\ box \in Seq(Letters) /\ arriving \in Seq(FeedEvent)
      /\ commits \in 0..MaxCommits /\ told \in 0..MaxCommits /\ row \in Row /\ open \in BOOLEAN
  BY DEF Feeds, FeedTypeOK, Letters
<1>2. \A s \in Slots : Words(telling[s]) \subseteq FeedEvent
  BY <1>1, WordsOf
<1>3. Words(arriving) \subseteq FeedEvent
  BY <1>1, WordsOf
<1>4. BoxWords(box) \subseteq FeedEvent
  <2>1. \A i \in DOMAIN box : box[i] \in Letters
    BY <1>1
  <2>2. QED
    BY <2>1 DEF BoxWords, Letters
<1>5. Untold \subseteq FeedEvent /\ \A s \in Slots : Words(telling[s]) \subseteq Untold
  BY <1>2 DEF Untold
<1>6. QED
  BY <1>1, <1>3, <1>4, <1>5, FeedTypes DEF Sent, OnWay

\* One request's events replaced: the others' stay.
LEMMA UntoldOf ==
    ASSUME Feeds, Feeds', NEW s \in Slots, NEW q \in Seq(FeedEvent), telling' = [telling EXCEPT ![s] = q]
    PROVE  /\ Untold' \subseteq Untold \cup Words(q) /\ Words(q) \subseteq Untold'
           /\ Untold \subseteq Untold' \cup Words(telling[s])
<1>1. /\ telling \in [Slots -> Seq(FeedEvent)] /\ telling' \in [Slots -> Seq(FeedEvent)]
      /\ telling'[s] = q /\ \A t \in Slots : t # s => telling'[t] = telling[t]
  BY WayTypes
<1>2. Words(q) \subseteq FeedEvent
  BY WordsOf
<1>3. \A e : e \in Untold <=> e \in FeedEvent /\ \E t \in Slots : e \in Words(telling[t])
  BY DEF Untold
<1>4. \A e : e \in Untold' <=> e \in FeedEvent /\ \E t \in Slots : e \in Words(telling'[t])
  BY DEF Untold, Words
<1>5. QED
  BY <1>1, <1>2, <1>3, <1>4

\* What a request's queue holds.
LEMMA TellsWords ==
    /\ \A q : Words(<<q>>) = {q}
    /\ \A q, r : Words(<<q, r>>) = {q, r}
    /\ Words(<<>>) = {}
<1>1. ASSUME NEW q PROVE Words(<<q>>) = {q}
  BY DEF Words
<1>2. ASSUME NEW q, NEW r PROVE Words(<<q, r>>) = {q, r}
  <2>1. DOMAIN <<q, r>> = {1, 2} /\ <<q, r>>[1] = q /\ <<q, r>>[2] = r
    OBVIOUS
  <2>2. QED
    BY <2>1 DEF Words
<1>3. Words(<<>>) = {}
  BY DEF Words
<1>4. QED
  BY <1>1, <1>2, <1>3

\* A write commits: its events are the newest on the way.
LEMMA CommitWay ==
    ASSUME Feeds, Feeds', TellsInPairs, NEW s \in Slots, telling[s] = <<>>, NEW r \in Row, Commit(s, r),
           UNCHANGED <<box, arriving>>
    PROVE  /\ row' = r /\ commits' = commits + 1 /\ Sent' = Sent /\ OnWay \subseteq OnWay'
           /\ Changed(r, commits + 1) \in Untold'
           /\ \A e \in Untold' : \/ e \in Untold
                                \/ e = Changed(r, commits + 1)
                                \/ /\ e = Removed(GridOf[row.place], row, commits + 1)
                                   /\ GridOf[r.place] # GridOf[row.place]
           /\ TellsOf(telling'[s]) /\ \A t \in Slots : t # s => telling'[t] = telling[t]
<1>1. PICK n, c, b : n = commits + 1 /\ c = Changed(r, n) /\ b = Removed(GridOf[row.place], row, n)
  OBVIOUS
<1>2. PICK q : q = IF GridOf[r.place] = GridOf[row.place] THEN <<c>> ELSE <<b, c>>
  OBVIOUS
<1>3. telling' = [telling EXCEPT ![s] = q] /\ row' = r /\ commits' = n
  BY <1>1, <1>2 DEF Commit
<1>4. /\ telling \in [Slots -> Seq(FeedEvent)] /\ telling' \in [Slots -> Seq(FeedEvent)]
      /\ telling'[s] = q /\ \A t \in Slots : t # s => telling'[t] = telling[t]
  <2>1. telling' \in [Slots -> Seq(FeedEvent)]
    BY DEF Feeds, FeedTypeOK
  <2>2. QED
    BY <1>3, <2>1, WayTypes
<1>5. q \in Seq(FeedEvent)
  <2>1. telling'[s] \in Seq(FeedEvent)
    BY <1>4
  <2>2. QED
    BY <1>4, <2>1
<1>6. Words(q) = IF GridOf[r.place] = GridOf[row.place] THEN {c} ELSE {b, c}
  BY <1>2, TellsWords
<1>7. Words(q) \subseteq FeedEvent
  BY <1>5, WordsOf
<1>8. TellsOf(q)
  <2>1. IsRow(c) /\ ~IsRow(b) /\ b.n = c.n
    BY <1>1 DEF Changed, Removed, IsRow
  <2>2. CASE GridOf[r.place] = GridOf[row.place]
    <3>1. q = <<c>> /\ c \in FeedEvent
      BY <1>2, <1>6, <1>7, <2>2
    <3>2. QED
      BY <2>1, <3>1 DEF TellsOf
  <2>3. CASE GridOf[r.place] # GridOf[row.place]
    <3>1. q = <<b, c>> /\ b \in FeedEvent /\ c \in FeedEvent
      BY <1>2, <1>6, <1>7, <2>3
    <3>2. QED
      BY <2>1, <3>1 DEF TellsOf
  <2>4. QED
    BY <2>2, <2>3
<1>9. /\ Untold' \subseteq Untold \cup Words(q) /\ Words(q) \subseteq Untold'
      /\ Untold \subseteq Untold' \cup Words(telling[s])
  BY <1>3, <1>5, UntoldOf
<1>10. Untold \subseteq Untold'
  BY <1>9, TellsWords
<1>11. Sent' = Sent
  BY DEF Sent
<1>12. QED
  BY <1>1, <1>3, <1>4, <1>6, <1>8, <1>9, <1>10, <1>11 DEF OnWay

\* A request's head is the first of its commit's events.
LEMMA HeadTells ==
    ASSUME NEW q \in Seq(FeedEvent), TellsOf(q), q # <<>>
    PROVE  /\ Head(q) \in FeedEvent /\ TellsOf(Tail(q)) /\ Tail(q) \in Seq(FeedEvent)
           /\ Words(q) = {Head(q)} \cup Words(Tail(q))
           /\ \A x \in Words(q) : x.n = Head(q).n
<1>1. Head(q) \in FeedEvent /\ Tail(q) \in Seq(FeedEvent) /\ Words(q) = {Head(q)} \cup Words(Tail(q))
  BY WordsOf
<1>2. CASE \E c \in FeedEvent : q = <<c>> /\ IsRow(c)
  <2>1. PICK c \in FeedEvent : q = <<c>> /\ IsRow(c)
    BY <1>2
  <2>2. Head(q) = c /\ Tail(q) = <<>>
    BY <2>1
  <2>3. Words(q) = {c}
    BY <2>1, TellsWords
  <2>4. TellsOf(<<>>)
    BY DEF TellsOf
  <2>5. QED
    BY <1>1, <2>2, <2>3, <2>4
<1>3. CASE \E b, c \in FeedEvent : q = <<b, c>> /\ ~IsRow(b) /\ IsRow(c) /\ b.n = c.n
  <2>1. PICK b, c \in FeedEvent : q = <<b, c>> /\ ~IsRow(b) /\ IsRow(c) /\ b.n = c.n
    BY <1>3
  <2>2. Head(q) = b /\ Tail(q) = <<c>>
    BY <2>1
  <2>3. Words(q) = {b, c}
    BY <2>1, TellsWords
  <2>4. TellsOf(<<c>>)
    BY <2>1 DEF TellsOf
  <2>5. QED
    BY <1>1, <2>1, <2>2, <2>3, <2>4
<1>4. QED
  BY <1>2, <1>3 DEF TellsOf

\* An event is published: it is in the box, or nobody is subscribed; an event
\* of its key may have made room for it.
LEMMA PublishWay ==
    ASSUME Feeds, Feeds', TellsInPairs, BoxIsKeyed, NEW s \in Slots, Publishes(s)
    PROVE  /\ Head(telling[s]) \in Untold /\ Untold' \subseteq Untold
           /\ Untold \subseteq Untold' \cup {Head(telling[s])}
           /\ Sent' \subseteq Sent \cup {Head(telling[s])}
           /\ open => /\ Head(telling[s]) \in Sent'
                      /\ \A x \in Sent : x \in Sent' \/ EventKey(x) = EventKey(Head(telling[s]))
           /\ ~open => Sent = {} /\ Sent' = {}
           /\ ~Overtakes(s) => \A x \in Untold' : Head(telling[s]).n <= x.n
           /\ TellsInPairs' /\ BoxIsKeyed' /\ arriving' = arriving /\ open' = open
           /\ BoxWords(box') \subseteq BoxWords(box) \cup {Head(telling[s])}
<1>1. PICK e, q : e = Head(telling[s]) /\ q = Tail(telling[s])
  OBVIOUS
<1>2. telling' = [telling EXCEPT ![s] = q] /\ telling[s] # <<>> /\ open' = open /\ moves' = moves
  BY <1>1 DEF Publishes
<1>3. /\ telling \in [Slots -> Seq(FeedEvent)] /\ telling[s] \in Seq(FeedEvent)
      /\ box \in Seq(Letters) /\ open \in BOOLEAN
  BY WayTypes
<1>4. /\ e \in FeedEvent /\ TellsOf(q) /\ q \in Seq(FeedEvent) /\ Words(telling[s]) = {e} \cup Words(q)
      /\ \A x \in Words(telling[s]) : x.n = e.n
  <2>1. TellsOf(telling[s])
    BY DEF TellsInPairs
  <2>2. QED
    BY <1>1, <1>2, <1>3, <2>1, HeadTells
<1>5. /\ Untold' \subseteq Untold \cup Words(q) /\ Words(q) \subseteq Untold'
      /\ Untold \subseteq Untold' \cup Words(telling[s])
  BY <1>2, <1>4, UntoldOf
<1>6. Words(telling[s]) \subseteq Untold
  BY WayTypes
<1>7. telling'[s] = q /\ \A t \in Slots : t # s => telling'[t] = telling[t]
  BY <1>2, <1>3
<1>8. TellsInPairs'
  <2>1. \A t \in Slots : TellsOf(telling'[t])
    BY <1>4, <1>7 DEF TellsInPairs
  <2>2. \A m \in Moves : moves'[m].phase # "landed" => telling'[m] = <<>>
    BY <1>2, <1>7 DEF TellsInPairs, Slots
  <2>3. QED
    BY <2>1, <2>2 DEF TellsInPairs, TellsOf, IsRow
<1>9. /\ open => /\ e \in BoxWords(box') /\ BoxWords(box') \subseteq BoxWords(box) \cup {e}
                 /\ \A x \in BoxWords(box) : x \in BoxWords(box') \/ EventKey(x) = EventKey(e)
      /\ ~open => box' = box
      /\ BoxIsKeyed' /\ arriving' = arriving
  <2>1. CASE open
    <3>1. Feed!Put(EventKey(e), e)
      BY <1>1, <2>1 DEF Publishes
    <3>2. /\ e \in BoxWords(box') /\ BoxWords(box') \subseteq BoxWords(box) \cup {e}
          /\ \A x \in BoxWords(box) : x \in BoxWords(box') \/ EventKey(x) = EventKey(e)
          /\ \A i \in DOMAIN box' : box'[i].entity = EventKey(box'[i].event)
          /\ \A i, j \in DOMAIN box' : box'[i].entity = box'[j].entity => i = j
          /\ arriving' = arriving
      BY <1>3, <1>4, <2>1, <3>1, PutWords
    <3>3. BoxIsKeyed'
      BY <1>2, <2>1, <3>2 DEF BoxIsKeyed, EventKey
    <3>4. QED
      BY <2>1, <3>2, <3>3
  <2>2. CASE ~open
    <3>1. UNCHANGED <<box, arriving>>
      BY <2>2 DEF Publishes
    <3>2. BoxIsKeyed'
      BY <1>2, <3>1 DEF BoxIsKeyed, EventKey
    <3>3. QED
      BY <2>2, <3>1, <3>2
  <2>3. QED
    BY <1>3, <2>1, <2>2
<1>10. Sent' = BoxWords(box') \cup Words(arriving) /\ Sent = BoxWords(box) \cup Words(arriving)
  BY <1>9 DEF Sent, BoxWords, Words
<1>11. ~open => Sent = {}
  <2>1. ASSUME ~open PROVE box = <<>> /\ arriving = <<>>
    BY <2>1 DEF BoxIsKeyed
  <2>2. BoxWords(<<>>) = {} /\ Words(<<>>) = {}
    BY DEF BoxWords, Words
  <2>3. QED
    BY <2>1, <2>2 DEF Sent
<1>12. ASSUME ~Overtakes(s), NEW x \in Untold' PROVE e.n <= x.n
  <2>1. x \in FeedEvent /\ \E t \in Slots : x \in Words(telling'[t])
    BY DEF Untold, Words
  <2>2. PICK t \in Slots : x \in Words(telling'[t])
    BY <2>1
  <2>3. CASE t = s
    <3>1. x \in Words(telling[s])
      BY <1>4, <1>7, <2>2, <2>3
    <3>2. x.n = e.n /\ e.n \in Nat
      BY <1>4, <3>1 DEF FeedEvent
    <3>3. QED
      BY <3>2
  <2>4. CASE t # s
    <3>1. x \in Words(telling[t]) /\ telling[t] \in Seq(FeedEvent)
      BY <1>3, <1>7, <2>2, <2>4
    <3>2. telling[t] # <<>>
      BY <3>1 DEF Words
    <3>3. TellsOf(telling[t])
      BY DEF TellsInPairs
    <3>4. x.n = Head(telling[t]).n
      BY <3>1, <3>2, <3>3, HeadTells
    <3>5. ~(Head(telling[t]).n < Head(telling[s]).n)
      BY <1>12, <3>2 DEF Overtakes
    <3>6. x.n \in Nat /\ e.n \in Nat
      BY <1>4, <2>1 DEF FeedEvent
    <3>7. QED
      BY <1>1, <3>4, <3>5, <3>6
  <2>5. QED
    BY <2>3, <2>4
<1>13. e \in Untold /\ Untold' \subseteq Untold /\ Untold \subseteq Untold' \cup {e}
  BY <1>4, <1>5, <1>6
<1>14. QED
  BY <1>1, <1>2, <1>8, <1>9, <1>10, <1>11, <1>12, <1>13

\* The sender takes the first letter of the box.
LEMMA TakeWay ==
    ASSUME Feeds, BoxIsKeyed, Take
    PROVE  /\ Sent' = Sent /\ BoxIsKeyed' /\ open /\ open' = open
           /\ \E e \in BoxWords(box) :
                 /\ arriving' = Append(arriving, e)
                 /\ BoxWords(box') \subseteq BoxWords(box)
                 /\ \A x \in BoxWords(box') : EventKey(x) # EventKey(e)
<1>1. PICK l, e : l = Head(box) /\ e = Head(box).event
  OBVIOUS
<1>2. /\ open /\ open' = open /\ box # <<>> /\ box' = Tail(box) /\ arriving' = Append(arriving, e)
      /\ box \in Seq(Letters) /\ arriving \in Seq(FeedEvent)
  BY <1>1, WayTypes DEF Take, Feed!Take
<1>3. /\ BoxWords(box) = {e} \cup BoxWords(box')
      /\ l = box[1] /\ 1 \in DOMAIN box
      /\ \A i \in DOMAIN box' : i + 1 \in DOMAIN box /\ i + 1 # 1 /\ box'[i] = box[i + 1] /\ i \in Nat
  BY <1>1, <1>2, TakeWords
<1>4. Words(arriving') = Words(arriving) \cup {e}
  BY <1>2, WordsOf
<1>5. Sent' = Sent
  <2>1. Sent' = BoxWords(box') \cup Words(arriving')
    BY DEF Sent, BoxWords, Words
  <2>2. QED
    BY <1>3, <1>4, <2>1 DEF Sent
<1>6. /\ \A i \in DOMAIN box : box[i].entity = EventKey(box[i].event)
      /\ \A i, j \in DOMAIN box : box[i].entity = box[j].entity => i = j
  BY DEF BoxIsKeyed
<1>7. ASSUME NEW i \in DOMAIN box' PROVE EventKey(box'[i].event) # EventKey(e)
  BY <1>1, <1>3, <1>6
<1>8. BoxIsKeyed'
  <2>1. \A i \in DOMAIN box' : box'[i].entity = EventKey(box'[i].event)
    BY <1>3, <1>6
  <2>2. ASSUME NEW i \in DOMAIN box', NEW j \in DOMAIN box', box'[i].entity = box'[j].entity PROVE i = j
    <3>1. i + 1 = j + 1 /\ i \in Nat /\ j \in Nat
      BY <1>3, <1>6, <2>2
    <3>2. QED
      BY <3>1
  <2>3. open' = open /\ open
    BY <1>2
  <2>4. QED
    BY <2>1, <2>2, <2>3 DEF BoxIsKeyed, EventKey
<1>9. \A x \in BoxWords(box') : EventKey(x) # EventKey(e)
  BY <1>7 DEF BoxWords
<1>10. e \in BoxWords(box) /\ BoxWords(box') \subseteq BoxWords(box)
  BY <1>3
<1>11. open /\ open' = open /\ arriving' = Append(arriving, e)
  BY <1>2
<1>12. QED
  BY <1>5, <1>8, <1>9, <1>10, <1>11

\* The client applies the first event that has arrived.
LEMMA ApplyWay ==
    ASSUME Feeds, BoxIsKeyed, ApplyChanged \/ ApplyRemoved
    PROVE  /\ Head(arriving) \in Sent /\ Head(arriving) \in FeedEvent
           /\ Sent' \subseteq Sent /\ Sent \subseteq Sent' \cup {Head(arriving)}
           /\ Words(arriving) = {Head(arriving)} \cup Words(arriving')
           /\ arriving # <<>> /\ arriving' = Tail(arriving) /\ box' = box /\ BoxIsKeyed' /\ open
<1>1. PICK e : e = Head(arriving)
  OBVIOUS
<1>2. /\ arriving # <<>> /\ arriving' = Tail(arriving) /\ box' = box /\ open' = open
      /\ arriving \in Seq(FeedEvent) /\ open \in BOOLEAN
  BY WayTypes DEF ApplyChanged, ApplyRemoved
<1>3. Words(arriving) = {e} \cup Words(arriving') /\ e \in FeedEvent
  BY <1>1, <1>2, WordsOf
<1>4. Sent' = BoxWords(box) \cup Words(arriving')
  BY <1>2 DEF Sent, BoxWords, Words
<1>5. open /\ BoxIsKeyed'
  BY <1>2 DEF BoxIsKeyed, EventKey
<1>6. QED
  BY <1>1, <1>2, <1>3, <1>4, <1>5 DEF Sent

\* What is on its way at first: nothing.
LEMMA SaidBegins == ASSUME FeedInit PROVE Said /\ OnWay = {}
<1> USE DEF FeedInit
<1>1. Words(<<>>) = {} /\ BoxWords(<<>>) = {}
  BY DEF Words, BoxWords
<1>2. OnWay = {}
  BY <1>1 DEF OnWay, Sent, Untold
<1>3. EventsAreTrue /\ BoxIsKeyed
  BY <1>2 DEF EventsAreTrue, BoxIsKeyed
<1>4. TellsInPairs
  BY DEF TellsInPairs, TellsOf, Slots
<1>5. AnswersAreTrue /\ ReadsAreTrue
  BY DEF AnswersAreTrue, ReadsAreTrue, Unmade, NoRead
<1>6. QED
  BY <1>2, <1>3, <1>4, <1>5 DEF Said

\* What was true stays true while the node writes nothing.
LEMMA StillTrue ==
    ASSUME UNCHANGED <<row, commits>>
    PROVE  /\ EventsAreTrue /\ OnWay' \subseteq OnWay => EventsAreTrue'
           /\ /\ ReadsAreTrue
              /\ \A g \in Grids : reads'[g].phase = "answered" =>
                    /\ reads[g].phase = "answered"
                    /\ reads'[g].row = reads[g].row /\ reads'[g].n = reads[g].n
              => ReadsAreTrue'
           /\ /\ AnswersAreTrue
              /\ \A m \in Moves : moves'[m].phase = "landed" =>
                    /\ moves[m].phase = "landed" /\ moves'[m].to = moves[m].to
                    /\ moves'[m].answer = moves[m].answer /\ moves'[m].n = moves[m].n
              => AnswersAreTrue'
           /\ /\ TellsInPairs /\ telling' = telling
              /\ \A m \in Moves : moves[m].phase = "landed" => moves'[m].phase = "landed"
              => TellsInPairs'
           /\ BoxIsKeyed /\ UNCHANGED <<open, box, arriving>> => BoxIsKeyed'
<1>1. Home' = Home
  BY DEF Home
<1>2. EventsAreTrue /\ OnWay' \subseteq OnWay => EventsAreTrue'
  BY <1>1 DEF EventsAreTrue, IsRow
<1>3. /\ ReadsAreTrue
      /\ \A g \in Grids : reads'[g].phase = "answered" =>
            /\ reads[g].phase = "answered"
            /\ reads'[g].row = reads[g].row /\ reads'[g].n = reads[g].n
      => ReadsAreTrue'
  BY <1>1 DEF ReadsAreTrue
<1>4. /\ AnswersAreTrue
      /\ \A m \in Moves : moves'[m].phase = "landed" =>
            /\ moves[m].phase = "landed" /\ moves'[m].to = moves[m].to
            /\ moves'[m].answer = moves[m].answer /\ moves'[m].n = moves[m].n
      => AnswersAreTrue'
  BY DEF AnswersAreTrue
<1>5. /\ TellsInPairs /\ telling' = telling
      /\ \A m \in Moves : moves[m].phase = "landed" => moves'[m].phase = "landed"
      => TellsInPairs'
  BY DEF TellsInPairs, TellsOf, IsRow
<1>6. BoxIsKeyed /\ UNCHANGED <<open, box, arriving>> => BoxIsKeyed'
  BY DEF BoxIsKeyed, EventKey
<1>7. QED
  BY <1>2, <1>3, <1>4, <1>5, <1>6

\* Of a write that commits, its events are true, and no other event or read is
\* of that commit.
LEMMA CommitIsTrue ==
    ASSUME Feeds, Feeds', Said, NEW s \in Slots, telling[s] = <<>>, NEW r \in Row,
           row.version <= r.version, Commit(s, r), UNCHANGED <<open, box, arriving, reads>>
    PROVE  /\ EventsAreTrue' /\ BoxIsKeyed' /\ ReadsAreTrue'
           /\ TellsOf(telling'[s]) /\ \A t \in Slots : t # s => telling'[t] = telling[t]
           /\ commits' = commits + 1 /\ row' = r
<1>1. PICK n, c, b : n = commits + 1 /\ c = Changed(r, n) /\ b = Removed(GridOf[row.place], row, n)
  OBVIOUS
<1>2. /\ row' = r /\ commits' = commits + 1 /\ Sent' = Sent /\ OnWay \subseteq OnWay'
      /\ \A e \in Untold' : e \in Untold \/ e = c \/ (e = b /\ GridOf[r.place] # GridOf[row.place])
      /\ TellsOf(telling'[s]) /\ \A t \in Slots : t # s => telling'[t] = telling[t]
  BY <1>1, CommitWay DEF Said
<1>3. commits \in Nat /\ row.version \in Nat /\ r.version \in Nat /\ OnWay \subseteq FeedEvent
  <2>1. commits \in 0..MaxCommits /\ row \in Row /\ OnWay \subseteq FeedEvent
    BY WayTypes
  <2>2. row.version \in 1..MaxVersion /\ r.version \in 1..MaxVersion /\ MaxVersion \in Nat
    BY <2>1, FeedTypes
  <2>3. QED
    BY <2>1, <2>2
<1>4. /\ c.kind = "changed" /\ c.grid = GridOf[r.place] /\ c.row = r /\ c.n = n
      /\ b.kind = "removed" /\ b.grid = GridOf[row.place] /\ b.row = row /\ b.n = n
  BY <1>1 DEF Changed, Removed
<1>5. Home' = GridOf[r.place]
  BY <1>2 DEF Home
<1>6. EventsAreTrue'
  <2>1. OnWay' = Sent' \cup Untold'
    BY DEF OnWay, Sent, Untold, Words, BoxWords
  <2>2. ASSUME NEW e \in OnWay, e \in FeedEvent
        PROVE  /\ e.n <= commits' /\ e.row.version <= row'.version /\ e.n # commits'
               /\ IsRow(e) => e.grid = GridOf[e.row.place]
    <3>1. e.n <= commits /\ e.row.version <= row.version /\ (IsRow(e) => e.grid = GridOf[e.row.place])
      BY DEF Said, EventsAreTrue
    <3>2. e.n \in Nat /\ e.row.version \in Nat
      BY <2>2 DEF FeedEvent, Row
    <3>3. QED
      BY <1>2, <1>3, <3>1, <3>2
  <2>3. ASSUME NEW e, e = c
        PROVE  /\ e.n <= commits' /\ e.row.version <= row'.version
               /\ IsRow(e) /\ e.grid = GridOf[e.row.place] /\ e.row = row'
    BY <1>1, <1>2, <1>3, <1>4, <2>3 DEF IsRow
  <2>4. ASSUME NEW e, e = b, GridOf[r.place] # GridOf[row.place]
        PROVE  /\ e.n <= commits' /\ e.row.version <= row'.version
               /\ ~IsRow(e) /\ e.grid # Home'
    BY <1>1, <1>2, <1>3, <1>4, <1>5, <2>4 DEF IsRow
  <2>5. ASSUME NEW e \in OnWay'
        PROVE  e \in OnWay \/ e = c \/ (e = b /\ GridOf[r.place] # GridOf[row.place])
    BY <1>2, <2>1 DEF OnWay
  <2>6. QED
    BY <1>3, <2>2, <2>3, <2>4, <2>5 DEF EventsAreTrue, IsRow
<1>7. ReadsAreTrue'
  <2>1. ASSUME NEW g \in Grids, reads'[g].phase = "answered"
        PROVE  /\ reads'[g].n <= commits' /\ reads'[g].n # commits'
               /\ reads'[g].row # NoRow => /\ GridOf[reads'[g].row.place] = g
                                           /\ reads'[g].row.version <= row'.version
    <3>1. reads' = reads /\ reads[g].n \in Nat /\ (reads[g].row # NoRow => reads[g].row.version \in Nat)
      <4>1. reads[g] \in Read
        BY DEF Feeds, FeedTypeOK
      <4>2. reads[g].n \in Nat /\ reads[g].row \in Row \cup {NoRow}
        BY <4>1, FeedTypes DEF Read
      <4>3. QED
        BY <4>2 DEF Row
    <3>2. /\ reads[g].n <= commits
          /\ reads[g].row # NoRow => /\ GridOf[reads[g].row.place] = g
                                     /\ reads[g].row.version <= row.version
      BY <2>1, <3>1 DEF Said, ReadsAreTrue
    <3>3. QED
      BY <1>2, <1>3, <3>1, <3>2
  <2>2. QED
    BY <2>1 DEF ReadsAreTrue
<1>8. BoxIsKeyed'
  BY DEF Said, BoxIsKeyed, EventKey
<1>9. QED
  BY <1>2, <1>6, <1>7, <1>8

\* The node takes the user's write or refuses it.
LEMMA NodeMovesSaid ==
    ASSUME Feeds, Feeds', Said, NEW m \in Moves, NEW overlap \in BOOLEAN, NodeMoves(m, overlap)
    PROVE  Said'
<1>0. /\ moves \in [Moves -> Move] /\ moves[m] \in Move /\ moves[m].phase = "sent" /\ moves[m].to \in Places
      /\ m \in Slots /\ telling[m] = <<>> /\ row \in Row /\ commits \in Nat
      /\ UNCHANGED <<open, box, arriving, reads>>
  <2>1. /\ moves \in [Moves -> Move] /\ moves[m] \in Move /\ moves[m].phase = "sent" /\ moves[m].to \in Places
        /\ UNCHANGED <<open, box, arriving, reads>>
    BY DEF NodeMoves, Feeds, FeedTypeOK, MovesKnown, streamVars
  <2>2. m \in Slots /\ telling[m] = <<>>
    BY <2>1 DEF Slots, Said, TellsInPairs
  <2>3. QED
    BY <2>1, <2>2, WayTypes
<1>1. CASE /\ UNCHANGED nodeVars
           /\ \/ /\ row.place = moves[m].to
                 /\ moves' = [moves EXCEPT ![m].phase = "landed", ![m].answer = row, ![m].n = commits]
              \/ moves' = [moves EXCEPT ![m].phase = "refused"]
  <2>1. UNCHANGED <<row, commits, telling>>
    BY <1>1 DEF nodeVars
  <2>2. OnWay' = OnWay
    BY <1>0, <2>1 DEF OnWay, Sent, Untold, Words, BoxWords
  <2>3. EventsAreTrue' /\ BoxIsKeyed' /\ ReadsAreTrue'
    BY <1>0, <2>1, <2>2, StillTrue DEF Said
  <2>4. /\ \A k \in Moves : k # m => moves'[k] = moves[k]
        /\ \/ moves'[m].phase = "refused"
           \/ /\ moves'[m].phase = "landed" /\ moves'[m].answer = row /\ moves'[m].n = commits
              /\ moves'[m].to = row.place
    BY <1>0, <1>1 DEF Move
  <2>5. AnswersAreTrue'
    BY <1>0, <2>1, <2>4 DEF Said, AnswersAreTrue
  <2>6. TellsInPairs'
    BY <1>0, <2>1, <2>4 DEF Said, TellsInPairs, TellsOf, IsRow
  <2>7. QED
    BY <2>3, <2>5, <2>6 DEF Said
<1>2. CASE /\ Commit(m, [row EXCEPT !.place = moves[m].to])
           /\ moves' = [moves EXCEPT ![m].phase = "landed", ![m].answer = row', ![m].n = commits + 1]
  <2>1. PICK r : r = [row EXCEPT !.place = moves[m].to]
    OBVIOUS
  <2>2. r \in Row /\ r.place = moves[m].to /\ row.version <= r.version
    BY <1>0, <2>1 DEF Row
  <2>3. Commit(m, r)
    BY <1>2, <2>1
  <2>4. /\ EventsAreTrue' /\ BoxIsKeyed' /\ ReadsAreTrue'
        /\ TellsOf(telling'[m]) /\ \A t \in Slots : t # m => telling'[t] = telling[t]
        /\ commits' = commits + 1 /\ row' = r
    BY <1>0, <2>2, <2>3, CommitIsTrue
  <2>5. /\ \A k \in Moves : k # m => moves'[k] = moves[k]
        /\ moves'[m].phase = "landed" /\ moves'[m].answer = row' /\ moves'[m].n = commits'
        /\ moves'[m].to = moves[m].to
    BY <1>0, <1>2, <2>4 DEF Move
  <2>6. AnswersAreTrue'
    <3>1. ASSUME NEW k \in Moves, k # m, moves[k].phase = "landed"
          PROVE  moves[k].answer.place = moves[k].to /\ moves[k].n <= commits' /\ moves[k].n # commits'
      <4>1. moves[k].n \in Nat
        BY <1>0 DEF Move
      <4>2. QED
        BY <1>0, <2>4, <3>1, <4>1 DEF Said, AnswersAreTrue
    <3>2. moves'[m].answer.place = moves'[m].to /\ moves'[m].n <= commits'
      BY <1>0, <2>2, <2>4, <2>5
    <3>3. QED
      BY <2>5, <3>1, <3>2 DEF AnswersAreTrue
  <2>7. TellsInPairs'
    <3>1. \A t \in Slots : TellsOf(telling'[t])
      BY <2>4 DEF Said, TellsInPairs
    <3>2. \A k \in Moves : moves'[k].phase # "landed" => telling'[k] = <<>>
      BY <2>4, <2>5 DEF Said, TellsInPairs, Slots
    <3>3. QED
      BY <3>1, <3>2 DEF TellsInPairs, TellsOf, IsRow
  <2>8. QED
    BY <2>4, <2>6, <2>7 DEF Said
<1>3. QED
  BY <1>1, <1>2 DEF NodeMoves

\* Another client's write.
LEMMA OthersSaid ==
    ASSUME Feeds, Feeds', Said, NEW w \in Writers,
           (\E p \in Places : OtherMoves(w, p)) \/ OtherEdits(w)
    PROVE  Said'
<1>1. /\ w \in Slots /\ telling[w] = <<>> /\ UNCHANGED <<open, box, arriving, reads, moves>>
      /\ \A m \in Moves : m \in Slots /\ m # w
      /\ commits \in Nat /\ moves \in [Moves -> Move]
  <2>1. w \in Slots /\ \A m \in Moves : m \in Slots /\ m # w
    BY FeedAssumption DEF FeedAssumption, Slots
  <2>2. telling[w] = <<>> /\ UNCHANGED <<open, box, arriving, reads, moves>>
    BY DEF OtherMoves, OtherEdits, streamVars
  <2>3. commits \in Nat
    BY WayTypes
  <2>4. moves \in [Moves -> Move]
    BY DEF Feeds, FeedTypeOK
  <2>5. QED
    BY <2>1, <2>2, <2>3, <2>4
<1>2. PICK r \in Row : row.version <= r.version /\ Commit(w, r)
  <2>0. row \in Row /\ row.version \in 1..MaxVersion /\ MaxVersion \in Nat
    BY WayTypes, FeedTypes
  <2>1. ASSUME NEW p \in Places, OtherMoves(w, p)
        PROVE  /\ [row EXCEPT !.place = p] \in Row /\ row.version <= [row EXCEPT !.place = p].version
               /\ Commit(w, [row EXCEPT !.place = p])
    BY <2>0, <2>1 DEF Row, OtherMoves
  <2>2. ASSUME OtherEdits(w)
        PROVE  /\ [row EXCEPT !.version = @ + 1] \in Row /\ row.version <= [row EXCEPT !.version = @ + 1].version
               /\ Commit(w, [row EXCEPT !.version = @ + 1])
    <3>1. row.version + 1 \in 1..MaxVersion
      BY <2>0, <2>2 DEF OtherEdits
    <3>2. QED
      BY <2>0, <2>2, <3>1 DEF Row, OtherEdits
  <2>3. QED
    BY <2>1, <2>2
<1>3. /\ EventsAreTrue' /\ BoxIsKeyed' /\ ReadsAreTrue'
      /\ TellsOf(telling'[w]) /\ \A t \in Slots : t # w => telling'[t] = telling[t]
      /\ commits' = commits + 1 /\ row' = r
  BY <1>1, <1>2, CommitIsTrue
<1>4. AnswersAreTrue'
  <2>1. \A k \in Moves : moves[k].n \in Nat
    BY <1>1 DEF Move
  <2>2. \A k \in Moves : moves[k].phase = "landed" => moves[k].answer.place = moves[k].to /\ moves[k].n <= commits
    BY DEF Said, AnswersAreTrue
  <2>3. \A k \in Moves : moves[k].phase = "landed" => moves[k].n <= commits' /\ moves[k].n # commits'
    BY <1>1, <1>3, <2>1, <2>2
  <2>4. QED
    BY <1>1, <2>2, <2>3 DEF AnswersAreTrue
<1>5. TellsInPairs'
  <2>1. \A t \in Slots : TellsOf(telling'[t])
    BY <1>3 DEF Said, TellsInPairs
  <2>2. \A m \in Moves : moves'[m].phase # "landed" => telling'[m] = <<>>
    BY <1>1, <1>3 DEF Said, TellsInPairs
  <2>3. QED
    BY <2>1, <2>2 DEF TellsInPairs, TellsOf, IsRow
<1>6. QED
  BY <1>3, <1>4, <1>5 DEF Said

\* The events travel, and are applied.
LEMMA StreamSaid ==
    ASSUME Feeds, Feeds', Said,
           \/ \E s \in Slots : Publishes(s)
           \/ Take \/ Break \/ ApplyChanged \/ ApplyRemoved
    PROVE  Said'
<1>1. UNCHANGED <<row, commits, moves>>
  BY DEF Publishes, Take, Break, ApplyChanged, ApplyRemoved, nodeVars
<1>2. EventsAreTrue /\ BoxIsKeyed /\ TellsInPairs /\ AnswersAreTrue /\ ReadsAreTrue
  BY DEF Said
<1>3. AnswersAreTrue'
  BY <1>1, <1>2, StillTrue
<1>4. OnWay' \subseteq OnWay /\ TellsInPairs' /\ BoxIsKeyed'
  <2>1. CASE \E s \in Slots : Publishes(s)
    <3>1. PICK s \in Slots : Publishes(s)
      BY <2>1
    <3>2. /\ Head(telling[s]) \in Untold /\ Untold' \subseteq Untold
          /\ Sent' \subseteq Sent \cup {Head(telling[s])} /\ TellsInPairs' /\ BoxIsKeyed'
      BY <1>2, <3>1, PublishWay
    <3>3. OnWay' = Sent' \cup Untold'
      BY DEF OnWay, Sent, Untold, Words, BoxWords
    <3>4. QED
      BY <3>2, <3>3 DEF OnWay
  <2>2. ASSUME Take \/ Break \/ ApplyChanged \/ ApplyRemoved
        PROVE  telling' = telling /\ TellsInPairs' /\ Untold' = Untold /\ OnWay' = Sent' \cup Untold
    <3>1. telling' = telling
      BY <2>2 DEF Take, Break, ApplyChanged, ApplyRemoved, nodeVars
    <3>2. TellsInPairs'
      BY <1>1, <1>2, <3>1, StillTrue
    <3>3. Untold' = Untold
      BY <3>1 DEF Untold, Words
    <3>4. QED
      BY <3>1, <3>2, <3>3 DEF OnWay, Sent, Untold, Words, BoxWords
  <2>3. CASE Take
    BY <1>2, <2>2, <2>3, TakeWay DEF OnWay
  <2>4. CASE Break
    <3>1. open' = FALSE /\ box' = <<>> /\ arriving' = <<>>
      BY <2>4 DEF Break
    <3>2. Sent' = {} /\ BoxIsKeyed'
      BY <3>1 DEF Sent, BoxWords, Words, BoxIsKeyed
    <3>3. QED
      BY <2>2, <2>4, <3>2 DEF OnWay
  <2>5. CASE ApplyChanged \/ ApplyRemoved
    <3>1. Sent' \subseteq Sent /\ BoxIsKeyed'
      BY <1>2, <2>5, ApplyWay
    <3>2. QED
      BY <2>2, <2>5, <3>1 DEF OnWay
  <2>6. QED
    BY <2>1, <2>3, <2>4, <2>5
<1>5. EventsAreTrue'
  BY <1>1, <1>2, <1>4, StillTrue
<1>6. \A g \in Grids : reads'[g].phase = reads[g].phase /\ reads'[g].row = reads[g].row /\ reads'[g].n = reads[g].n
  <2>1. CASE (\E s \in Slots : Publishes(s)) \/ Take \/ Break
    BY <2>1 DEF Publishes, Take, Break
  <2>2. CASE ApplyChanged \/ ApplyRemoved
    <3>1. PICK k : reads' = [reads EXCEPT ![k].owed = reads[k].phase # "none"]
      BY <2>2 DEF ApplyChanged, ApplyRemoved, Owed
    <3>2. reads \in [Grids -> Read]
      BY DEF Feeds, FeedTypeOK
    <3>3. QED
      BY <3>1, <3>2 DEF Read
  <2>3. QED
    BY <2>1, <2>2
<1>7. ReadsAreTrue'
  BY <1>1, <1>2, <1>6, StillTrue
<1>8. QED
  BY <1>3, <1>4, <1>5, <1>7 DEF Said

\* Reads, the user's steps and the write's end.
LEMMA ClientSaid ==
    ASSUME Feeds, Feeds', Said,
           \/ Reopen
           \/ \E g \in Grids : Ask(g) \/ Answer(g) \/ Land(g) \/ Press(g)
           \/ \E m \in Moves, p \in Places : Release(m, p)
           \/ \E m \in Moves : MoveLands(m) \/ MoveRefused(m) \/ MoveUnheard(m)
    PROVE  Said'
<1>1. UNCHANGED <<row, commits, telling, box, arriving>>
  BY DEF Reopen, Ask, Answer, Land, Press, Release, MoveLands, MoveRefused, MoveUnheard, nodeVars, streamVars
<1>2. EventsAreTrue /\ BoxIsKeyed /\ TellsInPairs /\ AnswersAreTrue /\ ReadsAreTrue
  BY DEF Said
<1>3. OnWay' = OnWay
  BY <1>1 DEF OnWay, Sent, Untold, Words, BoxWords
<1>4. EventsAreTrue'
  BY <1>1, <1>2, <1>3, StillTrue
<1>5. BoxIsKeyed'
  <2>1. CASE Reopen
    BY <1>1, <1>2, <2>1 DEF Reopen, BoxIsKeyed, EventKey
  <2>2. CASE ~Reopen
    <3>1. open' = open
      BY <2>2 DEF Ask, Answer, Land, Press, Release, MoveLands, MoveRefused, MoveUnheard, streamVars
    <3>2. QED
      BY <1>1, <1>2, <3>1, StillTrue
  <2>3. QED
    BY <2>1, <2>2
<1>6. /\ \A m \in Moves : moves'[m].phase = "landed" =>
            /\ moves[m].phase = "landed" /\ moves'[m].to = moves[m].to
            /\ moves'[m].answer = moves[m].answer /\ moves'[m].n = moves[m].n
      /\ \A m \in Moves : moves[m].phase = "landed" => moves'[m].phase = "landed"
  <2>0. moves \in [Moves -> Move]
    BY DEF Feeds, FeedTypeOK
  <2>1. CASE Reopen \/ \E g \in Grids : Ask(g) \/ Answer(g) \/ Land(g) \/ Press(g)
    BY <2>1 DEF Reopen, Ask, Answer, Land, Press
  <2>2. ASSUME NEW m \in Moves, NEW p \in Places, Release(m, p)
        PROVE  moves[m].phase = "unmade" /\ \E v : v.phase = "sent" /\ moves' = [moves EXCEPT ![m] = v]
    <3>1. PICK v : /\ moves' = [moves EXCEPT ![m] = v]
                   /\ \/ v = [Unmade EXCEPT !.phase = "sent", !.waiting = TRUE, !.to = p, !.claim = press]
                      \/ v = [Unmade EXCEPT !.phase = "sent", !.waiting = TRUE, !.to = p, !.claim = press,
                                            !.origin = shown[CHOOSE g \in Held : TRUE].place]
      BY <2>2 DEF Release
    <3>2. v.phase = "sent"
      BY <3>1 DEF Unmade
    <3>3. moves[m].phase = "unmade"
      BY <2>2 DEF Release
    <3>4. QED
      BY <3>1, <3>2, <3>3
  <2>3. ASSUME NEW m \in Moves, MoveLands(m) \/ MoveRefused(m) \/ MoveUnheard(m)
        PROVE  \/ moves' = [moves EXCEPT ![m].waiting = FALSE]
               \/ moves[m].phase = "sent" /\ moves' = [moves EXCEPT ![m].waiting = FALSE, ![m].phase = "refused"]
    BY <2>3 DEF MoveLands, MoveRefused, MoveUnheard
  <2>4. CASE \E m \in Moves, p \in Places : Release(m, p)
    BY <2>0, <2>2, <2>4
  <2>5. CASE \E m \in Moves : MoveLands(m) \/ MoveRefused(m) \/ MoveUnheard(m)
    <3>1. PICK m \in Moves : \/ moves' = [moves EXCEPT ![m].waiting = FALSE]
                             \/ /\ moves[m].phase = "sent"
                                /\ moves' = [moves EXCEPT ![m].waiting = FALSE, ![m].phase = "refused"]
      BY <2>3, <2>5
    <3>2. CASE moves' = [moves EXCEPT ![m].waiting = FALSE]
      BY <2>0, <3>2 DEF Move
    <3>3. CASE moves[m].phase = "sent" /\ moves' = [moves EXCEPT ![m].waiting = FALSE, ![m].phase = "refused"]
      BY <2>0, <3>3 DEF Move
    <3>4. QED
      BY <3>1, <3>2, <3>3
  <2>6. QED
    BY <2>1, <2>4, <2>5
<1>7. AnswersAreTrue' /\ TellsInPairs'
  BY <1>1, <1>2, <1>6, StillTrue
<1>8. ReadsAreTrue'
  <2>0. reads \in [Grids -> Read] /\ row \in Row
    BY DEF Feeds, FeedTypeOK
  <2>1. NoRead.phase = "none" /\ Asking.phase = "asked"
    BY DEF NoRead, Asking
  <2>2. CASE \E g \in Grids : Answer(g)
    <3>1. PICK g \in Grids : Answer(g)
      BY <2>2
    <3>2. /\ \A k \in Grids : k # g => reads'[k] = reads[k]
          /\ reads'[g].n = commits /\ reads'[g].row = IF Home = g THEN row ELSE NoRow
      BY <2>0, <3>1 DEF Answer, Read, Home
    <3>3. commits \in Nat /\ row.version \in Nat /\ Home' = Home
      BY <1>1, WayTypes, FeedTypes DEF Home, Row
    <3>4. QED
      BY <1>1, <1>2, <3>2, <3>3 DEF ReadsAreTrue, Home
  <2>3. CASE ~\E g \in Grids : Answer(g)
    <3>1. \A g \in Grids : reads'[g].phase = "answered" =>
              reads[g].phase = "answered" /\ reads'[g].row = reads[g].row /\ reads'[g].n = reads[g].n
      <4>1. CASE Reopen
        BY <2>1, <4>1 DEF Reopen
      <4>2. CASE \E g \in Grids : Ask(g) \/ Land(g)
        BY <2>0, <2>1, <4>2 DEF Ask, Land
      <4>3. CASE \E m \in Moves : MoveRefused(m)
        <5>1. PICK k : reads' = Refetched(k)
          BY <4>3 DEF MoveRefused
        <5>2. reads' = [reads EXCEPT ![k] = IF reads[k].phase = "none" THEN Asking ELSE [reads[k] EXCEPT !.owed = TRUE]]
          BY <5>1 DEF Refetched
        <5>3. QED
          BY <2>0, <2>1, <5>2 DEF Read
      <4>4. CASE \/ \E g \in Grids : Press(g)
                 \/ \E m \in Moves, p \in Places : Release(m, p)
                 \/ \E m \in Moves : MoveLands(m) \/ MoveUnheard(m)
        BY <4>4 DEF Press, Release, MoveLands, MoveUnheard
      <4>5. QED
        BY <2>3, <4>1, <4>2, <4>3, <4>4
    <3>2. QED
      BY <1>1, <1>2, <3>1, StillTrue
  <2>4. QED
    BY <2>2, <2>3
<1>9. QED
  BY <1>4, <1>5, <1>7, <1>8 DEF Said

\* While nothing went wrong, the stream carries the rows in the order of their
\* commits, no row is on its way without the newest, and a read that missed the
\* newest row is asked again once the stream has carried it.
RowsInOrder(q) == \A i, j \in DOMAIN q : i <= j /\ IsRow(q[i]) /\ IsRow(q[j]) => q[i].n <= q[j].n

InOrder ==
    /\ \A x \in Sent, y \in Untold : x.n <= y.n
    /\ \A x \in Words(arriving), y \in BoxWords(box) : IsRow(x) /\ IsRow(y) => x.n <= y.n
    /\ RowsInOrder(arriving)
    /\ (\E e \in OnWay : IsRow(e)) => LastComing
    /\ \A e \in OnWay : ~IsRow(e) => e.n = commits \/ LastComing \/ commits <= told
    /\ \A g \in Grids : open /\ reads[g].phase = "answered" /\ reads[g].n # commits =>
          LastComing \/ (commits <= told /\ (g = Home => reads[g].owed))

\* The numbers of the events on their way.
LEMMA WayNumbers ==
    ASSUME Feeds, Said
    PROVE  /\ \A e \in OnWay : e \in FeedEvent /\ e.n \in Nat /\ e.n <= commits
           /\ commits \in Nat /\ told \in Nat
           /\ OnWay = Sent \cup Untold /\ OnWay' = Sent' \cup Untold'
<1>1. OnWay \subseteq FeedEvent /\ commits \in Nat /\ told \in Nat
  BY WayTypes
<1>2. \A e \in OnWay : e.n <= commits
  BY DEF Said, EventsAreTrue
<1>3. OnWay = Sent \cup Untold /\ OnWay' = Sent' \cup Untold'
  BY DEF OnWay, Sent, Untold, Words, BoxWords
<1>4. \A e \in FeedEvent : e.n \in Nat
  BY FeedTypes
<1>5. QED
  BY <1>1, <1>2, <1>3, <1>4

\* What LastComing says of the next state.
LEMMA ComingNext == LastComing' <=> \E e \in OnWay' : IsRow(e) /\ e.n = commits'
BY DEF LastComing, IsRow, OnWay, Sent, Untold, Words, BoxWords

\* InOrder of the next state, part by part.
LEMMA InOrderNext ==
    ASSUME \A x \in Sent', y \in Untold' : x.n <= y.n,
           \A x \in Words(arriving'), y \in BoxWords(box') : IsRow(x) /\ IsRow(y) => x.n <= y.n,
           RowsInOrder(arriving'),
           (\E e \in OnWay' : IsRow(e)) => LastComing',
           \A e \in OnWay' : ~IsRow(e) => e.n = commits' \/ LastComing' \/ commits' <= told',
           \A g \in Grids : open' /\ reads'[g].phase = "answered" /\ reads'[g].n # commits' =>
               LastComing' \/ (commits' <= told' /\ (g = Home' => reads'[g].owed))
    PROVE  InOrder'
<1>1. /\ Words(arriving)' = Words(arriving') /\ BoxWords(box)' = BoxWords(box')
      /\ RowsInOrder(arriving)' = RowsInOrder(arriving')
  BY DEF Words, BoxWords, RowsInOrder, IsRow
<1>2. \A e : IsRow(e)' = IsRow(e)
  BY DEF IsRow
<1>3. QED
  BY <1>1, <1>2 DEF InOrder

LEMMA OrderBegins == ASSUME FeedInit PROVE InOrder
<1>1. OnWay = {} /\ Sent = {}
  BY SaidBegins DEF OnWay
<1>2. arriving = <<>> /\ box = <<>> /\ \A g \in Grids : reads[g].phase = "none"
  BY DEF FeedInit, NoRead
<1>3. RowsInOrder(arriving) /\ Words(arriving) = {}
  BY <1>2 DEF RowsInOrder, Words
<1>4. QED
  BY <1>1, <1>2, <1>3 DEF InOrder

\* A write commits: its row is the newest, and is on its way.
LEMMA CommitOrder ==
    ASSUME Feeds, Feeds', Said, InOrder, NEW s \in Slots, telling[s] = <<>>, NEW r \in Row, Commit(s, r),
           UNCHANGED <<open, box, arriving, told, reads>>
    PROVE  InOrder' /\ LastComing'
<1>1. PICK c, b : c = Changed(r, commits + 1) /\ b = Removed(GridOf[row.place], row, commits + 1)
  OBVIOUS
<1>2. /\ commits' = commits + 1 /\ Sent' = Sent /\ c \in Untold'
      /\ \A e \in Untold' : e \in Untold \/ e = c \/ e = b
  BY <1>1, CommitWay DEF Said
<1>3. IsRow(c) /\ c.n = commits' /\ b.n = commits'
  BY <1>1, <1>2 DEF Changed, Removed, IsRow
<1>4. /\ \A e \in OnWay : e \in FeedEvent /\ e.n \in Nat /\ e.n <= commits
      /\ commits \in Nat /\ OnWay = Sent \cup Untold /\ OnWay' = Sent' \cup Untold'
  BY WayNumbers
<1>5. LastComing'
  BY <1>2, <1>3, <1>4, ComingNext
<1>6. \A x \in Sent', y \in Untold' : x.n <= y.n
  <2>1. \A x \in Sent, y \in Untold : x.n <= y.n
    BY DEF InOrder
  <2>2. \A x \in Sent : x.n <= commits'
    BY <1>2, <1>4
  <2>3. QED
    BY <1>2, <1>3, <2>1, <2>2
<1>7. \A x \in Words(arriving'), y \in BoxWords(box') : IsRow(x) /\ IsRow(y) => x.n <= y.n
  BY DEF InOrder
<1>8. RowsInOrder(arriving')
  BY DEF InOrder
<1>9. QED
  BY <1>5, <1>6, <1>7, <1>8, InOrderNext

\* An event is published in the order of the commits.
LEMMA PublishOrder ==
    ASSUME Feeds, Feeds', Said, InOrder, NEW s \in Slots, Publishes(s), excuse' = {}
    PROVE  InOrder' /\ (open /\ LastComing => LastComing')
<1>1. PICK e : e = Head(telling[s])
  OBVIOUS
<1>2. ~Overtakes(s) /\ UNCHANGED <<row, commits, told, reads>>
  BY DEF Publishes
<1>3. /\ e \in Untold /\ Untold' \subseteq Untold
      /\ Untold \subseteq Untold' \cup {e}
      /\ Sent' \subseteq Sent \cup {e}
      /\ open => /\ e \in Sent'
                 /\ \A x \in Sent : x \in Sent' \/ EventKey(x) = EventKey(e)
      /\ ~open => Sent = {} /\ Sent' = {}
      /\ \A x \in Untold' : e.n <= x.n
      /\ arriving' = arriving /\ open' = open
      /\ BoxWords(box') \subseteq BoxWords(box) \cup {e}
  BY <1>1, <1>2, PublishWay DEF Said
<1>4. /\ \A x \in OnWay : x \in FeedEvent /\ x.n \in Nat /\ x.n <= commits
      /\ commits \in Nat /\ OnWay = Sent \cup Untold /\ OnWay' = Sent' \cup Untold'
  BY WayNumbers
<1>5. /\ \A x \in Sent, y \in Untold : x.n <= y.n
      /\ \A x \in Words(arriving), y \in BoxWords(box) : IsRow(x) /\ IsRow(y) => x.n <= y.n
      /\ RowsInOrder(arriving)
      /\ (\E x \in OnWay : IsRow(x)) => LastComing
      /\ \A x \in OnWay : ~IsRow(x) => x.n = commits \/ LastComing \/ commits <= told
      /\ \A g \in Grids : open /\ reads[g].phase = "answered" /\ reads[g].n # commits =>
            LastComing \/ (commits <= told /\ (g = Home => reads[g].owed))
  BY DEF InOrder
<1>6. ASSUME LastComing, open PROVE LastComing'
  <2>1. PICK w \in OnWay : IsRow(w) /\ w.n = commits
    BY <1>6 DEF LastComing
  <2>2. CASE w \in OnWay'
    BY <1>2, <2>1, <2>2, ComingNext
  <2>3. CASE w \notin OnWay' /\ w # e
    <3>1. w \in Sent /\ EventKey(w) = EventKey(e)
      BY <1>3, <1>4, <1>6, <2>1, <2>3
    <3>2. e \in OnWay /\ IsRow(e)
      BY <1>3, <1>4, <2>1, <3>1, KeysTell
    <3>3. e.n = commits
      BY <1>3, <1>4, <1>5, <2>1, <3>1, <3>2
    <3>4. QED
      BY <1>2, <1>3, <1>4, <1>6, <3>2, <3>3, ComingNext
  <2>4. CASE w = e
    BY <1>2, <1>3, <1>4, <1>6, <2>1, <2>4, ComingNext
  <2>5. QED
    BY <2>2, <2>3, <2>4
<1>7. ASSUME LastComing, ~open, NEW x \in Untold' PROVE x.n = commits \/ LastComing'
  <2>1. PICK w \in OnWay : IsRow(w) /\ w.n = commits
    BY <1>7 DEF LastComing
  <2>2. CASE w = e
    <3>1. commits <= x.n /\ x \in OnWay
      BY <1>3, <1>4, <2>1, <2>2
    <3>2. QED
      BY <1>4, <3>1
  <2>3. CASE w # e
    BY <1>2, <1>3, <1>4, <1>7, <2>1, <2>3, ComingNext
  <2>4. QED
    BY <2>2, <2>3
<1>8. \A x \in Sent', y \in Untold' : x.n <= y.n
  BY <1>3, <1>5
<1>9. \A x \in Words(arriving'), y \in BoxWords(box') : IsRow(x) /\ IsRow(y) => x.n <= y.n
  <2>1. Words(arriving') \subseteq Sent
    BY <1>3 DEF Sent
  <2>2. QED
    BY <1>3, <1>5, <2>1
<1>10. OnWay' \subseteq OnWay
  BY <1>3, <1>4
<1>11. ASSUME NEW x \in OnWay', IsRow(x) PROVE LastComing'
  <2>1. LastComing
    BY <1>5, <1>10, <1>11
  <2>2. CASE open
    BY <1>6, <2>1, <2>2
  <2>3. CASE ~open
    <3>1. x \in Untold'
      BY <1>3, <1>4, <2>3
    <3>2. x.n = commits \/ LastComing'
      BY <1>7, <2>1, <2>3, <3>1
    <3>3. QED
      BY <1>2, <1>11, <3>2, ComingNext
  <2>4. QED
    BY <2>2, <2>3
<1>12. ASSUME NEW x \in OnWay', ~IsRow(x) PROVE x.n = commits' \/ LastComing' \/ commits' <= told'
  <2>1. x.n = commits \/ LastComing \/ commits <= told
    BY <1>5, <1>10, <1>12
  <2>2. CASE LastComing /\ ~open
    BY <1>2, <1>3, <1>4, <1>7, <2>2
  <2>3. QED
    BY <1>2, <1>6, <2>1, <2>2
<1>13. Home' = Home
  BY <1>2 DEF Home
<1>14. \A g \in Grids : open' /\ reads'[g].phase = "answered" /\ reads'[g].n # commits' =>
           LastComing' \/ (commits' <= told' /\ (g = Home' => reads'[g].owed))
  BY <1>2, <1>3, <1>5, <1>6, <1>13
<1>15. QED
  BY <1>3, <1>5, <1>6, <1>8, <1>9, <1>11, <1>12, <1>14, InOrderNext

\* The events travel on, or are lost with the stream.
LEMMA TravelOrder ==
    ASSUME Feeds, Feeds', Said, InOrder, Take \/ Break
    PROVE  InOrder' /\ (Take => LastComing' = LastComing)
<1>1. UNCHANGED <<row, commits, telling, told, reads>>
  BY DEF Take, Break, nodeVars
<1>2. Untold' = Untold /\ Home' = Home
  BY <1>1 DEF Untold, Words, Home
<1>4. /\ \A x \in OnWay : x \in FeedEvent /\ x.n \in Nat /\ x.n <= commits
      /\ commits \in Nat /\ OnWay = Sent \cup Untold /\ OnWay' = Sent' \cup Untold'
  BY WayNumbers
<1>5. /\ \A x \in Sent, y \in Untold : x.n <= y.n
      /\ \A x \in Words(arriving), y \in BoxWords(box) : IsRow(x) /\ IsRow(y) => x.n <= y.n
      /\ RowsInOrder(arriving)
      /\ (\E x \in OnWay : IsRow(x)) => LastComing
      /\ \A x \in OnWay : ~IsRow(x) => x.n = commits \/ LastComing \/ commits <= told
      /\ \A g \in Grids : open /\ reads[g].phase = "answered" /\ reads[g].n # commits =>
            LastComing \/ (commits <= told /\ (g = Home => reads[g].owed))
  BY DEF InOrder
<1>6. CASE Take
  <2>1. Sent' = Sent /\ open' = open
    BY <1>6, TakeWay DEF Said
  <2>2. PICK e \in BoxWords(box) :
            /\ arriving' = Append(arriving, e)
            /\ BoxWords(box') \subseteq BoxWords(box)
            /\ \A x \in BoxWords(box') : EventKey(x) # EventKey(e)
    BY <1>6, TakeWay DEF Said
  <2>3. OnWay' = OnWay
    BY <1>2, <1>4, <2>1
  <2>4. LastComing' = LastComing
    BY <1>1, <2>3, ComingNext DEF LastComing
  <2>5. arriving \in Seq(FeedEvent) /\ e \in FeedEvent
    BY <2>2, WayTypes
  <2>6. Words(arriving') = Words(arriving) \cup {e}
    BY <2>2, <2>5, WordsOf
  <2>7. \A x \in BoxWords(box') : IsRow(x) => ~IsRow(e)
    BY <2>2 DEF EventKey, IsRow
  <2>8. \A x \in Words(arriving'), y \in BoxWords(box') : IsRow(x) /\ IsRow(y) => x.n <= y.n
    BY <1>5, <2>2, <2>6, <2>7
  <2>9. RowsInOrder(arriving')
    <3>1. PICK q : q = arriving'
      OBVIOUS
    <3>2. /\ DOMAIN q = 1..(Len(arriving) + 1) /\ DOMAIN arriving = 1..Len(arriving) /\ Len(arriving) \in Nat
          /\ \A i \in 1..Len(arriving) : q[i] = arriving[i]
          /\ q[Len(arriving) + 1] = e
      BY <2>2, <2>5, <3>1
    <3>3. \A i \in DOMAIN arriving : arriving[i] \in Words(arriving)
      BY DEF Words
    <3>4. ASSUME NEW i \in DOMAIN q, NEW j \in DOMAIN q, i <= j, IsRow(q[i]), IsRow(q[j])
          PROVE  q[i].n <= q[j].n
      <4>1. CASE j = Len(arriving) + 1 /\ i = j
        <5>1. e.n \in Nat
          BY <2>5 DEF FeedEvent
        <5>2. QED
          BY <3>2, <4>1, <5>1
      <4>2. CASE j = Len(arriving) + 1 /\ i # j
        <5>1. i \in DOMAIN arriving /\ q[i] = arriving[i]
          BY <3>2, <3>4, <4>2
        <5>2. QED
          BY <1>5, <2>2, <3>2, <3>3, <3>4, <4>2, <5>1
      <4>3. CASE j # Len(arriving) + 1
        <5>1. /\ i \in DOMAIN arriving /\ q[i] = arriving[i]
              /\ j \in DOMAIN arriving /\ q[j] = arriving[j]
          BY <3>2, <3>4, <4>3
        <5>2. QED
          BY <1>5, <3>4, <5>1 DEF RowsInOrder
      <4>4. QED
        BY <4>1, <4>2, <4>3
    <3>5. QED
      BY <3>1, <3>4 DEF RowsInOrder
  <2>10. \A x \in Sent', y \in Untold' : x.n <= y.n
    BY <1>2, <1>5, <2>1
  <2>11. /\ (\E x \in OnWay' : IsRow(x)) => LastComing'
         /\ \A x \in OnWay' : ~IsRow(x) => x.n = commits' \/ LastComing' \/ commits' <= told'
         /\ \A g \in Grids : open' /\ reads'[g].phase = "answered" /\ reads'[g].n # commits' =>
               LastComing' \/ (commits' <= told' /\ (g = Home' => reads'[g].owed))
    BY <1>1, <1>2, <1>5, <2>1, <2>3, <2>4
  <2>12. QED
    BY <2>4, <2>8, <2>9, <2>10, <2>11, InOrderNext
<1>7. CASE Break
  <2>1. open' = FALSE /\ box' = <<>> /\ arriving' = <<>>
    BY <1>7 DEF Break
  <2>2. Words(arriving') = {} /\ BoxWords(box') = {} /\ RowsInOrder(arriving') /\ Sent' = {}
    BY <2>1 DEF Words, BoxWords, RowsInOrder, Sent
  <2>3. ASSUME LastComing, NEW x \in Untold PROVE x.n = commits \/ LastComing'
    <3>1. PICK w \in OnWay : IsRow(w) /\ w.n = commits
      BY <2>3 DEF LastComing
    <3>2. CASE w \in Sent
      <4>1. commits <= x.n /\ x \in OnWay
        BY <1>4, <1>5, <3>1, <3>2
      <4>2. QED
        BY <1>4, <4>1
    <3>3. CASE w \in Untold
      BY <1>1, <1>2, <1>4, <3>1, <3>3, ComingNext
    <3>4. QED
      BY <1>4, <3>2, <3>3
  <2>4. OnWay' = Untold
    BY <1>2, <1>4, <2>2
  <2>5. (\E x \in OnWay' : IsRow(x)) => LastComing'
    BY <1>1, <1>4, <1>5, <2>3, <2>4, ComingNext
  <2>6. \A x \in OnWay' : ~IsRow(x) => x.n = commits' \/ LastComing' \/ commits' <= told'
    BY <1>1, <1>4, <1>5, <2>3, <2>4
  <2>7. ~Take
    BY <2>1, TakeWay DEF Said
  <2>8. QED
    BY <2>1, <2>2, <2>5, <2>6, <2>7, InOrderNext
<1>8. QED
  BY <1>6, <1>7

\* An event is applied: a row is the newest there is, or the newest is behind
\* it; a removal is the newest write's, or its row is behind it.
LEMMA ApplyOrder ==
    ASSUME Feeds, Feeds', Said, InOrder, ApplyChanged \/ ApplyRemoved, excuse' = {}
    PROVE  /\ InOrder'
           /\ ApplyChanged => Head(arriving).n = commits \/ LastComing'
           /\ ApplyRemoved => /\ LastComing => LastComing'
                              /\ Head(arriving).n = commits \/ LastComing'
           /\ ApplyChanged /\ Head(arriving).n = commits => Head(arriving).row = row
           /\ ApplyRemoved /\ Head(arriving).n = commits => Head(arriving).grid # Home
<1>1. PICK e : e = Head(arriving)
  OBVIOUS
<1>2. /\ UNCHANGED <<row, commits, telling, open>> /\ Tell(e) /\ Owed(e.grid)
      /\ ApplyChanged <=> IsRow(e)
      /\ Untold' = Untold /\ Home' = Home
  <2>1. /\ UNCHANGED <<row, commits, telling, open>> /\ Tell(e) /\ Owed(e.grid)
    BY <1>1 DEF ApplyChanged, ApplyRemoved, nodeVars
  <2>2. ApplyChanged => IsRow(e)
    BY <1>1 DEF ApplyChanged, IsRow
  <2>3. ApplyRemoved => ~IsRow(e)
    BY <1>1 DEF ApplyRemoved, IsRow
  <2>4. QED
    BY <2>1, <2>2, <2>3 DEF Untold, Words, Home
<1>3. /\ e \in Sent /\ Sent' \subseteq Sent /\ Sent \subseteq Sent' \cup {e}
      /\ Words(arriving) = {e} \cup Words(arriving')
      /\ arriving # <<>> /\ arriving' = Tail(arriving) /\ box' = box /\ open
  BY <1>1, ApplyWay DEF Said
<1>4. /\ \A x \in OnWay : x \in FeedEvent /\ x.n \in Nat /\ x.n <= commits
      /\ commits \in Nat /\ told \in Nat /\ OnWay = Sent \cup Untold /\ OnWay' = Sent' \cup Untold'
  BY WayNumbers
<1>5. /\ \A x \in Sent, y \in Untold : x.n <= y.n
      /\ \A x \in Words(arriving), y \in BoxWords(box) : IsRow(x) /\ IsRow(y) => x.n <= y.n
      /\ RowsInOrder(arriving)
      /\ (\E x \in OnWay : IsRow(x)) => LastComing
      /\ \A x \in OnWay : ~IsRow(x) => x.n = commits \/ LastComing \/ commits <= told
      /\ \A g \in Grids : open /\ reads[g].phase = "answered" /\ reads[g].n # commits =>
            LastComing \/ (commits <= told /\ (g = Home => reads[g].owed))
  BY DEF InOrder
<1>6. told <= e.n /\ told' = e.n
  <2>1. ~(e.n < told)
    BY <1>2 DEF Tell, OutOfOrder
  <2>2. e.n \in Nat
    BY <1>3, <1>4
  <2>3. QED
    BY <1>2, <1>4, <2>1, <2>2 DEF Tell
<1>7. e \in OnWay /\ e.n \in Nat /\ e.n <= commits
  BY <1>3, <1>4
<1>8. LastComing => LastComing' \/ (IsRow(e) /\ e.n = commits)
  <2>1. ASSUME NEW w \in OnWay, IsRow(w), w.n = commits, w # e PROVE LastComing'
    BY <1>2, <1>3, <1>4, <2>1, ComingNext
  <2>2. QED
    BY <2>1 DEF LastComing
<1>9. \A x \in Sent', y \in Untold' : x.n <= y.n
  BY <1>2, <1>3, <1>5
<1>10. \A x \in Words(arriving'), y \in BoxWords(box') : IsRow(x) /\ IsRow(y) => x.n <= y.n
  BY <1>3, <1>5
<1>11. /\ RowsInOrder(arriving')
       /\ IsRow(e) => \A x \in Words(arriving') : IsRow(x) => e.n <= x.n
  <2>1. PICK q : q = arriving'
    OBVIOUS
  <2>2. /\ DOMAIN arriving = 1..Len(arriving) /\ Len(arriving) \in Nat \ {0} /\ e = arriving[1]
        /\ DOMAIN q = 1..(Len(arriving) - 1)
        /\ \A i \in 1..(Len(arriving) - 1) : q[i] = arriving[i + 1]
    BY <1>1, <1>3, <2>1, WayTypes
  <2>3. \A i \in DOMAIN q : i \in Nat /\ i + 1 \in DOMAIN arriving /\ 1 <= i + 1 /\ q[i] = arriving[i + 1]
    BY <2>2
  <2>4. 1 \in DOMAIN arriving
    BY <2>2
  <2>5. ASSUME NEW i \in DOMAIN q, NEW j \in DOMAIN q, i <= j, IsRow(q[i]), IsRow(q[j])
        PROVE  q[i].n <= q[j].n
    <3>1. i + 1 <= j + 1
      BY <2>3, <2>5
    <3>2. QED
      BY <1>5, <2>3, <2>5, <3>1 DEF RowsInOrder
  <2>6. ASSUME IsRow(e), NEW x \in Words(q), IsRow(x) PROVE e.n <= x.n
    <3>1. PICK i \in DOMAIN q : x = q[i]
      BY <2>6 DEF Words
    <3>2. QED
      BY <1>5, <2>2, <2>3, <2>4, <2>6, <3>1 DEF RowsInOrder
  <2>7. QED
    BY <2>1, <2>5, <2>6 DEF RowsInOrder
<1>12. ASSUME IsRow(e), NEW x \in OnWay', IsRow(x) PROVE e.n <= x.n
  <2>1. x \in Untold \/ x \in BoxWords(box) \/ x \in Words(arriving')
    BY <1>2, <1>3, <1>4 DEF Sent, BoxWords, Words
  <2>2. e \in Words(arriving)
    BY <1>3
  <2>3. QED
    BY <1>3, <1>5, <1>11, <1>12, <2>1, <2>2
<1>13. OnWay' \subseteq OnWay
  BY <1>2, <1>3, <1>4
<1>14. (\E x \in OnWay' : IsRow(x)) => LastComing'
  <2>1. ASSUME NEW x \in OnWay', IsRow(x) PROVE LastComing'
    <3>1. LastComing
      BY <1>5, <1>13, <2>1
    <3>2. ASSUME IsRow(e), e.n = commits PROVE LastComing'
      <4>1. commits <= x.n /\ x.n <= commits /\ x.n \in Nat
        BY <1>4, <1>12, <1>13, <2>1, <3>2
      <4>2. x.n = commits
        BY <1>4, <4>1
      <4>3. QED
        BY <1>2, <2>1, <4>2, ComingNext
    <3>3. QED
      BY <1>8, <3>1, <3>2
  <2>2. QED
    BY <2>1
<1>15. \A x \in OnWay' : ~IsRow(x) => x.n = commits' \/ LastComing' \/ commits' <= told'
  <2>1. commits <= told => commits <= told'
    BY <1>4, <1>6, <1>7
  <2>2. e.n = commits => commits <= told'
    BY <1>4, <1>6
  <2>3. QED
    BY <1>2, <1>5, <1>8, <1>13, <2>1, <2>2
<1>16. IsRow(e) /\ e.n = commits => e.grid = Home /\ e.row = row
  <2>1. IsRow(e) /\ e.n = commits => e.grid = GridOf[e.row.place] /\ e.row = row
    BY <1>7 DEF Said, EventsAreTrue
  <2>2. QED
    BY <2>1 DEF Home
<1>17. /\ \A g \in Grids : /\ reads'[g].phase = reads[g].phase /\ reads'[g].n = reads[g].n
                           /\ reads[g].phase = "answered" /\ (reads[g].owed \/ g = e.grid) => reads'[g].owed
  <2>1. reads \in [Grids -> Read] /\ e \in FeedEvent
    BY <1>7, WayTypes DEF Feeds, FeedTypeOK
  <2>2. reads' = [reads EXCEPT ![e.grid].owed = reads[e.grid].phase # "none"]
    BY <1>2 DEF Owed
  <2>3. QED
    BY <2>1, <2>2 DEF Read
<1>18. ASSUME NEW g \in Grids, open', reads'[g].phase = "answered", reads'[g].n # commits'
       PROVE  LastComing' \/ (commits' <= told' /\ (g = Home' => reads'[g].owed))
  <2>1. LastComing \/ (commits <= told /\ (g = Home => reads[g].owed))
    BY <1>2, <1>5, <1>17, <1>18
  <2>2. CASE commits <= told /\ (g = Home => reads[g].owed)
    <3>1. commits <= told'
      BY <1>4, <1>6, <1>7, <2>2
    <3>2. QED
      BY <1>2, <1>17, <1>18, <2>2, <3>1
  <2>3. CASE IsRow(e) /\ e.n = commits
    <3>1. commits <= told'
      BY <1>4, <1>6, <2>3
    <3>2. QED
      BY <1>2, <1>16, <1>17, <1>18, <2>3, <3>1
  <2>4. QED
    BY <1>8, <2>1, <2>2, <2>3
<1>19. InOrder'
  BY <1>9, <1>10, <1>11, <1>14, <1>15, <1>18, InOrderNext
<1>20. ASSUME ApplyChanged PROVE e.n = commits \/ LastComing'
  BY <1>2, <1>5, <1>7, <1>8, <1>20
<1>21. ASSUME ApplyRemoved
       PROVE  (LastComing => LastComing') /\ (e.n = commits \/ LastComing') /\ (e.n = commits => e.grid # Home)
  <2>1. ~IsRow(e)
    BY <1>1, <1>21 DEF ApplyRemoved, IsRow
  <2>2. e.n = commits \/ LastComing \/ commits <= told
    BY <1>5, <1>7, <2>1
  <2>3. commits <= told => e.n = commits
    BY <1>4, <1>6, <1>7
  <2>4. e.n = commits => e.grid # Home
    BY <1>7, <2>1 DEF Said, EventsAreTrue
  <2>5. QED
    BY <1>8, <2>1, <2>2, <2>3, <2>4
<1>22. QED
  BY <1>1, <1>2, <1>16, <1>19, <1>20, <1>21

\* Nothing travels: a read that was answered may only become owed.
LEMMA StillOrder ==
    ASSUME InOrder, UNCHANGED <<row, commits, telling, box, arriving, told>>,
           \A g \in Grids : open' /\ reads'[g].phase = "answered" /\ reads'[g].n # commits =>
               /\ open /\ reads[g].phase = "answered" /\ reads[g].n # commits
               /\ reads[g].owed => reads'[g].owed
    PROVE  InOrder' /\ LastComing' = LastComing
<1>1. Sent' = Sent /\ Untold' = Untold /\ OnWay' = OnWay /\ Home' = Home
  BY DEF Sent, Untold, OnWay, Words, BoxWords, Home
<1>2. LastComing' = LastComing
  BY <1>1, ComingNext DEF LastComing
<1>3. /\ \A x \in Sent, y \in Untold : x.n <= y.n
      /\ \A x \in Words(arriving), y \in BoxWords(box) : IsRow(x) /\ IsRow(y) => x.n <= y.n
      /\ RowsInOrder(arriving)
      /\ (\E x \in OnWay : IsRow(x)) => LastComing
      /\ \A x \in OnWay : ~IsRow(x) => x.n = commits \/ LastComing \/ commits <= told
      /\ \A g \in Grids : open /\ reads[g].phase = "answered" /\ reads[g].n # commits =>
            LastComing \/ (commits <= told /\ (g = Home => reads[g].owed))
  BY DEF InOrder
<1>4. \A g \in Grids : open' /\ reads'[g].phase = "answered" /\ reads'[g].n # commits' =>
          LastComing' \/ (commits' <= told' /\ (g = Home' => reads'[g].owed))
  BY <1>1, <1>2, <1>3
<1>5. QED
  BY <1>1, <1>2, <1>3, <1>4, InOrderNext

\* The cache shows no row that is newer than the node's; a held tile is shown,
\* where its write put it, and its write is not waited for once it landed.
NoNewer(rows, v) == \A g \in Grids : rows[g].version <= v

HoldIsShown ==
    hold # NoHold =>
        /\ shown[GridOf[hold.place]] # NoRow
        /\ hold.place = moves[hold.move].to
        /\ hold.landed => moves[hold.move].phase = "landed" /\ ~moves[hold.move].waiting

CacheIsTrue == NoNewer(shown, row.version) /\ HoldIsShown

\* Where a hold knows the tile to be: the rows it covered, and where its own
\* write put it, or found it.
Knows ==
    hold.covered \cup
    (IF hold.landed THEN {hold.place}
     ELSE IF moves[hold.move].phase = "landed" THEN {moves[hold.move].origin} \cap {hold.place}
     ELSE {moves[hold.move].origin})

\* The node's row is shown, or would be where it is not held.
Kept ==
    IF hold = NoHold THEN shown[Home] = row
    ELSE shown[GridOf[hold.place]].version = row.version /\ row.place \in Knows

\* What the client's variables hold.
LEMMA CacheTypes ==
    ASSUME Feeds
    PROVE  /\ AtHome(shown) /\ UnderHand(shown, hold) /\ hold \in Hold \cup {NoHold}
           /\ hold # NoHold => /\ hold \in Hold /\ hold.move \in Moves /\ hold.place \in Places
                               /\ hold.landed \in BOOLEAN /\ hold.covered \subseteq Places
                               /\ GridOf[hold.place] \in Grids
                               /\ moves[hold.move].phase # "unmade"
                               /\ moves[hold.move].origin \in Places
           /\ moves \in [Moves -> Move] /\ reads \in [Grids -> Read]
           /\ row \in Row /\ row # NoRow /\ row.place \in Places /\ row.version \in Nat /\ Home \in Grids
           /\ \A g \in Grids : shown[g] \in Row \cup {NoRow} /\ shown[g].version \in Nat
<1>1. /\ AtHome(shown) /\ UnderHand(shown, hold) /\ hold \in Hold \cup {NoHold}
      /\ moves \in [Moves -> Move] /\ reads \in [Grids -> Read] /\ row \in Row
      /\ shown \in [Grids -> Row \cup {NoRow}]
      /\ hold # NoHold => moves[hold.move].phase # "unmade" /\ moves[hold.move].origin \in Places
  BY DEF Feeds, FeedTypeOK, MovesKnown
<1>2. hold # NoHold => /\ hold \in Hold /\ hold.move \in Moves /\ hold.place \in Places
                       /\ hold.landed \in BOOLEAN /\ hold.covered \subseteq Places
                       /\ GridOf[hold.place] \in Grids
  BY <1>1, FeedTypes
<1>3. \A r \in Row : r.version \in Nat
  BY DEF Row
<1>4. row # NoRow /\ row.place \in Places /\ row.version \in Nat /\ Home \in Grids
  BY <1>1, <1>3, FeedTypes DEF Home
<1>5. \A g \in Grids : shown[g] \in Row \cup {NoRow} /\ shown[g].version \in Nat
  BY <1>1, <1>3, FeedTypes
<1>6. QED
  BY <1>1, <1>2, <1>4, <1>5

\* A row stored is shown, or a newer one of its grid is.
LEMMA StoredShows ==
    ASSUME NEW rows, AtHome(rows), NEW r \in Row
    PROVE  /\ Stored(rows, r)[GridOf[r.place]] # NoRow
           /\ \A v \in Nat : NoNewer(rows, v) /\ r.version <= v => NoNewer(Stored(rows, r), v)
           /\ NoNewer(rows, r.version) =>
                  Stored(rows, r) = [x \in Grids |-> IF x = GridOf[r.place] THEN r ELSE NoRow]
           /\ GridOf[r.place] \in Grids
<1>1. /\ r.version \in Nat \ {0} /\ r # NoRow /\ GridOf[r.place] \in Grids
      /\ NoRow.version = 0
  <2>1. r.version \in 1..MaxVersion
    BY FeedTypes
  <2>2. QED
    BY <2>1, FeedTypes
<1>2. \A g \in Grids : rows[g].version \in Nat
  <2>1. \A g \in Grids : rows[g] \in Row \cup {NoRow}
    BY DEF AtHome
  <2>2. \A x \in Row : x.version \in Nat
    BY DEF Row
  <2>3. QED
    BY <1>1, <2>1, <2>2
<1>3. CASE r.version < rows[GridOf[r.place]].version
  <2>1. Stored(rows, r) = rows
    BY <1>3 DEF Stored
  <2>2. rows[GridOf[r.place]] # NoRow
    BY <1>1, <1>2, <1>3
  <2>3. ~NoNewer(rows, r.version)
    BY <1>1, <1>2, <1>3 DEF NoNewer
  <2>4. QED
    BY <1>1, <2>1, <2>2, <2>3
<1>4. CASE ~(r.version < rows[GridOf[r.place]].version)
  <2>1. Stored(rows, r) = [x \in Grids |-> IF x = GridOf[r.place] THEN r ELSE NoRow]
    BY <1>4 DEF Stored
  <2>2. QED
    BY <1>1, <2>1 DEF NoNewer
<1>5. QED
  BY <1>3, <1>4

\* The row a hold makes of another: its place is the hold's.
LEMMA AdmitSays ==
    ASSUME NEW h \in Hold \cup {NoHold}, NEW r \in Row, NEW stream \in BOOLEAN
    PROVE  LET a == Admit(h, r, stream) IN
           /\ a.row \in Row /\ a.row.version = r.version
           /\ h = NoHold \/ (stream /\ r.place = h.place) \/ (~stream /\ h.landed) =>
                  a.row = r /\ a.hold = NoHold
           /\ ~(h = NoHold \/ (stream /\ r.place = h.place) \/ (~stream /\ h.landed)) =>
                  /\ h \in Hold /\ a.hold \in Hold /\ a.hold # NoHold
                  /\ a.row.place = h.place
                  /\ a.hold.move = h.move /\ a.hold.place = h.place /\ a.hold.landed = h.landed
                  /\ a.hold.covered = h.covered \cup {r.place}
<1>1. CASE h = NoHold \/ (stream /\ r.place = h.place) \/ (~stream /\ h.landed)
  BY <1>1 DEF Admit
<1>2. CASE ~(h = NoHold \/ (stream /\ r.place = h.place) \/ (~stream /\ h.landed))
  <2>1. h \in Hold /\ h.place \in Places /\ h.covered \subseteq Places /\ r.place \in Places
    BY <1>2, FeedTypes
  <2>2. PICK q, k : q = [r EXCEPT !.place = h.place] /\ k = [h EXCEPT !.covered = @ \cup {r.place}]
    OBVIOUS
  <2>3. q \in Row /\ q.place = h.place /\ q.version = r.version
    BY <2>1, <2>2 DEF Row
  <2>4. /\ k \in Hold /\ k.place = h.place /\ k.move = h.move /\ k.landed = h.landed
        /\ k.covered = h.covered \cup {r.place}
    BY <2>1, <2>2 DEF Hold
  <2>5. Admit(h, r, stream).row = q /\ Admit(h, r, stream).hold = k
    BY <1>2, <2>2 DEF Admit
  <2>6. k # NoHold
    BY <2>4, FeedTypes
  <2>7. QED
    BY <1>2, <2>1, <2>3, <2>4, <2>5, <2>6
<1>3. QED
  BY <1>1, <1>2

\* What the cache shows stays true while it is left alone.
LEMMA CacheStays ==
    ASSUME Feeds, Feeds', CacheIsTrue, UNCHANGED <<shown, hold>>, row.version <= row'.version,
           hold # NoHold =>
               /\ moves'[hold.move].to = moves[hold.move].to
               /\ moves[hold.move].phase = "landed" /\ ~moves[hold.move].waiting =>
                      moves'[hold.move].phase = "landed" /\ ~moves'[hold.move].waiting
    PROVE  CacheIsTrue'
<1>1. /\ row.version \in Nat /\ row'.version \in Nat /\ \A g \in Grids : shown[g].version \in Nat
  <2>1. row' \in Row
    BY DEF Feeds, FeedTypeOK
  <2>2. QED
    BY <2>1, CacheTypes DEF Row
<1>2. \A g \in Grids : shown'[g].version <= row'.version
  <2>1. \A g \in Grids : shown[g].version <= row.version
    BY DEF CacheIsTrue, NoNewer
  <2>2. QED
    BY <1>1, <2>1
<1>3. NoNewer(shown, row.version)'
  BY <1>2 DEF NoNewer
<1>4. HoldIsShown'
  BY DEF CacheIsTrue, HoldIsShown
<1>5. QED
  BY <1>3, <1>4 DEF CacheIsTrue

LEMMA KeptStays ==
    ASSUME Kept, UNCHANGED <<row, shown, hold>>,
           hold # NoHold =>
               /\ moves'[hold.move].origin = moves[hold.move].origin
               /\ moves'[hold.move].phase = "landed" <=> moves[hold.move].phase = "landed"
    PROVE  Kept'
BY DEF Kept, Knows, Home

LEMMA AwaitedStays ==
    ASSUME Awaited, UNCHANGED <<row, commits>>, open' => open, LastComing /\ open => LastComing',
           Reading(Home) => Reading(Home)'
    PROVE  Awaited'
BY DEF Awaited

\* The node has the last word while nothing is held.
LEMMA KeptAt ==
    ASSUME hold' = NoHold, row' = row, shown'[Home] = row
    PROVE  Kept'
BY DEF Kept, Home

\* A hold that covers the node's row keeps its version.
LEMMA KeptUnder ==
    ASSUME hold' # NoHold, row' = row, row.place \in hold'.covered,
           shown'[GridOf[hold'.place]].version = row.version
    PROVE  Kept'
BY DEF Kept, Knows

\* The tile put where a hold has it, or where no hold has it.
LEMMA RowShows ==
    ASSUME Feeds, CacheIsTrue, NEW rows, AtHome(rows), NEW r \in Row, r.version <= row.version, row' = row,
           NoNewer(rows, row.version),
           shown' = Stored(rows, r)
    PROVE  /\ NoNewer(shown', row.version)
           /\ shown'[GridOf[r.place]] # NoRow
           /\ r.version = row.version => shown'[GridOf[r.place]] = r
BY StoredShows, CacheTypes

\* A row's event is applied.
LEMMA ChangedCache ==
    ASSUME Feeds, Said, CacheIsTrue, ApplyChanged
    PROVE  CacheIsTrue' /\ (Head(arriving).row = row => Kept')
<1>1. PICK e, a : e = Head(arriving) /\ a = Admit(hold, e.row, TRUE)
  OBVIOUS
<1>2. hold' = a.hold /\ shown' = Stored(shown, a.row) /\ row' = row /\ moves' = moves
  BY <1>1 DEF ApplyChanged, nodeVars
<1>3. e \in FeedEvent /\ e.row \in Row /\ e.row.version <= row.version
  <2>1. e \in FeedEvent /\ e \in OnWay
    BY <1>1, ApplyWay DEF Said, OnWay
  <2>2. e.row.version <= row.version
    BY <2>1 DEF Said, EventsAreTrue
  <2>3. QED
    BY <2>1, <2>2, FeedTypes
<1>4. /\ hold \in Hold \cup {NoHold} /\ AtHome(shown) /\ NoNewer(shown, row.version) /\ HoldIsShown
      /\ row.version \in Nat
  BY CacheTypes DEF CacheIsTrue
<1>5. /\ a.row \in Row /\ a.row.version = e.row.version
      /\ hold = NoHold \/ (TRUE /\ e.row.place = hold.place) \/ (~TRUE /\ hold.landed) =>
             a.row = e.row /\ a.hold = NoHold
      /\ ~(hold = NoHold \/ (TRUE /\ e.row.place = hold.place) \/ (~TRUE /\ hold.landed)) =>
             /\ hold \in Hold /\ a.hold \in Hold /\ a.hold # NoHold
             /\ a.row.place = hold.place
             /\ a.hold.move = hold.move /\ a.hold.place = hold.place /\ a.hold.landed = hold.landed
             /\ a.hold.covered = hold.covered \cup {e.row.place}
  <2>1. hold \in Hold \cup {NoHold} /\ e.row \in Row /\ TRUE \in BOOLEAN /\ a = Admit(hold, e.row, TRUE)
    BY <1>1, <1>3, <1>4
  <2>2. QED
    BY <2>1, AdmitSays
<1>6. /\ NoNewer(shown', row.version)
      /\ shown'[GridOf[a.row.place]] # NoRow
      /\ a.row.version = row.version => shown'[GridOf[a.row.place]] = a.row
  BY <1>2, <1>3, <1>4, <1>5, RowShows
<1>7. NoNewer(shown, row.version)'
  BY <1>2, <1>6 DEF NoNewer
<1>8. CASE hold = NoHold \/ e.row.place = hold.place
  <2>1. hold' = NoHold /\ a.row = e.row
    BY <1>2, <1>5, <1>8
  <2>2. CacheIsTrue'
    BY <1>7, <2>1 DEF CacheIsTrue, HoldIsShown
  <2>3. e.row = row => shown'[Home] = row
    BY <1>6, <2>1 DEF Home
  <2>4. QED
    BY <1>1, <1>2, <2>1, <2>2, <2>3, KeptAt
<1>9. CASE ~(hold = NoHold \/ e.row.place = hold.place)
  <2>1. /\ hold # NoHold /\ hold' # NoHold /\ a.row.place = hold.place
        /\ hold'.move = hold.move /\ hold'.place = hold.place /\ hold'.landed = hold.landed
        /\ e.row.place \in hold'.covered
    BY <1>2, <1>5, <1>9
  <2>2. HoldIsShown'
    BY <1>2, <1>4, <1>6, <2>1 DEF HoldIsShown
  <2>3. e.row = row => Kept'
    BY <1>2, <1>5, <1>6, <2>1, KeptUnder
  <2>4. QED
    BY <1>1, <1>7, <2>2, <2>3 DEF CacheIsTrue
<1>10. QED
  BY <1>8, <1>9

\* A removal is applied.
LEMMA RemovedCache ==
    ASSUME Feeds, Said, CacheIsTrue, ApplyRemoved
    PROVE  CacheIsTrue' /\ (Kept /\ Head(arriving).grid # Home => Kept')
<1>1. PICK e : e = Head(arriving)
  OBVIOUS
<1>2. /\ hold' = hold /\ row' = row /\ moves' = moves
      /\ shown' = IF hold # NoHold /\ GridOf[hold.place] = e.grid THEN shown
                  ELSE [shown EXCEPT ![e.grid] = NoRow]
  BY <1>1 DEF ApplyRemoved, nodeVars
<1>3. e.grid \in Grids
  BY <1>1, ApplyWay, FeedTypes DEF Said
<1>4. /\ AtHome(shown) /\ NoNewer(shown, row.version) /\ HoldIsShown /\ row.version \in Nat
      /\ shown \in [Grids -> Row \cup {NoRow}]
      /\ hold # NoHold => GridOf[hold.place] \in Grids
  BY CacheTypes DEF CacheIsTrue, AtHome
<1>5. \A g \in Grids : shown'[g] = shown[g] \/ (shown'[g] = NoRow /\ g = e.grid)
  BY <1>2, <1>3, <1>4
<1>6. NoNewer(shown, row.version)'
  BY <1>2, <1>4, <1>5, FeedTypes DEF NoNewer
<1>7. hold # NoHold => shown'[GridOf[hold.place]] = shown[GridOf[hold.place]]
  BY <1>2, <1>3, <1>4
<1>8. HoldIsShown'
  BY <1>2, <1>4, <1>7 DEF HoldIsShown
<1>9. Kept /\ e.grid # Home => Kept'
  <2>1. Home \in Grids
    BY CacheTypes
  <2>2. e.grid # Home => shown'[Home] = shown[Home]
    BY <1>5, <2>1
  <2>3. Home' = Home /\ Knows' = Knows
    BY <1>2 DEF Home, Knows
  <2>4. QED
    BY <1>2, <1>7, <2>2, <2>3 DEF Kept
<1>10. QED
  BY <1>1, <1>6, <1>8, <1>9 DEF CacheIsTrue

\* A read lands: the node's row is shown or covered, or what was shown stays.
LEMMA LandCache ==
    ASSUME Feeds, Said, CacheIsTrue, NEW g \in Grids, Land(g)
    PROVE  /\ CacheIsTrue'
           /\ reads[g].row = row => Kept'
           /\ reads[g].row = NoRow /\ g # Home /\ Kept /\ ~Uncovers(g) => Kept'
<1>1. PICK r, a : r = reads[g].row /\ a = Admit(hold, r, FALSE)
  OBVIOUS
<1>2. PutGrid(hold, g, r) /\ row' = row /\ moves' = moves
  BY <1>1 DEF Land, nodeVars
<1>3. /\ hold \in Hold \cup {NoHold} /\ AtHome(shown) /\ NoNewer(shown, row.version) /\ HoldIsShown
      /\ UnderHand(shown, hold)
      /\ row.version \in Nat /\ row # NoRow /\ Home \in Grids /\ shown \in [Grids -> Row \cup {NoRow}]
      /\ hold # NoHold => GridOf[hold.place] \in Grids
  BY CacheTypes DEF CacheIsTrue, AtHome
<1>4. r \in Row \cup {NoRow} /\ (r # NoRow => r.version <= row.version /\ GridOf[r.place] = g)
  <2>1. reads[g] \in Read
    BY CacheTypes
  <2>2. reads[g].phase = "answered"
    BY DEF Land
  <2>3. QED
    BY <1>1, <2>1, <2>2 DEF Read, Said, ReadsAreTrue
<1>5. PICK emptied : emptied = [shown EXCEPT ![g] = NoRow]
  OBVIOUS
<1>6. /\ AtHome(emptied) /\ NoNewer(emptied, row.version)
      /\ \A x \in Grids : x # g => emptied[x] = shown[x]
  <2>1. AtHome(emptied)
    BY <1>3, <1>5, EmptiedIsHome
  <2>2. QED
    BY <1>3, <1>5, <2>1, FeedTypes DEF NoNewer
<1>7. CASE r = NoRow
  <2>1. CASE hold # NoHold /\ GridOf[hold.place] = g /\ hold.landed
    <3>1. hold' = NoHold /\ shown' = emptied
      BY <1>2, <1>5, <1>7, <2>1 DEF PutGrid
    <3>2. CacheIsTrue'
      BY <1>2, <1>6, <3>1 DEF CacheIsTrue, HoldIsShown, NoNewer
    <3>3. Kept /\ g # Home => Uncovers(g)
      <4>1. ASSUME Kept, g # Home PROVE Uncovers(g)
        <5>1. row.place \in hold.covered \cup {hold.place}
          BY <2>1, <4>1 DEF Kept, Knows
        <5>2. row.place \in hold.covered /\ GridOf[row.place] # g
          BY <2>1, <4>1, <5>1 DEF Home
        <5>3. QED
          BY <1>1, <1>7, <2>1, <5>2 DEF Uncovers
      <4>2. QED
        BY <4>1
    <3>4. QED
      BY <1>1, <1>3, <1>7, <3>2, <3>3
  <2>2. CASE hold # NoHold /\ GridOf[hold.place] = g /\ ~hold.landed
    <3>1. UNCHANGED <<hold, shown>>
      BY <1>2, <1>7, <2>2 DEF PutGrid
    <3>2. CacheIsTrue'
      BY <1>2, <1>3, <3>1 DEF CacheIsTrue, HoldIsShown, NoNewer
    <3>3. Kept => Kept'
      BY <1>2, <3>1 DEF Kept, Knows, Home
    <3>4. QED
      BY <1>1, <1>3, <1>7, <3>2, <3>3
  <2>3. CASE hold = NoHold \/ GridOf[hold.place] # g
    <3>1. hold' = hold /\ shown' = emptied
      BY <1>2, <1>5, <1>7, <2>3 DEF PutGrid
    <3>2. hold # NoHold => shown'[GridOf[hold.place]] = shown[GridOf[hold.place]]
      BY <1>3, <1>6, <2>3, <3>1
    <3>3. CacheIsTrue'
      BY <1>2, <1>3, <1>6, <3>1, <3>2 DEF CacheIsTrue, HoldIsShown, NoNewer
    <3>4. Kept /\ g # Home => Kept'
      <4>1. g # Home => shown'[Home] = shown[Home]
        BY <1>3, <1>6, <3>1
      <4>2. Home' = Home /\ Knows' = Knows
        BY <1>2, <3>1 DEF Home, Knows
      <4>3. QED
        BY <1>2, <3>1, <3>2, <4>1, <4>2 DEF Kept
    <3>5. QED
      BY <1>1, <1>3, <1>7, <3>3, <3>4
  <2>4. QED
    BY <2>1, <2>2, <2>3
<1>8. CASE r # NoRow
  <2>0. r \in Row
    BY <1>4, <1>8
  <2>1. /\ a.row \in Row /\ a.row.version = r.version
        /\ hold = NoHold \/ (FALSE /\ r.place = hold.place) \/ (~FALSE /\ hold.landed) =>
               a.row = r /\ a.hold = NoHold
        /\ ~(hold = NoHold \/ (FALSE /\ r.place = hold.place) \/ (~FALSE /\ hold.landed)) =>
               /\ hold \in Hold /\ a.hold \in Hold /\ a.hold # NoHold
               /\ a.row.place = hold.place
               /\ a.hold.move = hold.move /\ a.hold.place = hold.place /\ a.hold.landed = hold.landed
               /\ a.hold.covered = hold.covered \cup {r.place}
    <3>1. hold \in Hold \cup {NoHold} /\ FALSE \in BOOLEAN /\ a = Admit(hold, r, FALSE)
      BY <1>1, <1>3
    <3>2. QED
      BY <2>0, <3>1, AdmitSays
  <2>2. /\ hold' = a.hold
        /\ \/ shown' = [x \in Grids |-> IF x = GridOf[a.row.place] THEN a.row ELSE NoRow]
           \/ shown' = Stored(emptied, a.row)
    BY <1>1, <1>2, <1>5, <1>8 DEF PutGrid
  <2>3. /\ NoNewer(shown', row.version)
        /\ shown'[GridOf[a.row.place]] # NoRow
        /\ a.row.version = row.version => shown'[GridOf[a.row.place]] = a.row
    <3>1. a.row.version <= row.version /\ a.row # NoRow /\ GridOf[a.row.place] \in Grids
      BY <1>4, <1>8, <2>1, FeedTypes
    <3>2. CASE shown' = [x \in Grids |-> IF x = GridOf[a.row.place] THEN a.row ELSE NoRow]
      BY <1>3, <3>1, <3>2, FeedTypes DEF NoNewer
    <3>3. CASE shown' = Stored(emptied, a.row)
      BY <1>2, <1>6, <2>1, <3>1, <3>3, RowShows
    <3>4. QED
      BY <2>2, <3>2, <3>3
  <2>4. NoNewer(shown, row.version)'
    BY <1>2, <2>3 DEF NoNewer
  <2>5. CASE hold = NoHold \/ hold.landed
    <3>1. hold' = NoHold /\ a.row = r
      BY <2>1, <2>2, <2>5
    <3>2. CacheIsTrue'
      BY <2>4, <3>1 DEF CacheIsTrue, HoldIsShown
    <3>3. r = row => Kept'
      BY <1>2, <2>3, <3>1, KeptAt DEF Home
    <3>4. QED
      BY <1>1, <1>8, <3>2, <3>3
  <2>6. CASE ~(hold = NoHold \/ hold.landed)
    <3>1. /\ hold # NoHold /\ hold' # NoHold /\ a.row.place = hold.place
          /\ hold'.move = hold.move /\ hold'.place = hold.place /\ hold'.landed = hold.landed
          /\ r.place \in hold'.covered
      BY <2>1, <2>2, <2>6
    <3>2. HoldIsShown'
      BY <1>2, <1>3, <2>3, <3>1 DEF HoldIsShown
    <3>3. r = row => Kept'
      BY <1>2, <2>1, <2>3, <3>1, KeptUnder
    <3>4. QED
      BY <1>1, <1>8, <2>4, <3>2, <3>3 DEF CacheIsTrue
  <2>7. QED
    BY <2>5, <2>6
<1>9. QED
  BY <1>7, <1>8

\* A row is its place and its version.
LEMMA RowIs == \A r, q \in Row : r.place = q.place /\ r.version = q.version => r = q
BY DEF Row

\* The row the user sees, where one is held.
LEMMA SeenRow ==
    ASSUME Feeds, NEW p \in Places, NEW k \in Grids, shown[k] # NoRow
    PROVE  /\ Held # {} /\ k = (CHOOSE g \in Held : TRUE)
           /\ shown[k] \in Row /\ GridOf[shown[k].place] = k
           /\ \A g \in Grids : g # k => shown[g] = NoRow
           /\ [shown[k] EXCEPT !.place = p] \in Row
           /\ [shown[k] EXCEPT !.place = p].place = p
           /\ [shown[k] EXCEPT !.place = p].version = shown[k].version
           /\ NoNewer(shown, shown[k].version)
<1>1. AtHome(shown) /\ \A g \in Grids : shown[g] \in Row \cup {NoRow} /\ shown[g].version \in Nat
  BY CacheTypes
<1>2. \A g \in Grids : g # k => shown[g] = NoRow
  BY <1>1 DEF AtHome
<1>3. k \in Held /\ \A g \in Held : g = k
  BY <1>2 DEF Held
<1>4. shown[k] \in Row /\ GridOf[shown[k].place] = k
  BY <1>1 DEF AtHome
<1>5. NoNewer(shown, shown[k].version)
  BY <1>1, <1>2, FeedTypes DEF NoNewer
<1>6. /\ [shown[k] EXCEPT !.place = p] \in Row
      /\ [shown[k] EXCEPT !.place = p].place = p
      /\ [shown[k] EXCEPT !.place = p].version = shown[k].version
  BY <1>4 DEF Row
<1>7. QED
  BY <1>2, <1>3, <1>4, <1>5, <1>6

\* The tile is dropped: it is held where it is put, and known where it was.
LEMMA ReleaseCache ==
    ASSUME Feeds, Feeds', CacheIsTrue, NEW m \in Moves, NEW p \in Places, Release(m, p)
    PROVE  CacheIsTrue' /\ (Kept => Kept')
<1>1. /\ row' = row /\ moves[m].phase = "unmade" /\ moves \in [Moves -> Move]
      /\ AtHome(shown) /\ UnderHand(shown, hold) /\ NoNewer(shown, row.version) /\ HoldIsShown
      /\ row \in Row /\ row # NoRow /\ row.version \in Nat /\ Home \in Grids
      /\ hold # NoHold => hold.move \in Moves /\ hold.move # m /\ GridOf[hold.place] \in Grids
  BY CacheTypes DEF Release, nodeVars, CacheIsTrue
<1>2. CASE Held = {}
  <2>1. UNCHANGED <<shown, hold>>
    BY <1>2 DEF Release, cacheVars
  <2>2. \A k \in Moves : k # m => moves'[k] = moves[k]
    BY <1>1, <1>2 DEF Release
  <2>3. CacheIsTrue'
    BY <1>1, <2>1, <2>2, CacheStays
  <2>4. Kept => Kept'
    BY <1>1, <2>1, <2>2, KeptStays
  <2>5. QED
    BY <2>3, <2>4
<1>3. CASE Held # {}
  <2>1. PICK k \in Grids : shown[k] # NoRow
    BY <1>3 DEF Held
  <2>2. PICK r : r = [shown[k] EXCEPT !.place = p]
    OBVIOUS
  <2>3. /\ k = (CHOOSE g \in Held : TRUE)
        /\ shown[k] \in Row /\ \A g \in Grids : g # k => shown[g] = NoRow
        /\ r \in Row /\ r.place = p /\ r.version = shown[k].version
        /\ NoNewer(shown, r.version)
    BY <2>1, <2>2, SeenRow
  <2>4. shown' = Stored(shown, r)
    BY <1>3, <2>2, <2>3 DEF Release
  <2>5. shown' = [x \in Grids |-> IF x = GridOf[p] THEN r ELSE NoRow] /\ GridOf[p] \in Grids
    BY <1>1, <2>3, <2>4, StoredShows
  <2>6. hold' = [move |-> m, place |-> p, landed |-> FALSE,
                 covered |-> hold.covered \cup (IF hold = NoHold \/ hold.landed THEN {}
                                                ELSE {moves[hold.move].origin})]
    BY <1>3 DEF Release
  <2>7. moves'[m].phase = "sent" /\ moves'[m].to = p /\ moves'[m].origin = shown[k].place
    <3>1. moves' = [moves EXCEPT ![m] = [Unmade EXCEPT !.phase = "sent", !.waiting = TRUE, !.to = p,
                                                      !.claim = press, !.origin = shown[k].place]]
      BY <1>3, <2>3 DEF Release
    <3>2. QED
      BY <1>1, <3>1 DEF Unmade
  <2>8. /\ hold'.move = m /\ hold'.place = p /\ hold'.landed = FALSE
        /\ hold'.covered = hold.covered \cup (IF hold = NoHold \/ hold.landed THEN {}
                                              ELSE {moves[hold.move].origin})
        /\ hold' # NoHold
    <3>1. m # NoMove /\ NoHold.move = NoMove
      BY FeedTypes, FeedAssumption DEF FeedAssumption
    <3>2. QED
      BY <2>6, <3>1
  <2>9. NoNewer(shown, row.version)'
    <3>1. r.version <= row.version
      BY <1>1, <2>3 DEF NoNewer
    <3>2. QED
      BY <1>1, <2>5, <3>1, FeedTypes DEF NoNewer
  <2>10. HoldIsShown'
    BY <2>3, <2>5, <2>7, <2>8, FeedTypes DEF HoldIsShown
  <2>11. ASSUME Kept PROVE Kept'
    <3>1. Knows' = hold'.covered \cup {shown[k].place}
      BY <2>7, <2>8 DEF Knows
    <3>2. CASE hold = NoHold
      <4>1. shown[Home] = row
        BY <2>11, <3>2 DEF Kept
      <4>2. shown[k] = row
        BY <1>1, <2>3, <4>1
      <4>3. QED
        BY <1>1, <2>3, <2>5, <2>8, <3>1, <4>2 DEF Kept
    <3>3. CASE hold # NoHold
      <4>1. shown[GridOf[hold.place]].version = row.version /\ row.place \in Knows
        BY <2>11, <3>3 DEF Kept
      <4>2. GridOf[hold.place] = k
        BY <1>1, <2>3, <3>3 DEF HoldIsShown
      <4>3. shown[k].place = hold.place
        BY <1>1, <2>1, <3>3 DEF UnderHand
      <4>4. Knows \subseteq hold.covered \cup {hold.place} \cup (IF hold.landed THEN {} ELSE {moves[hold.move].origin})
        BY DEF Knows
      <4>5. row.place \in Knows'
        BY <2>8, <3>1, <3>3, <4>1, <4>3, <4>4
      <4>6. QED
        BY <1>1, <2>3, <2>5, <2>8, <4>1, <4>2, <4>5 DEF Kept
    <3>4. QED
      BY <3>2, <3>3
  <2>12. QED
    BY <2>9, <2>10, <2>11 DEF CacheIsTrue
<1>4. QED
  BY <1>2, <1>3

\* The row goes back where it was: to the node's, or to one that is covered.
LEMMA FailedCache ==
    ASSUME Feeds, Feeds', CacheIsTrue, NEW m \in Moves, Failed(m), moves[m].waiting, row' = row,
           \A k \in Moves : k # m => moves'[k] = moves[k]
    PROVE  CacheIsTrue' /\ (Kept /\ row.place \notin Covered(m) => Kept')
<1>1. /\ AtHome(shown) /\ NoNewer(shown, row.version) /\ HoldIsShown
      /\ row \in Row /\ row.version \in Nat
      /\ hold # NoHold => /\ hold.move \in Moves /\ GridOf[hold.place] \in Grids
                          /\ moves[hold.move].origin \in Places
  BY CacheTypes DEF CacheIsTrue
<1>2. CASE hold.move # m
  <2>1. UNCHANGED <<shown, hold>>
    BY <1>2 DEF Failed, cacheVars
  <2>2. CacheIsTrue'
    BY <1>1, <1>2, <2>1, CacheStays
  <2>3. Kept => Kept'
    BY <1>1, <1>2, <2>1, KeptStays
  <2>4. QED
    BY <2>2, <2>3
<1>3. CASE hold.move = m
  <2>1. hold # NoHold /\ moves[m].origin \in Places
    BY <1>1, <1>3, FeedTypes, FeedAssumption DEF FeedAssumption
  <2>2. PICK k \in Grids : k = GridOf[hold.place] /\ shown[k] # NoRow
    BY <1>1, <2>1 DEF HoldIsShown
  <2>3. PICK r : r = [shown[k] EXCEPT !.place = moves[m].origin]
    OBVIOUS
  <2>4. /\ Held # {} /\ k = (CHOOSE g \in Held : TRUE)
        /\ r \in Row /\ r.place = moves[m].origin /\ r.version = shown[k].version
    <3>1. PICK p \in Places : p = moves[m].origin
      BY <2>1
    <3>2. /\ Held # {} /\ k = (CHOOSE g \in Held : TRUE)
          /\ [shown[k] EXCEPT !.place = p] \in Row
          /\ [shown[k] EXCEPT !.place = p].place = p
          /\ [shown[k] EXCEPT !.place = p].version = shown[k].version
      BY <2>2, <3>1, SeenRow
    <3>3. QED
      BY <2>3, <3>1, <3>2
  <2>5. hold' = NoHold /\ shown' = Stored(shown, r)
    BY <1>3, <2>3, <2>4 DEF Failed
  <2>6. r.version <= row.version
    BY <1>1, <2>4 DEF NoNewer
  <2>7. /\ NoNewer(shown', row.version)
        /\ r.version = row.version => shown'[GridOf[r.place]] = r
    BY <1>1, <2>4, <2>5, <2>6, RowShows
  <2>8. CacheIsTrue'
    BY <2>5, <2>7 DEF CacheIsTrue, HoldIsShown, NoNewer
  <2>9. ASSUME Kept, row.place \notin Covered(m) PROVE Kept'
    <3>1. shown[k].version = row.version /\ row.place \in Knows
      BY <2>1, <2>2, <2>9 DEF Kept
    <3>2. ~hold.landed
      BY <1>1, <1>3, <2>1 DEF HoldIsShown
    <3>3. row.place \in hold.covered \cup {moves[m].origin}
      BY <1>3, <3>1, <3>2 DEF Knows
    <3>4. row.place = moves[m].origin
      BY <1>3, <2>9, <3>3 DEF Covered
    <3>5. r = row
      BY <1>1, <2>4, <3>1, <3>4, RowIs
    <3>6. QED
      BY <2>5, <2>7, <3>5, KeptAt DEF Home
  <2>10. QED
    BY <2>8, <2>9
<1>4. QED
  BY <1>2, <1>3

\* What an answer does to the cache: nothing, or, where it may end the hold,
\* the row goes where the answer has it.
LEMMA ResponseDoes ==
    ASSUME Feeds, NEW r \in Row
    PROVE  LET w == WriteResponse(hold, r)
               g == GridOf[r.place]
           IN \/ w.rows = shown /\ w.hold = hold
              \/ /\ hold = NoHold \/ hold.landed
                 /\ shown[g] # NoRow /\ w.hold = NoHold
                 /\ w.rows = Stored(shown, [shown[g] EXCEPT !.place = r.place])
<1>1. PICK w, g : w = WriteResponse(hold, r) /\ g = GridOf[r.place]
  OBVIOUS
<1>2. /\ r.place \in Places /\ g \in Grids /\ hold \in Hold \cup {NoHold}
      /\ UnderHand(shown, hold) /\ shown \in [Grids -> Row \cup {NoRow}]
  BY <1>1, FeedTypes, CacheTypes DEF AtHome
<1>3. CASE shown[g] = NoRow
  BY <1>1, <1>3 DEF WriteResponse
<1>4. CASE shown[g] # NoRow
  <2>1. PICK q, a : q = [shown[g] EXCEPT !.place = r.place] /\ a = Admit(hold, q, FALSE)
    OBVIOUS
  <2>2. /\ shown[g] \in Row /\ GridOf[shown[g].place] = g
        /\ \A x \in Grids : x # g => shown[x] = NoRow
        /\ q \in Row /\ q.version = shown[g].version
    BY <1>2, <1>4, <2>1, SeenRow
  <2>3. w.rows = Stored(shown, a.row) /\ w.hold = IF a.hold = NoHold THEN NoHold ELSE hold
    BY <1>1, <1>4, <2>1 DEF WriteResponse
  <2>4. /\ a.row \in Row /\ a.row.version = q.version
        /\ hold = NoHold \/ (FALSE /\ q.place = hold.place) \/ (~FALSE /\ hold.landed) =>
               a.row = q /\ a.hold = NoHold
        /\ ~(hold = NoHold \/ (FALSE /\ q.place = hold.place) \/ (~FALSE /\ hold.landed)) =>
               /\ hold \in Hold /\ a.hold \in Hold /\ a.hold # NoHold
               /\ a.row.place = hold.place
               /\ a.hold.move = hold.move /\ a.hold.place = hold.place /\ a.hold.landed = hold.landed
               /\ a.hold.covered = hold.covered \cup {q.place}
    <3>1. a = Admit(hold, q, FALSE) /\ q \in Row /\ hold \in Hold \cup {NoHold} /\ FALSE \in BOOLEAN
      BY <1>2, <2>1, <2>2
    <3>2. QED
      BY <3>1, AdmitSays
  <2>5. CASE hold = NoHold \/ hold.landed
    BY <1>1, <1>4, <2>1, <2>3, <2>4, <2>5
  <2>6. CASE ~(hold = NoHold \/ hold.landed)
    <3>1. w.hold = hold /\ a.row.place = hold.place /\ a.row.version = shown[g].version /\ a.row \in Row
      BY <2>2, <2>3, <2>4, <2>6
    <3>2. shown[g].place = hold.place
      BY <1>2, <1>4, <2>6 DEF UnderHand
    <3>3. a.row = shown[g]
      BY <2>2, <3>1, <3>2, RowIs
    <3>4. Stored(shown, shown[g]) = shown
      BY <1>2, <2>2 DEF Stored
    <3>5. QED
      BY <1>1, <2>3, <3>1, <3>3, <3>4
  <2>7. QED
    BY <2>5, <2>6
<1>5. QED
  BY <1>3, <1>4

\* The write's answer lands: the node's row stays, unless the answer is late.
LEMMA MoveLandsCache ==
    ASSUME Feeds, Feeds', Said, CacheIsTrue, NEW m \in Moves, MoveLands(m)
    PROVE  CacheIsTrue' /\ (Kept /\ excuse' = {} /\ ~Coming(moves[m].n) => Kept')
<1>1. /\ row' = row /\ moves[m].waiting /\ moves[m].phase = "landed"
      /\ moves' = [moves EXCEPT ![m].waiting = FALSE]
      /\ AtHome(shown) /\ NoNewer(shown, row.version) /\ HoldIsShown
      /\ row \in Row /\ row # NoRow /\ row.version \in Nat /\ moves \in [Moves -> Move]
      /\ hold \in Hold \cup {NoHold} /\ Home \in Grids
      /\ hold # NoHold => /\ hold.move \in Moves /\ GridOf[hold.place] \in Grids /\ hold \in Hold
  BY CacheTypes DEF MoveLands, nodeVars, CacheIsTrue
<1>2. PICK r : r = moves[m].answer
  OBVIOUS
<1>3. /\ r \in Row /\ moves[m].n <= commits /\ (moves[m].n = commits => r = row)
      /\ moves[m].n \in Nat /\ commits \in Nat
  <2>1. r \in Row
    BY <1>1, <1>2 DEF Feeds, MovesKnown
  <2>2. moves[m].n <= commits /\ (moves[m].n = commits => r = row)
    BY <1>1, <1>2 DEF Said, AnswersAreTrue
  <2>3. moves[m].n \in Nat
    BY <1>1 DEF Move
  <2>4. QED
    BY <2>1, <2>2, <2>3, WayTypes
<1>4. /\ \A k \in Moves : k # m => moves'[k] = moves[k]
      /\ moves'[m].to = moves[m].to /\ moves'[m].origin = moves[m].origin
      /\ moves'[m].phase = "landed" /\ ~moves'[m].waiting
  BY <1>1 DEF Move
<1>5. CASE moves[m].origin = NoPlace
  <2>1. UNCHANGED <<shown, hold>>
    BY <1>5 DEF MoveLands, cacheVars
  <2>2. CacheIsTrue'
    BY <1>1, <1>4, <2>1, CacheStays
  <2>3. Kept => Kept'
    BY <1>1, <1>4, <2>1, KeptStays
  <2>4. QED
    BY <2>2, <2>3
<1>6. CASE moves[m].origin # NoPlace
  <2>1. PICK w, g : w = WriteResponse(hold, r) /\ g = GridOf[r.place]
    OBVIOUS
  <2>2. /\ shown' = w.rows
        /\ hold' = IF w.hold.move = m THEN [w.hold EXCEPT !.landed = TRUE] ELSE w.hold
        /\ excuse' = {} /\ ~Coming(moves[m].n) =>
               <<w.rows, w.hold>> = <<shown, hold>> \/ ~(moves[m].n < commits)
    BY <1>2, <1>6, <2>1 DEF MoveLands
  <2>3. CASE w.rows = shown /\ w.hold = hold
    <3>1. CASE hold.move # m
      <4>1. UNCHANGED <<shown, hold>>
        BY <2>2, <2>3, <3>1
      <4>2. CacheIsTrue'
        BY <1>1, <1>4, <3>1, <4>1, CacheStays
      <4>3. Kept => Kept'
        BY <1>1, <1>4, <3>1, <4>1, KeptStays
      <4>4. QED
        BY <4>2, <4>3
    <3>2. CASE hold.move = m
      <4>1. hold # NoHold /\ hold \in Hold /\ ~hold.landed
        BY <1>1, <3>2, FeedTypes, FeedAssumption DEF FeedAssumption, HoldIsShown
      <4>2. /\ hold' # NoHold /\ hold'.move = m /\ hold'.place = hold.place /\ hold'.landed = TRUE
            /\ hold'.covered = hold.covered /\ shown' = shown
        <5>1. hold' = [hold EXCEPT !.landed = TRUE]
          BY <2>2, <2>3, <3>2
        <5>2. /\ hold'.move = m /\ hold'.place = hold.place /\ hold'.landed = TRUE
              /\ hold'.covered = hold.covered
          BY <3>2, <4>1, <5>1 DEF Hold
        <5>3. hold' # NoHold
          BY <5>2, FeedTypes
        <5>4. QED
          BY <2>2, <2>3, <5>2, <5>3
      <4>3. NoNewer(shown, row.version)'
        BY <1>1, <4>2 DEF NoNewer
      <4>4. HoldIsShown'
        BY <1>1, <1>4, <3>2, <4>1, <4>2 DEF HoldIsShown
      <4>5. Kept => Kept'
        <5>1. Knows \subseteq hold.covered \cup {hold.place}
          BY <1>1, <3>2, <4>1 DEF Knows
        <5>2. Knows' = hold.covered \cup {hold.place}
          BY <4>2 DEF Knows
        <5>3. QED
          BY <1>1, <4>1, <4>2, <5>1, <5>2 DEF Kept
      <4>6. QED
        BY <4>3, <4>4, <4>5 DEF CacheIsTrue
    <3>3. QED
      BY <3>1, <3>2
  <2>4. CASE /\ hold = NoHold \/ hold.landed
             /\ shown[g] # NoRow /\ w.hold = NoHold
             /\ w.rows = Stored(shown, [shown[g] EXCEPT !.place = r.place])
    <3>1. hold' = NoHold
      BY <2>2, <2>4, FeedTypes, FeedAssumption DEF FeedAssumption
    <3>2. PICK q : q = [shown[g] EXCEPT !.place = r.place]
      OBVIOUS
    <3>3. /\ q \in Row /\ q.place = r.place /\ q.version = shown[g].version /\ g \in Grids
          /\ \A x \in Grids : x # g => shown[x] = NoRow
      <4>1. r.place \in Places /\ g \in Grids
        BY <1>3, <2>1, FeedTypes
      <4>2. QED
        BY <2>4, <3>2, <4>1, SeenRow
    <3>4. q.version <= row.version
      BY <1>1, <3>3 DEF NoNewer
    <3>5. /\ NoNewer(shown', row.version)
          /\ q.version = row.version => shown'[GridOf[q.place]] = q
      BY <1>1, <2>2, <2>4, <3>2, <3>3, <3>4, RowShows
    <3>6. CacheIsTrue'
      BY <1>1, <3>1, <3>5 DEF CacheIsTrue, HoldIsShown, NoNewer
    <3>7. ASSUME Kept, excuse' = {}, ~Coming(moves[m].n) PROVE Kept'
      <4>1. CASE w.rows = shown /\ w.hold = hold
        <5>1. UNCHANGED <<row, shown, hold>> /\ hold = NoHold
          BY <1>1, <2>2, <2>4, <3>1, <4>1
        <5>2. QED
          BY <3>7, <5>1, KeptStays
      <4>2. CASE ~(w.rows = shown /\ w.hold = hold)
        <5>1. ~(moves[m].n < commits)
          BY <2>2, <3>7, <4>2
        <5>2. r = row /\ g = Home
          BY <1>3, <2>1, <5>1 DEF Home
        <5>3. q.version = row.version
          <6>1. CASE hold = NoHold
            BY <3>3, <3>7, <5>2, <6>1 DEF Kept
          <6>2. CASE hold # NoHold
            <7>1. shown[GridOf[hold.place]].version = row.version /\ shown[GridOf[hold.place]] # NoRow
              BY <1>1, <3>7, <6>2 DEF Kept, HoldIsShown
            <7>2. GridOf[hold.place] = g
              BY <1>1, <3>3, <6>2, <7>1
            <7>3. QED
              BY <3>3, <7>1, <7>2
          <6>3. QED
            BY <6>1, <6>2
        <5>4. q = row
          BY <1>1, <3>3, <5>2, <5>3, RowIs
        <5>5. shown'[Home] = row
          BY <3>5, <5>3, <5>4 DEF Home
        <5>6. QED
          BY <1>1, <3>1, <5>5, KeptAt
      <4>3. QED
        BY <4>1, <4>2
    <3>8. QED
      BY <3>6, <3>7
  <2>5. QED
    BY <1>3, <2>1, <2>3, <2>4, ResponseDoes
<1>7. QED
  BY <1>5, <1>6

\* While nothing went wrong, the node's row is awaited, or it is kept.
Settled == excuse = {} => InOrder /\ (Awaited \/ Kept)

LEMMA SettledBegins == ASSUME FeedInit PROVE CacheIsTrue /\ Settled
<1>1. Feeds
  BY FeedBegins
<1>2. row.version \in Nat /\ Home \in Grids /\ row # NoRow
  BY <1>1, CacheTypes
<1>3. hold = NoHold /\ shown = [g \in Grids |-> IF g = Home THEN row ELSE NoRow]
  BY DEF FeedInit, Home
<1>4. CacheIsTrue
  BY <1>2, <1>3, FeedTypes DEF CacheIsTrue, NoNewer, HoldIsShown
<1>5. Kept
  BY <1>2, <1>3 DEF Kept
<1>6. QED
  BY <1>4, <1>5, OrderBegins DEF Settled

\* The node takes the user's write or refuses it.
LEMMA NodeMovesSettled ==
    ASSUME Feeds, Feeds', Said, CacheIsTrue, Settled, NEW m \in Moves, NEW overlap \in BOOLEAN,
           NodeMoves(m, overlap)
    PROVE  CacheIsTrue' /\ Settled'
<1>1. /\ moves[m].phase = "sent" /\ UNCHANGED <<open, box, arriving, told, reads, shown, hold, excuse>>
      /\ \/ /\ UNCHANGED <<row, commits, telling>> /\ row.place = moves[m].to
            /\ moves' = [moves EXCEPT ![m].phase = "landed", ![m].answer = row, ![m].n = commits]
         \/ /\ Commit(m, [row EXCEPT !.place = moves[m].to])
            /\ moves' = [moves EXCEPT ![m].phase = "landed", ![m].answer = row', ![m].n = commits + 1]
         \/ /\ UNCHANGED <<row, commits, telling>>
            /\ moves' = [moves EXCEPT ![m].phase = "refused"]
  BY DEF NodeMoves, nodeVars, streamVars, cacheVars
<1>2. /\ moves \in [Moves -> Move] /\ moves[m] \in Move /\ row \in Row /\ row.version \in Nat
      /\ moves[m].to \in Places /\ m \in Slots /\ telling[m] = <<>>
      /\ hold # NoHold => hold.move \in Moves
  <2>1. /\ moves \in [Moves -> Move] /\ row \in Row /\ row.version \in Nat /\ (hold # NoHold => hold.move \in Moves)
    BY CacheTypes
  <2>2. moves[m].to \in Places
    BY <1>1 DEF Feeds, MovesKnown
  <2>3. m \in Slots /\ telling[m] = <<>>
    BY <1>1 DEF Said, TellsInPairs, Slots
  <2>4. QED
    BY <2>1, <2>2, <2>3
<1>3. /\ \A k \in Moves : /\ moves'[k].to = moves[k].to /\ moves'[k].origin = moves[k].origin
                          /\ moves'[k].waiting = moves[k].waiting
                          /\ k # m => moves'[k] = moves[k]
      /\ moves'[m].phase # "sent"
  BY <1>1, <1>2 DEF Move
<1>4. row' = row \/ row' = [row EXCEPT !.place = moves[m].to]
  BY <1>1 DEF Commit
<1>5. row.version <= row'.version
  BY <1>2, <1>4 DEF Row
<1>6. CacheIsTrue'
  BY <1>1, <1>2, <1>3, <1>5, CacheStays
<1>7. CASE Commit(m, [row EXCEPT !.place = moves[m].to])
  <2>1. [row EXCEPT !.place = moves[m].to] \in Row
    BY <1>2 DEF Row
  <2>2. excuse = {} => InOrder' /\ LastComing'
    BY <1>1, <1>2, <1>7, <2>1, CommitOrder DEF Settled
  <2>3. QED
    BY <1>1, <1>6, <2>2 DEF Settled, Awaited
<1>8. CASE UNCHANGED <<row, commits, telling>>
  <2>1. excuse = {} => InOrder' /\ LastComing' = LastComing
    BY <1>1, <1>8, StillOrder DEF Settled
  <2>2. Home' = Home /\ Reading(Home)' = Reading(Home)
    BY <1>1, <1>8 DEF Home, Reading
  <2>3. excuse = {} /\ Awaited => Awaited'
    BY <1>1, <1>8, <2>1, <2>2, AwaitedStays
  <2>4. ASSUME Kept PROVE Kept'
    <3>1. CASE hold = NoHold
      BY <1>1, <1>8, <2>4, <3>1, KeptStays
    <3>2. CASE hold # NoHold
      <4>1. CASE hold.move # m \/ moves'[m].phase # "landed"
        BY <1>1, <1>2, <1>3, <1>8, <2>4, <4>1, KeptStays
      <4>2. CASE hold.move = m /\ moves'[m].phase = "landed"
        <5>1. row.place = moves[m].to
          <6>1. ~Commit(m, [row EXCEPT !.place = moves[m].to])
            BY <1>8, WayTypes DEF Commit
          <6>2. moves' = [moves EXCEPT ![m].phase = "refused"] => moves'[m].phase = "refused"
            BY <1>2 DEF Move
          <6>3. QED
            BY <1>1, <4>2, <6>1, <6>2
        <5>2. hold.place = row.place /\ ~hold.landed
          BY <1>1, <3>2, <4>2, <5>1 DEF CacheIsTrue, HoldIsShown
        <5>3. row.place \in hold.covered \cup {moves[m].origin}
          BY <1>1, <2>4, <3>2, <4>2, <5>2 DEF Kept, Knows
        <5>4. row.place \in Knows'
          BY <1>1, <1>3, <4>2, <5>2, <5>3 DEF Knows
        <5>5. QED
          BY <1>1, <1>8, <2>4, <3>2, <5>4 DEF Kept
      <4>3. QED
        BY <4>1, <4>2
    <3>3. QED
      BY <3>1, <3>2
  <2>5. QED
    BY <1>1, <1>6, <2>1, <2>3, <2>4 DEF Settled
<1>9. QED
  BY <1>1, <1>7, <1>8

\* Another client's write.
LEMMA OthersSettled ==
    ASSUME Feeds, Feeds', Said, CacheIsTrue, Settled, NEW w \in Writers,
           (\E p \in Places : OtherMoves(w, p)) \/ OtherEdits(w)
    PROVE  CacheIsTrue' /\ Settled'
<1>1. w \in Slots /\ telling[w] = <<>> /\ UNCHANGED <<open, box, arriving, told, reads, moves, shown, hold, excuse>>
  BY DEF OtherMoves, OtherEdits, Slots, streamVars, cacheVars
<1>2. PICK r \in Row : row.version <= r.version /\ Commit(w, r)
  <2>0. row \in Row /\ row.version \in 1..MaxVersion /\ MaxVersion \in Nat
    BY WayTypes, FeedTypes
  <2>1. ASSUME NEW p \in Places, OtherMoves(w, p)
        PROVE  /\ [row EXCEPT !.place = p] \in Row /\ row.version <= [row EXCEPT !.place = p].version
               /\ Commit(w, [row EXCEPT !.place = p])
    BY <2>0, <2>1 DEF Row, OtherMoves
  <2>2. ASSUME OtherEdits(w)
        PROVE  /\ [row EXCEPT !.version = @ + 1] \in Row /\ row.version <= [row EXCEPT !.version = @ + 1].version
               /\ Commit(w, [row EXCEPT !.version = @ + 1])
    <3>1. row.version + 1 \in 1..MaxVersion
      BY <2>0, <2>2 DEF OtherEdits
    <3>2. QED
      BY <2>0, <2>2, <3>1 DEF Row, OtherEdits
  <2>3. QED
    BY <2>1, <2>2
<1>3. row' = r
  BY <1>2 DEF Commit
<1>4. CacheIsTrue'
  BY <1>1, <1>2, <1>3, CacheStays
<1>5. excuse = {} => InOrder' /\ LastComing'
  BY <1>1, <1>2, CommitOrder DEF Settled
<1>6. QED
  BY <1>1, <1>4, <1>5 DEF Settled, Awaited

\* The events travel, or the stream breaks.
LEMMA StreamSettled ==
    ASSUME Feeds, Feeds', Said, CacheIsTrue, Settled,
           (\E s \in Slots : Publishes(s)) \/ Take \/ Break
    PROVE  CacheIsTrue' /\ Settled'
<1>1. UNCHANGED <<row, commits, reads, moves, shown, hold>>
  BY DEF Publishes, Take, Break, nodeVars, cacheVars
<1>2. CacheIsTrue'
  BY <1>1, CacheTypes, CacheStays
<1>3. Home' = Home /\ Reading(Home)' = Reading(Home)
  BY <1>1 DEF Home, Reading
<1>4. Kept => Kept'
  BY <1>1, KeptStays
<1>5. CASE \E s \in Slots : Publishes(s)
  <2>1. PICK s \in Slots : Publishes(s)
    BY <1>5
  <2>2. open' = open /\ (excuse' = {} => excuse = {})
    BY <2>1 DEF Publishes
  <2>3. excuse' = {} => InOrder' /\ (open /\ LastComing => LastComing')
    BY <2>1, <2>2, PublishOrder DEF Settled
  <2>4. excuse' = {} /\ Awaited => Awaited'
    BY <1>1, <1>3, <2>2, <2>3, AwaitedStays
  <2>5. QED
    BY <1>2, <1>4, <2>2, <2>3, <2>4 DEF Settled
<1>6. CASE Take
  <2>1. open' = open /\ excuse' = excuse
    BY <1>6 DEF Take
  <2>2. excuse = {} => InOrder' /\ LastComing' = LastComing
    BY <1>6, TravelOrder DEF Settled
  <2>3. excuse = {} /\ Awaited => Awaited'
    BY <1>1, <1>3, <2>1, <2>2, AwaitedStays
  <2>4. QED
    BY <1>2, <1>4, <2>1, <2>2, <2>3 DEF Settled
<1>7. CASE Break
  <2>1. open' = FALSE /\ excuse' = excuse
    BY <1>7 DEF Break
  <2>2. excuse = {} => InOrder'
    BY <1>7, TravelOrder DEF Settled
  <2>3. QED
    BY <1>2, <2>1, <2>2 DEF Settled, Awaited
<1>8. QED
  BY <1>5, <1>6, <1>7

\* An event is applied.
LEMMA AppliesSettled ==
    ASSUME Feeds, Feeds', Said, CacheIsTrue, Settled, ApplyChanged \/ ApplyRemoved
    PROVE  CacheIsTrue' /\ Settled'
<1>1. /\ UNCHANGED <<row, commits, open>> /\ (excuse' = {} => excuse = {})
      /\ Owed(Head(arriving).grid)
  BY DEF ApplyChanged, ApplyRemoved, Tell, nodeVars
<1>2. CacheIsTrue'
  BY ChangedCache, RemovedCache
<1>3. Reading(Home) => Reading(Home)'
  <2>1. reads \in [Grids -> Read] /\ Home \in Grids /\ Home' = Home
    BY <1>1, CacheTypes DEF Home
  <2>2. PICK k : reads' = [reads EXCEPT ![k].owed = reads[k].phase # "none"]
    BY <1>1 DEF Owed
  <2>3. /\ reads'[Home].phase = reads[Home].phase /\ reads'[Home].n = reads[Home].n
        /\ reads[Home].phase # "none" /\ reads[Home].owed => reads'[Home].owed
    BY <2>1, <2>2 DEF Read
  <2>4. QED
    BY <1>1, <2>1, <2>3 DEF Reading
<1>4. ASSUME excuse' = {} PROVE InOrder' /\ (Awaited' \/ Kept')
  <2>1. InOrder /\ (Awaited \/ Kept)
    BY <1>1, <1>4 DEF Settled
  <2>2. /\ InOrder'
        /\ ApplyChanged => Head(arriving).n = commits \/ LastComing'
        /\ ApplyRemoved => /\ LastComing => LastComing'
                           /\ Head(arriving).n = commits \/ LastComing'
        /\ ApplyChanged /\ Head(arriving).n = commits => Head(arriving).row = row
        /\ ApplyRemoved /\ Head(arriving).n = commits => Head(arriving).grid # Home
    BY <1>4, <2>1, ApplyOrder
  <2>3. CASE LastComing'
    BY <2>2, <2>3 DEF Awaited
  <2>4. CASE ~LastComing' /\ ApplyChanged
    BY <2>2, <2>4, ChangedCache
  <2>5. CASE ~LastComing' /\ ApplyRemoved
    <3>1. Awaited => Awaited'
      BY <1>1, <1>3, <2>2, <2>5, AwaitedStays
    <3>2. Kept => Kept'
      BY <2>2, <2>5, RemovedCache
    <3>3. QED
      BY <2>1, <2>2, <3>1, <3>2
  <2>6. QED
    BY <2>3, <2>4, <2>5
<1>5. QED
  BY <1>2, <1>4 DEF Settled

\* A read is asked and answered, and the stream opened again.
LEMMA ReadsSettled ==
    ASSUME Feeds, Feeds', Said, CacheIsTrue, Settled,
           Reopen \/ \E g \in Grids : Ask(g) \/ Answer(g) \/ Press(g)
    PROVE  CacheIsTrue' /\ Settled'
<1>1. UNCHANGED <<row, commits, telling, box, arriving, told, moves, shown, hold, excuse>>
  BY DEF Reopen, Ask, Answer, Press, nodeVars, streamVars, cacheVars
<1>2. reads \in [Grids -> Read] /\ Home \in Grids /\ row.version \in Nat /\ Home' = Home
  BY <1>1, CacheTypes DEF Home
<1>3. CacheIsTrue'
  BY <1>1, <1>2, CacheStays
<1>4. Kept => Kept'
  BY <1>1, KeptStays
<1>5. Asking.phase = "asked" /\ NoRead.phase = "none"
  BY DEF Asking, NoRead
<1>6. CASE Reopen
  <2>1. reads' = [g \in Grids |-> Asking]
    BY <1>6 DEF Reopen
  <2>2. Reading(Home)'
    BY <1>2, <1>5, <2>1 DEF Reading
  <2>3. excuse = {} => InOrder'
    BY <1>1, <1>5, <2>1, StillOrder DEF Settled
  <2>4. QED
    BY <1>1, <1>3, <2>2, <2>3 DEF Settled, Awaited
<1>7. CASE \E g \in Grids : Ask(g) \/ Answer(g) \/ Press(g)
  <2>1. open' = open
    BY <1>7 DEF Ask, Answer, Press, streamVars
  <2>2. PICK g \in Grids, v \in Read :
            /\ reads' = [reads EXCEPT ![g] = v]
            /\ \/ v.phase = "asked"
               \/ v.phase = "answered" /\ v.n = commits
               \/ v = reads[g]
    <3>1. CASE \E g \in Grids : Ask(g)
      <4>1. PICK g \in Grids : Ask(g)
        BY <3>1
      <4>2. reads' = [reads EXCEPT ![g] = Asking]
        BY <4>1 DEF Ask
      <4>3. reads' \in [Grids -> Read]
        BY DEF Feeds, FeedTypeOK
      <4>4. Asking \in Read
        BY <1>2, <4>2, <4>3
      <4>5. QED
        BY <1>5, <4>2, <4>4
    <3>2. CASE \E g \in Grids : Answer(g)
      <4>1. PICK g \in Grids : Answer(g)
        BY <3>2
      <4>2. PICK v : v = [reads[g] EXCEPT !.phase = "answered", !.n = commits,
                                          !.row = IF GridOf[row.place] = g THEN row ELSE NoRow]
        OBVIOUS
      <4>3. reads' = [reads EXCEPT ![g] = v]
        BY <4>1, <4>2 DEF Answer
      <4>4. v \in Read /\ v.phase = "answered" /\ v.n = commits
        BY <1>2, <4>2, WayTypes DEF Read
      <4>5. QED
        BY <4>3, <4>4
    <3>3. CASE \E g \in Grids : Press(g)
      <4>1. PICK g \in Grids : Press(g)
        BY <3>3
      <4>2. reads' = reads /\ reads[g] \in Read
        BY <1>2, <4>1 DEF Press
      <4>3. reads' = [reads EXCEPT ![g] = reads[g]]
        BY <1>2, <4>2
      <4>4. QED
        BY <4>2, <4>3
    <3>4. QED
      BY <1>7, <3>1, <3>2, <3>3
  <2>3. reads'[g] = v /\ \A k \in Grids : k # g => reads'[k] = reads[k]
    BY <1>2, <2>2
  <2>4. excuse = {} => InOrder' /\ LastComing' = LastComing
    BY <1>1, <2>1, <2>2, <2>3, StillOrder DEF Settled
  <2>5. Reading(Home) => Reading(Home)'
    BY <1>1, <1>2, <2>2, <2>3 DEF Reading
  <2>6. excuse = {} /\ Awaited => Awaited'
    BY <1>1, <2>1, <2>4, <2>5, AwaitedStays
  <2>7. QED
    BY <1>1, <1>3, <1>4, <2>4, <2>6 DEF Settled
<1>8. QED
  BY <1>6, <1>7

\* A read lands.
LEMMA LandSettled ==
    ASSUME Feeds, Feeds', Said, CacheIsTrue, Settled, NEW g \in Grids, Land(g)
    PROVE  CacheIsTrue' /\ Settled'
<1>1. /\ UNCHANGED <<row, commits, telling, open, box, arriving, told>>
      /\ reads[g].phase = "answered"
      /\ reads' = [reads EXCEPT ![g] = IF reads[g].owed THEN Asking ELSE NoRead]
      /\ excuse' = {} => excuse = {} /\ ~Stale(g) /\ ~Uncovers(g)
  BY DEF Land, nodeVars, streamVars
<1>2. /\ reads \in [Grids -> Read] /\ Home \in Grids /\ row # NoRow /\ AtHome(shown) /\ Home' = Home
      /\ commits \in Nat /\ told \in Nat /\ reads[g] \in Read
  BY <1>1, CacheTypes, WayTypes DEF Home
<1>3. Asking.phase = "asked" /\ NoRead.phase = "none"
  BY DEF Asking, NoRead
<1>4. /\ CacheIsTrue'
      /\ reads[g].row = row => Kept'
      /\ reads[g].row = NoRow /\ g # Home /\ Kept /\ ~Uncovers(g) => Kept'
  BY LandCache
<1>5. /\ reads'[g].phase # "answered" /\ (reads[g].owed => reads'[g].phase = "asked")
      /\ \A k \in Grids : k # g => reads'[k] = reads[k]
  BY <1>1, <1>2, <1>3
<1>6. /\ reads[g].n <= commits
      /\ reads[g].n = commits => reads[g].row = IF g = Home THEN row ELSE NoRow
      /\ reads[g].n \in Nat
  <2>1. reads[g].n \in Nat
    BY <1>2 DEF Read
  <2>2. QED
    BY <1>1, <2>1 DEF Said, ReadsAreTrue
<1>7. ASSUME excuse' = {} PROVE InOrder' /\ (Awaited' \/ Kept')
  <2>1. /\ InOrder /\ (Awaited \/ Kept) /\ ~Stale(g) /\ ~Uncovers(g)
    BY <1>1, <1>7 DEF Settled
  <2>2. InOrder' /\ LastComing' = LastComing
    BY <1>1, <1>5, <2>1, StillOrder
  <2>3. CASE g = Home /\ reads[g].owed
    <3>1. Reading(Home)'
      BY <1>2, <1>5, <2>3 DEF Reading
    <3>2. QED
      BY <2>2, <3>1 DEF Awaited
  <2>4. CASE g = Home /\ ~reads[g].owed
    <3>1. CASE reads[g].n = commits
      BY <1>4, <1>6, <2>2, <2>4, <3>1
    <3>2. CASE reads[g].n # commits
      <4>1. ~open \/ LastComing
        BY <1>1, <2>1, <2>4, <3>2 DEF InOrder
      <4>2. QED
        BY <1>1, <2>2, <4>1 DEF Awaited
    <3>3. QED
      BY <3>1, <3>2
  <2>5. CASE g # Home
    <3>1. Reading(Home)' = Reading(Home)
      BY <1>1, <1>2, <1>5, <2>5 DEF Reading
    <3>2. Awaited => Awaited'
      BY <1>1, <2>2, <3>1, AwaitedStays
    <3>3. CASE reads[g].row = NoRow
      BY <1>4, <2>1, <2>2, <2>5, <3>2, <3>3
    <3>4. CASE reads[g].row # NoRow /\ ~Awaited
      <4>1. reads[g].n # commits
        BY <1>6, <2>5, <3>4
      <4>2. commits <= told
        BY <1>1, <2>1, <3>4, <4>1 DEF InOrder, Awaited
      <4>3. reads[g].n < told
        BY <1>2, <1>6, <4>1, <4>2
      <4>4. hold = NoHold /\ Held \ {g} = {}
        BY <2>1, <3>4, <4>3 DEF Stale
      <4>5. shown[Home] = row
        BY <2>1, <3>4, <4>4 DEF Kept
      <4>6. QED
        BY <1>2, <2>5, <4>4, <4>5 DEF Held
    <3>5. QED
      BY <2>2, <3>2, <3>3, <3>4
  <2>6. QED
    BY <2>3, <2>4, <2>5
<1>8. QED
  BY <1>4, <1>7 DEF Settled

\* The user drops the tile, and the write is answered.
LEMMA WritesSettled ==
    ASSUME Feeds, Feeds', Said, CacheIsTrue, Settled, NEW m \in Moves,
           (\E p \in Places : Release(m, p)) \/ MoveLands(m)
    PROVE  CacheIsTrue' /\ Settled'
<1>1. UNCHANGED <<row, commits, telling, open, box, arriving, told, reads>> /\ (excuse' = {} => excuse = {})
  BY DEF Release, MoveLands, nodeVars, streamVars
<1>2. excuse = {} => InOrder' /\ LastComing' = LastComing
  BY <1>1, StillOrder DEF Settled
<1>3. Reading(Home)' = Reading(Home)
  BY <1>1 DEF Reading, Home
<1>4. excuse = {} /\ Awaited => Awaited'
  BY <1>1, <1>2, <1>3, AwaitedStays
<1>5. CASE \E p \in Places : Release(m, p)
  <2>1. CacheIsTrue' /\ (Kept => Kept')
    BY <1>5, ReleaseCache
  <2>2. QED
    BY <1>1, <1>2, <1>4, <2>1 DEF Settled
<1>6. CASE MoveLands(m)
  <2>1. CacheIsTrue' /\ (Kept /\ excuse' = {} /\ ~Coming(moves[m].n) => Kept')
    BY <1>6, MoveLandsCache
  <2>2. Coming(moves[m].n) => \E e \in OnWay : IsRow(e)
    <3>1. \A s \in Slots : \A i \in DOMAIN telling[s] : telling[s][i] \in OnWay
      <4>1. \A s \in Slots : Words(telling[s]) \subseteq Untold
        BY WayTypes
      <4>2. QED
        BY <4>1 DEF OnWay, Words
    <3>2. \A i \in DOMAIN box : box[i].event \in OnWay
      BY DEF OnWay, Sent, BoxWords
    <3>3. \A i \in DOMAIN arriving : arriving[i] \in OnWay
      BY DEF OnWay, Sent, Words
    <3>4. QED
      BY <3>1, <3>2, <3>3 DEF Coming, Newer, IsRow
  <2>3. excuse = {} /\ Coming(moves[m].n) => Awaited
    BY <2>2 DEF Settled, InOrder, Awaited
  <2>4. QED
    BY <1>1, <1>2, <1>4, <2>1, <2>3 DEF Settled
<1>7. QED
  BY <1>5, <1>6

\* The write is refused, or the client gives up waiting.
LEMMA FailsSettled ==
    ASSUME Feeds, Feeds', Said, CacheIsTrue, Settled, NEW m \in Moves, MoveRefused(m) \/ MoveUnheard(m)
    PROVE  CacheIsTrue' /\ Settled'
<1>1. /\ UNCHANGED <<row, commits, telling, open, box, arriving, told>> /\ (excuse' = {} => excuse = {})
      /\ moves[m].waiting /\ Failed(m)
      /\ \/ moves' = [moves EXCEPT ![m].waiting = FALSE]
         \/ moves' = [moves EXCEPT ![m].waiting = FALSE, ![m].phase = "refused"]
      /\ reads' = reads \/ \E k : reads' = Refetched(k)
  BY DEF MoveRefused, MoveUnheard, nodeVars, streamVars
<1>2. /\ moves \in [Moves -> Move] /\ reads \in [Grids -> Read] /\ Home \in Grids /\ Home' = Home
  BY <1>1, CacheTypes DEF Home
<1>3. \A k \in Moves : k # m => moves'[k] = moves[k]
  BY <1>1, <1>2
<1>4. CacheIsTrue' /\ (Kept /\ row.place \notin Covered(m) => Kept')
  BY <1>1, <1>3, FailedCache
<1>5. /\ \A g \in Grids : /\ reads'[g].phase = "answered" => reads[g].phase = "answered"
                          /\ reads[g].phase = "answered" =>
                                /\ reads'[g].phase = "answered" /\ reads'[g].n = reads[g].n
                                /\ reads[g].owed => reads'[g].owed
                          /\ reads[g].phase = "asked" => reads'[g].phase = "asked"
  <2>1. CASE reads' = reads
    BY <2>1
  <2>2. CASE \E k : reads' = Refetched(k)
    <3>1. PICK k : reads' = Refetched(k)
      BY <2>2
    <3>2. reads' = [reads EXCEPT ![k] = IF reads[k].phase = "none" THEN Asking
                                        ELSE [reads[k] EXCEPT !.owed = TRUE]]
      BY <3>1 DEF Refetched
    <3>3. Asking.phase = "asked"
      BY DEF Asking, NoRead
    <3>4. QED
      BY <1>2, <3>2, <3>3 DEF Read
  <2>3. QED
    BY <1>1, <2>1, <2>2
<1>6. excuse = {} => InOrder' /\ LastComing' = LastComing
  BY <1>1, <1>5, StillOrder DEF Settled
<1>7. Reading(Home) => Reading(Home)'
  <2>1. reads[Home].phase \in {"none", "asked", "answered"}
    BY <1>2 DEF Read
  <2>2. QED
    BY <1>1, <1>2, <1>5, <2>1 DEF Reading
<1>8. excuse = {} /\ Awaited => Awaited'
  BY <1>1, <1>6, <1>7, AwaitedStays
<1>9. ASSUME excuse' = {}, row.place \in Covered(m) PROVE Awaited'
  <2>1. CASE MoveUnheard(m)
    BY <1>9, <2>1 DEF MoveUnheard
  <2>2. CASE MoveRefused(m)
    <3>1. GridOf[row.place] = GridOf[moves[m].claim]
      BY <1>9, <2>2 DEF MoveRefused
    <3>2. reads' = Refetched(Home)
      BY <2>2, <3>1 DEF MoveRefused, Home
    <3>3. reads' = [reads EXCEPT ![Home] = IF reads[Home].phase = "none" THEN Asking
                                           ELSE [reads[Home] EXCEPT !.owed = TRUE]]
      BY <3>2 DEF Refetched
    <3>4. Asking.phase = "asked"
      BY DEF Asking, NoRead
    <3>5. reads'[Home].phase # "none" /\ (reads'[Home].phase = "asked" \/ reads'[Home].owed)
      BY <1>2, <3>3, <3>4 DEF Read
    <3>6. Reading(Home)'
      BY <1>2, <3>5 DEF Reading
    <3>7. QED
      BY <3>6 DEF Awaited
  <2>3. QED
    BY <2>1, <2>2
<1>10. QED
  BY <1>1, <1>4, <1>6, <1>8, <1>9 DEF Settled

Follows == Feeds /\ Said /\ CacheIsTrue /\ Settled

\* Every step.
LEMMA FollowsStays == ASSUME Follows, [FeedNext]_feedVars PROVE Follows'
<1>1. Feeds /\ Feeds' /\ Said /\ CacheIsTrue /\ Settled
  BY FeedStays DEF Follows
<1>2. CASE UNCHANGED feedVars
  <2>1. UNCHANGED <<row, commits, telling, open, box, arriving, told, moves, shown, hold, reads, excuse>>
    BY <1>2 DEF feedVars, nodeVars, streamVars, cacheVars
  <2>2. OnWay' = OnWay /\ Home' = Home /\ Reading(Home)' = Reading(Home)
    BY <2>1 DEF OnWay, Sent, Untold, Words, BoxWords, Home, Reading
  <2>3. Said'
    BY <1>1, <2>1, <2>2, StillTrue DEF Said
  <2>4. CacheIsTrue'
    BY <1>1, <2>1, CacheTypes, CacheStays
  <2>5. excuse = {} => InOrder' /\ LastComing' = LastComing
    BY <1>1, <2>1, StillOrder DEF Settled
  <2>6. Settled'
    BY <1>1, <2>1, <2>2, <2>5, AwaitedStays, KeptStays DEF Settled
  <2>7. QED
    BY <1>1, <2>3, <2>4, <2>6 DEF Follows
<1>3. CASE FeedNext
  <2>1. Said'
    BY <1>1, <1>3, NodeMovesSaid, OthersSaid, StreamSaid, ClientSaid DEF FeedNext
  <2>2. CacheIsTrue' /\ Settled'
    BY <1>1, <1>3, NodeMovesSettled, OthersSettled, StreamSettled, AppliesSettled, ReadsSettled, LandSettled,
       WritesSettled, FailsSettled DEF FeedNext
  <2>3. QED
    BY <1>1, <2>1, <2>2 DEF Follows
<1>4. QED
  BY <1>2, <1>3

\* "The event it caused reconciles every open view, this one included"
\* (mutate.go): once nothing travels and nothing is held, the screen shows the
\* tile where the node has it, unless one of the findings' events happened.
THEOREM EventsReconcile == FeedSpec => []Reconciled
<1>1. FeedInit => Follows
  BY FeedBegins, SaidBegins, SettledBegins DEF Follows
<1>2. Follows => Reconciled
  <2> SUFFICES ASSUME Follows, Rest, hold = NoHold, excuse \subseteq {} PROVE Agree
    BY DEF Reconciled, ReconciledBut
  <2>1. Feeds /\ Settled /\ excuse = {}
    BY DEF Follows
  <2>2. AtHome(shown) /\ Home \in Grids /\ row # NoRow
    BY <2>1, CacheTypes
  <2>3. OnWay = {}
    <3>1. box = <<>> /\ arriving = <<>> /\ \A s \in Slots : telling[s] = <<>>
      BY DEF Rest
    <3>2. Words(<<>>) = {} /\ BoxWords(<<>>) = {}
      BY DEF Words, BoxWords
    <3>3. QED
      BY <3>1, <3>2 DEF OnWay, Sent, Untold
  <2>4. ~Reading(Home)
    BY <2>2 DEF Rest, Reading, NoRead
  <2>5. ~Awaited
    BY <2>3, <2>4 DEF Awaited, LastComing, Rest
  <2>6. shown[Home] = row
    BY <2>1, <2>5 DEF Settled, Kept
  <2>7. QED
    BY <2>2, <2>6 DEF Agree, AtHome, Home
<1>3. QED
  BY <1>1, <1>2, FollowsStays, PTL DEF FeedSpec
=============================================================================
