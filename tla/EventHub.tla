------------------------------ MODULE EventHub ------------------------------
(***************************************************************************)
(* The event fan-out (internal/eventhub): publishers hand an event to      *)
(* every subscriber attached when they began, one after another, and       *)
(* never wait for one.  Each subscriber has a coalescing queue under its   *)
(* own mutex, a wake channel of capacity one, and a pump goroutine that    *)
(* empties the queue into a bounded stream.                                *)
(*                                                                         *)
(* A step is what runs under one mutex, or one channel operation.          *)
(***************************************************************************)
EXTENDS Integers, Sequences, FiniteSets

CONSTANTS
    Subs,        \* subscriptions, each used once
    Publishers,  \* goroutines that publish
    Keys,        \* keys of entities
    NoKey,       \* the key of an event that never coalesces
    MaxEvents,   \* bound on the events published
    StreamBuffer \* capacity of the consumer's stream

ASSUME HubAssumption ==
    /\ MaxEvents \in Nat
    /\ StreamBuffer \in Nat \ {0}
    /\ NoKey \notin Keys
    /\ Keys \cap (1..MaxEvents) = {}

VARIABLES
    subs,      \* the subscribers attached to the hub
    pub,       \* each publisher: the event, who is still to get it, and who
               \* has it queued and not yet signalled
    keys,      \* each queue's keys, in order of first touch
    pending,   \* each queue's latest event per key
    seq,       \* each queue's fallback key counter
    wake,      \* each pump's wake channel holds a signal
    done,      \* the subscriptions whose done channel is closed
    pump,      \* where each pump stands
    hand,      \* the event each pump has taken and not delivered
    out,       \* each consumer's stream
    published, \* history: events published so far
    queued,    \* history: the events each queue was given
    heard      \* history: the events each consumer received

queue == <<keys, pending, seq>>
line  == <<hand, out>>
vars  == <<subs, pub, queue, wake, done, pump, line, published, queued, heard>>

\* A fallback key is a number no entity has.
Entity  == Keys \cup (1..MaxEvents)
Event   == [key : Keys \cup {NoKey}, n : 1..MaxEvents]
NoEvent == [key |-> NoKey, n |-> 0]

Publisher == [event : Event \cup {NoEvent}, todo : SUBSET Subs, signal : SUBSET Subs]
Resting   == [event |-> NoEvent, todo |-> {}, signal |-> {}]

Init ==
    /\ subs = {}
    /\ pub = [p \in Publishers |-> Resting]
    /\ keys = [s \in Subs |-> <<>>]
    /\ pending = [s \in Subs |-> [k \in Entity |-> NoEvent]]
    /\ seq = [s \in Subs |-> 0]
    /\ wake = [s \in Subs |-> FALSE]
    /\ done = {}
    /\ pump = [s \in Subs |-> "unborn"]
    /\ hand = [s \in Subs |-> NoEvent]
    /\ out = [s \in Subs |-> <<>>]
    /\ published = 0
    /\ queued = [s \in Subs |-> <<>>]
    /\ heard = [s \in Subs |-> <<>>]

----------------------------------------------------------------------------
(***************************************************************************)
(* Subscribing.                                                            *)
(***************************************************************************)

Subscribe(s) ==
    /\ pump[s] = "unborn"
    /\ subs' = subs \cup {s}
    /\ pump' = [pump EXCEPT ![s] = "look"]
    /\ UNCHANGED <<pub, queue, wake, done, line, published, queued, heard>>

\* A cancel leaves the hub, and then tells the pump.
Detach(s) ==
    /\ s \in subs
    /\ subs' = subs \ {s}
    /\ UNCHANGED <<pub, queue, wake, done, pump, line, published, queued, heard>>

CloseDone(s) ==
    /\ pump[s] # "unborn" /\ s \notin subs \cup done
    /\ done' = done \cup {s}
    /\ UNCHANGED <<subs, pub, queue, wake, pump, line, published, queued, heard>>

----------------------------------------------------------------------------
(***************************************************************************)
(* Publishing.                                                             *)
(***************************************************************************)

\* The subscribers are copied under the hub's mutex.
Publish(p, k) ==
    /\ pub[p].todo = {} /\ pub[p].signal = {}
    /\ published < MaxEvents
    /\ published' = published + 1
    /\ pub' = [pub EXCEPT ![p] = [event |-> [key |-> k, n |-> published + 1],
                                  todo |-> subs, signal |-> {}]]
    /\ UNCHANGED <<subs, queue, wake, done, pump, line, queued, heard>>

QueueKey(s, e) == IF e.key = NoKey THEN seq[s] + 1 ELSE e.key

Holds(s, k) == pending[s][k] # NoEvent

\* Mutant: an entity touched again goes to the back.
PutLast(s, e) ==
    LET k == QueueKey(s, e) IN
    /\ seq' = [seq EXCEPT ![s] = IF e.key = NoKey THEN @ + 1 ELSE @]
    /\ keys' = [keys EXCEPT ![s] = Append(SelectSeq(@, LAMBDA x : x # k), k)]
    /\ pending' = [pending EXCEPT ![s][k] = e]

Put(s, e) ==
    LET k == QueueKey(s, e) IN
    /\ seq' = [seq EXCEPT ![s] = IF e.key = NoKey THEN @ + 1 ELSE @]
    /\ keys' = [keys EXCEPT ![s] = IF Holds(s, k) THEN @ ELSE Append(@, k)]
    /\ pending' = [pending EXCEPT ![s][k] = e]

Enqueue(p, s) ==
    /\ pub[p].signal = {} /\ s \in pub[p].todo
    /\ Put(s, pub[p].event)
    /\ pub' = [pub EXCEPT ![p].todo = @ \ {s}, ![p].signal = {s}]
    /\ queued' = [queued EXCEPT ![s] = Append(@, pub[p].event)]
    /\ UNCHANGED <<subs, wake, done, pump, line, published, heard>>

\* Mutant: the signal waits until the last one is taken.
SignalWaits(p, s) ==
    /\ s \in pub[p].signal /\ ~wake[s]
    /\ wake' = [wake EXCEPT ![s] = TRUE]
    /\ pub' = [pub EXCEPT ![p].signal = {}]
    /\ UNCHANGED <<subs, queue, done, pump, line, published, queued, heard>>

\* A signal already there is enough.
Signal(p, s) ==
    /\ s \in pub[p].signal
    /\ wake' = [wake EXCEPT ![s] = TRUE]
    /\ pub' = [pub EXCEPT ![p].signal = {}]
    /\ UNCHANGED <<subs, queue, done, pump, line, published, queued, heard>>

----------------------------------------------------------------------------
(***************************************************************************)
(* The pump and the consumer.                                              *)
(***************************************************************************)

\* The oldest key's event is taken, or the pump goes to wait.
Look(s) ==
    /\ pump[s] = "look"
    /\ IF keys[s] = <<>>
       THEN pump' = [pump EXCEPT ![s] = "wait"] /\ UNCHANGED <<queue, hand>>
       ELSE LET k == Head(keys[s]) IN
            /\ keys' = [keys EXCEPT ![s] = Tail(@)]
            /\ pending' = [pending EXCEPT ![s][k] = NoEvent]
            /\ hand' = [hand EXCEPT ![s] = pending[s][k]]
            /\ pump' = [pump EXCEPT ![s] = "send"]
            /\ UNCHANGED seq
    /\ UNCHANGED <<subs, pub, wake, done, out, published, queued, heard>>

\* Mutant: a woken pump takes what it was woken for and waits again.
WokenStays(s) ==
    /\ pump[s] = "wait" /\ wake[s]
    /\ wake' = [wake EXCEPT ![s] = FALSE]
    /\ UNCHANGED <<subs, pub, queue, done, pump, line, published, queued, heard>>

Woken(s) ==
    /\ pump[s] = "wait" /\ wake[s]
    /\ wake' = [wake EXCEPT ![s] = FALSE]
    /\ pump' = [pump EXCEPT ![s] = "look"]
    /\ UNCHANGED <<subs, pub, queue, done, line, published, queued, heard>>

\* A channel without room hands over only to a consumer that receives.
Send(s) ==
    /\ pump[s] = "send" /\ Len(out[s]) < StreamBuffer
    /\ out' = [out EXCEPT ![s] = Append(@, hand[s])]
    /\ hand' = [hand EXCEPT ![s] = NoEvent]
    /\ pump' = [pump EXCEPT ![s] = "look"]
    /\ UNCHANGED <<subs, pub, queue, wake, done, published, queued, heard>>

\* Mutant: a pump blocked on its consumer does not hear the cancel.
EndIdle(s) ==
    /\ pump[s] = "wait" /\ s \in done
    /\ pump' = [pump EXCEPT ![s] = "ended"]
    /\ UNCHANGED <<subs, pub, queue, wake, done, line, published, queued, heard>>

\* The pump ends where it blocks: what it holds is dropped, the stream closed.
End(s) ==
    /\ pump[s] \in {"wait", "send"} /\ s \in done
    /\ pump' = [pump EXCEPT ![s] = "ended"]
    /\ hand' = [hand EXCEPT ![s] = NoEvent]
    /\ UNCHANGED <<subs, pub, queue, wake, done, out, published, queued, heard>>

Receive(s) ==
    /\ out[s] # <<>>
    /\ out' = [out EXCEPT ![s] = Tail(@)]
    /\ heard' = [heard EXCEPT ![s] = Append(@, Head(out[s]))]
    /\ UNCHANGED <<subs, pub, queue, wake, done, pump, hand, published, queued>>

----------------------------------------------------------------------------
PumpStep(s) == Look(s) \/ Woken(s) \/ Send(s) \/ End(s)

PublisherStep(p) == \E s \in Subs : Enqueue(p, s) \/ Signal(p, s)

Next ==
    \/ \E s \in Subs : Subscribe(s)
    \/ \E s \in Subs : Detach(s)
    \/ \E s \in Subs : CloseDone(s)
    \/ \E p \in Publishers, k \in Keys \cup {NoKey} : Publish(p, k)
    \/ \E p \in Publishers, s \in Subs : Enqueue(p, s)
    \/ \E p \in Publishers, s \in Subs : Signal(p, s)
    \/ \E s \in Subs : Look(s)
    \/ \E s \in Subs : Woken(s)
    \/ \E s \in Subs : Send(s)
    \/ \E s \in Subs : End(s)
    \/ \E s \in Subs : Receive(s)

Spec == Init /\ [][Next]_vars

\* Goroutines that can run do.  Nobody has to publish, cancel or receive.
Fairness ==
    /\ \A p \in Publishers : WF_vars(PublisherStep(p))
    /\ \A s \in Subs : WF_vars(CloseDone(s)) /\ WF_vars(PumpStep(s))

FairSpec == Spec /\ Fairness

----------------------------------------------------------------------------
(* A queue's keys are, once each, the entities with an event pending. *)
QueueOK(s) ==
    /\ \A k \in Entity : Holds(s, k) <=> \E i \in DOMAIN keys[s] : keys[s][i] = k
    /\ \A i, j \in DOMAIN keys[s] : keys[s][i] = keys[s][j] => i = j

(* Type correctness of every variable, and of each queue's two halves. *)
TypeOK ==
    /\ subs \in SUBSET Subs
    /\ pub \in [Publishers -> Publisher]
    /\ keys \in [Subs -> Seq(Entity)]
    /\ pending \in [Subs -> [Entity -> Event \cup {NoEvent}]]
    /\ seq \in [Subs -> 0..MaxEvents]
    /\ wake \in [Subs -> BOOLEAN]
    /\ done \in SUBSET Subs
    /\ pump \in [Subs -> {"unborn", "look", "wait", "send", "ended"}]
    /\ hand \in [Subs -> Event \cup {NoEvent}]
    /\ out \in [Subs -> Seq(Event)]
    /\ published \in 0..MaxEvents
    /\ queued \in [Subs -> Seq(Event)]
    /\ heard \in [Subs -> Seq(Event)]
    /\ \A s \in Subs : QueueOK(s)

(***************************************************************************)
(* A pump never sleeps on a queue nobody will wake it for: its channel     *)
(* holds a signal, or a publisher is about to send one.                    *)
(***************************************************************************)
NoLostWakeup ==
    \A s \in Subs : pump[s] = "wait" /\ keys[s] # <<>> =>
        wake[s] \/ \E p \in Publishers : s \in pub[p].signal

InHand(s) == IF hand[s] = NoEvent THEN <<>> ELSE <<hand[s]>>
Taken(s)  == heard[s] \o out[s] \o InHand(s)

(***************************************************************************)
(* "No distinct change is dropped": until its consumer cancels, the newest *)
(* event a queue was given about an entity is waiting or was delivered,    *)
(* and one that does not coalesce is too.                                  *)
(***************************************************************************)
Waiting(s, e) == \E k \in Entity : pending[s][k] = e
Superseded(s, i) ==
    \E j \in DOMAIN queued[s] : j > i /\ queued[s][j].key = queued[s][i].key
NothingDropped ==
    \A s \in Subs \ done : \A i \in DOMAIN queued[s] :
        \/ Waiting(s, queued[s][i])
        \/ \E j \in DOMAIN Taken(s) : Taken(s)[j] = queued[s][i]
        \/ queued[s][i].key # NoKey /\ Superseded(s, i)

(***************************************************************************)
(* Each subscription is a mailbox: coalesced in place, delivered in order  *)
(* of first touch.                                                         *)
(***************************************************************************)
Box(s) == INSTANCE Mailbox WITH
    Entity  <- Entity,
    Event   <- Event,
    box     <- [i \in 1..Len(keys[s]) |->
                  [entity |-> keys[s][i], event |-> pending[s][keys[s][i]]]],
    line    <- out[s] \o InHand(s),
    stopped <- pump[s] = "ended"
Mailboxes ==
    /\ \A s \in Subs : Box(s)!Init
    /\ [][\A s \in Subs : [Box(s)!Next]_(Box(s)!mail)]_vars

(***************************************************************************)
(* "A publisher never blocks on a slow subscriber": a publish returns      *)
(* though no consumer ever receives.                                       *)
(***************************************************************************)
PublishReturns ==
    \A p \in Publishers :
        pub[p].todo # {} \/ pub[p].signal # {} ~> pub[p].todo = {} /\ pub[p].signal = {}

(* A consumer that keeps receiving is given everything. *)
KeepsReceiving(s) == []<>(out[s] = <<>>) \/ []<><<Receive(s)>>_vars
Drained(s) == keys[s] = <<>> /\ hand[s] = NoEvent /\ out[s] = <<>>
Delivers ==
    \A s \in Subs : KeepsReceiving(s) =>
        <>[](pump[s] # "unborn" /\ s \notin done => Drained(s))

(* A cancelled subscription's pump ends, though its consumer is gone. *)
PumpEnds == \A s \in Subs : s \in done ~> pump[s] = "ended"
=============================================================================
