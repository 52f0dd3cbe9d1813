------------------------------- MODULE Shown -------------------------------
(***************************************************************************)
(* What is shown: each client tells its node what is on its screen         *)
(* (client/subscription, client/wasm/subscription.go), the node books it   *)
(* under the client's session while one of the session's event streams is  *)
(* open (internal/subscription, server.router.Subscribe), and asks its     *)
(* sources to watch the union.                                             *)
(*                                                                         *)
(* A view and a stream are two calls which the node sees in either order.  *)
(* One goroutine of a client sends its views, one after another; another   *)
(* opens its stream again whenever it ends.  At the node a stream is       *)
(* served by a goroutine and counted by a second one.                      *)
(***************************************************************************)
EXTENDS Naturals, Sequences, FiniteSets

CONSTANTS
    Clients,
    Slots,      \* the streams the node may be serving at a time
    OwnerOf,    \* whose each of them is
    Views,      \* the views a client may show: each the set of its grids
    None,       \* no view yet, no stream
    MaxIdle,    \* maxIdle, the sessions kept with no stream open
    MaxEvents   \* bound on screens changed, pages closed, streams broken, calls
                \* given up and restarts, together

ASSUME ShownAssumption ==
    /\ None \notin Views \cup Slots /\ OwnerOf \in [Slots -> Clients] /\ IsFiniteSet(Slots)
    /\ MaxIdle \in Nat \ {0} /\ MaxEvents \in Nat

VARIABLES
    page,     \* each client's page: open, or closed for good
    tracker,  \* what it shows, what it claimed last, and whether since the stream re-opened
    kick,     \* a wake of its sender that waits
    sender,   \* the view its sender is telling
    stray,    \* views whose call it gave up on, and which may still be taken
    stream,   \* its event stream, and the one of its slots that serves it
    handler,  \* the node's two goroutines for each slot
    book,     \* the node's sessions
    union,    \* what the sources were last asked to watch
    events,   \* the bounded events so far
    lost,     \* history: the client's last view was in a call it gave up on
    forgotten \* history: the node dropped an idle session's view

telling == <<tracker, kick, sender, stray, lost>>
serving == <<stream, handler>>
booked  == <<book, union, forgotten>>
vars    == <<page, telling, serving, booked, events>>

Shows(v) == IF v = None THEN {} ELSE v

Free   == [live |-> FALSE, over |-> FALSE, counter |-> "waits"]
NoBook == [streams |-> [c \in Clients |-> 0], view |-> [c \in Clients |-> None],
           known |-> {}, idle |-> <<>>]

Init ==
    /\ page = [c \in Clients |-> "open"]
    /\ \E want \in [Clients -> Views] :
        tracker = [c \in Clients |-> [want |-> want[c], last |-> None, sent |-> FALSE]]
    /\ kick = [c \in Clients |-> FALSE]
    /\ sender = [c \in Clients |-> None]
    /\ stray = [c \in Clients |-> {}]
    /\ stream = [c \in Clients |-> None]
    /\ handler = [k \in Slots |-> Free]
    /\ book = NoBook /\ union = {}
    /\ events = 0
    /\ lost = [c \in Clients |-> FALSE] /\ forgotten = [c \in Clients |-> FALSE]

Event == events < MaxEvents /\ events' = events + 1

----------------------------------------------------------------------------
(***************************************************************************)
(* The node's book: a session counts while a stream of it is open, and of  *)
(* the others only the newest few are kept.                                *)
(***************************************************************************)

\* Mutant: a session counts whether or not a stream of it is open.
RecountsAll(b) == UNION {Shows(b.view[c]) : c \in Clients}

\* The union is counted again whenever the book changes.
Recount(b) == UNION {Shows(b.view[c]) : c \in {d \in Clients : b.streams[d] > 0}}

Rest(b, c) ==
    LET idle == Append(b.idle, c)
        gone == Head(idle)
    IN IF Len(idle) <= MaxIdle THEN [b EXCEPT !.idle = idle]
       ELSE [b EXCEPT !.idle = Tail(idle), !.known = @ \ {gone}, !.view[gone] = None]

At(b, c) == IF c \in b.known THEN b ELSE Rest([b EXCEPT !.known = @ \cup {c}], c)

Open(b, c) ==
    LET s == At(b, c)
    IN [s EXCEPT !.streams[c] = @ + 1, !.idle = SelectSeq(@, LAMBDA x : x # c)]

Close(b, c) ==
    LET s == [b EXCEPT !.streams[c] = @ - 1]
    IN IF s.streams[c] = 0 THEN Rest(s, c) ELSE s

Set(b, c, v) == [At(b, c) EXCEPT !.view[c] = v]

\* A session's view that is gone without its client having replaced it.
Dropped(b, c) == book.view[c] # None /\ b.view[c] = None

Books(b) ==
    /\ book' = b
    /\ union' = Recount(b)
    /\ forgotten' = [c \in Clients |-> forgotten[c] \/ Dropped(b, c)]

\* A session's view is booked.
Takes(c, v) ==
    LET b == Set(book, c, v) IN
    /\ book' = b /\ union' = Recount(b)
    /\ forgotten' = [d \in Clients |-> d # c /\ (forgotten[d] \/ Dropped(b, d))]

----------------------------------------------------------------------------
(***************************************************************************)
(* The client: a draw records what is on screen, and one sender tells it.  *)
(***************************************************************************)

Owed(t) == ~t.sent \/ t.last # t.want

Draws(c, v) ==
    /\ page[c] = "open" /\ v # tracker[c].want
    /\ Event
    /\ tracker' = [tracker EXCEPT ![c].want = v]
    /\ kick' = [kick EXCEPT ![c] = @ \/ Owed(tracker'[c])]
    /\ UNCHANGED <<page, sender, stray, lost, serving, booked>>

\* Mutant: a view the node was told once is not owed to it again.
ReopensQuietly(c, k) ==
    /\ page[c] = "open" /\ stream[c] = None /\ OwnerOf[k] = c /\ handler[k] = Free
    /\ kick' = [kick EXCEPT ![c] = TRUE]
    /\ stream' = [stream EXCEPT ![c] = k]
    /\ handler' = [handler EXCEPT ![k].live = TRUE]
    /\ UNCHANGED <<page, tracker, sender, stray, lost, booked, events>>

\* The stream is asked for again, and whatever is shown is owed again.
Reopens(c, k) ==
    /\ page[c] = "open" /\ stream[c] = None /\ OwnerOf[k] = c /\ handler[k] = Free
    /\ tracker' = [tracker EXCEPT ![c].sent = FALSE]
    /\ kick' = [kick EXCEPT ![c] = TRUE]
    /\ stream' = [stream EXCEPT ![c] = k]
    /\ handler' = [handler EXCEPT ![k].live = TRUE]
    /\ UNCHANGED <<page, sender, stray, lost, booked, events>>

\* The sender looks when it is woken, and again when it has an answer.
Looks(c) == page[c] = "open" /\ sender[c] = None /\ kick[c]

Claims(c) ==
    /\ Looks(c) /\ Owed(tracker[c])
    /\ kick' = [kick EXCEPT ![c] = FALSE]
    /\ tracker' = [tracker EXCEPT ![c].last = tracker[c].want, ![c].sent = TRUE]
    /\ sender' = [sender EXCEPT ![c] = tracker[c].want]
    /\ lost' = [lost EXCEPT ![c] = stray[c] # {}]
    /\ UNCHANGED <<page, stray, serving, booked, events>>

Rests(c) ==
    /\ Looks(c) /\ ~Owed(tracker[c])
    /\ kick' = [kick EXCEPT ![c] = FALSE]
    /\ UNCHANGED <<page, tracker, sender, stray, lost, serving, booked, events>>

\* The node books the view and answers.
SetView(c) ==
    /\ sender[c] # None
    /\ Takes(c, sender[c])
    /\ sender' = [sender EXCEPT ![c] = None]
    /\ kick' = [kick EXCEPT ![c] = TRUE]
    /\ UNCHANGED <<page, tracker, stray, lost, serving, events>>

\* The call outlives the wait for it: the node takes it later, or never.
Abandons(c) ==
    /\ sender' = [sender EXCEPT ![c] = None]
    /\ stray' = [stray EXCEPT ![c] = @ \cup ({sender[c]} \ {None})]
    /\ lost' = [lost EXCEPT ![c] = TRUE]

GivesUp(c) ==
    /\ sender[c] # None
    /\ Abandons(c)
    /\ Event
    /\ UNCHANGED <<page, tracker, kick, serving, booked>>

StrayTaken(c, v) ==
    /\ v \in stray[c]
    /\ Takes(c, v)
    /\ stray' = [stray EXCEPT ![c] = @ \ {v}]
    /\ UNCHANGED <<page, tracker, kick, sender, lost, serving, events>>

PageCloses(c) ==
    /\ page[c] = "open"
    /\ page' = [page EXCEPT ![c] = "closed"]
    /\ Event
    /\ stream' = [stream EXCEPT ![c] = None]
    /\ Abandons(c)
    /\ UNCHANGED <<tracker, kick, handler, booked>>

----------------------------------------------------------------------------
(***************************************************************************)
(* The node's side of a stream (router.Subscribe): every namespace         *)
(* settles, then the header goes out while the count is taken; a stream    *)
(* that ends waits for its count, to give it back.                         *)
(***************************************************************************)

\* The request's context: the connection broke, or the page is gone.
Breaks(k) ==
    /\ handler[k].live /\ ~handler[k].over
    /\ handler' = [handler EXCEPT ![k].over = TRUE]
    /\ IF page[OwnerOf[k]] = "closed" THEN UNCHANGED events ELSE Event
    /\ UNCHANGED <<page, telling, stream, booked>>

\* The client's stream ends once its handler's has.
SeesEnd(c) ==
    /\ stream[c] # None
    /\ LET h == handler[stream[c]] IN ~h.live \/ h.over
    /\ stream' = [stream EXCEPT ![c] = None]
    /\ UNCHANGED <<page, telling, handler, booked, events>>

\* The counting goroutine, every namespace having settled, looks at the
\* context once before it counts.
Counting(k) ==
    /\ handler[k].live /\ handler[k].counter = "waits"
    /\ handler' = [handler EXCEPT ![k].counter =
                        IF handler[k].over THEN "skipped" ELSE "opens"]
    /\ UNCHANGED <<page, telling, stream, booked, events>>

Counts(k) ==
    /\ handler[k].counter = "opens"
    /\ Books(Open(book, OwnerOf[k]))
    /\ handler' = [handler EXCEPT ![k].counter = "counted"]
    /\ UNCHANGED <<page, telling, stream, events>>

\* Mutant: a stream that ends does not wait for its count.
UncountsAtOnce(k) ==
    /\ handler[k].live /\ handler[k].over
    /\ Books(IF handler[k].counter = "counted" THEN Close(book, OwnerOf[k]) ELSE book)
    /\ handler' = [handler EXCEPT ![k] =
                        IF @.counter = "opens" THEN [Free EXCEPT !.counter = "opens"] ELSE Free]
    /\ UNCHANGED <<page, telling, stream, events>>

Uncounts(k) ==
    /\ handler[k].live /\ handler[k].over /\ handler[k].counter \in {"counted", "skipped"}
    /\ Books(IF handler[k].counter = "counted" THEN Close(book, OwnerOf[k]) ELSE book)
    /\ handler' = [handler EXCEPT ![k] = Free]
    /\ UNCHANGED <<page, telling, stream, events>>

\* The node starts again with an empty book; whatever was called fails.
Restarts ==
    /\ Event
    /\ book' = NoBook /\ union' = {} /\ UNCHANGED forgotten
    /\ handler' = [k \in Slots |-> Free]
    /\ sender' = [c \in Clients |-> None]
    /\ stray' = [c \in Clients |-> {}]
    /\ UNCHANGED <<page, tracker, kick, lost, stream>>

----------------------------------------------------------------------------
ClientStep(c) ==
    \/ (\E k \in Slots : Reopens(c, k)) \/ SeesEnd(c)
    \/ Claims(c) \/ Rests(c) \/ SetView(c)

Next ==
    \/ \E c \in Clients :
        \/ \E v \in Views : Draws(c, v) \/ StrayTaken(c, v)
        \/ ClientStep(c)
        \/ GivesUp(c) \/ PageCloses(c)
    \/ \E k \in Slots :
        \/ Breaks(k) \/ Counting(k) \/ Counts(k) \/ Uncounts(k)
    \/ Restarts

Spec == Init /\ [][Next]_vars

\* A connection whose page is gone ends, and with it every attempt to follow a
\* namespace; the node's goroutines run.
NodeStep(k) ==
    \/ page[OwnerOf[k]] = "closed" /\ Breaks(k)
    \/ handler[k].over /\ Counting(k)
    \/ Counts(k) \/ Uncounts(k)

Fairness == \A k \in Slots : WF_vars(NodeStep(k))

FairSpec == Spec /\ Fairness

----------------------------------------------------------------------------
(* Type correctness. *)
TypeOK ==
    /\ page \in [Clients -> {"open", "closed"}]
    /\ tracker \in [Clients -> [want : Views, last : Views \cup {None}, sent : BOOLEAN]]
    /\ kick \in [Clients -> BOOLEAN]
    /\ sender \in [Clients -> Views \cup {None}]
    /\ stray \in [Clients -> SUBSET Views]
    /\ stream \in [Clients -> Slots \cup {None}]
    /\ handler \in [Slots ->
            [live : BOOLEAN, over : BOOLEAN,
             counter : {"waits", "opens", "counted", "skipped"}]]
    /\ book \in [streams : [Clients -> Nat], view : [Clients -> Views \cup {None}],
                 known : SUBSET Clients, idle : Seq(Clients)]
    /\ union \subseteq UNION Views
    /\ events \in 0..MaxEvents
    /\ lost \in [Clients -> BOOLEAN] /\ forgotten \in [Clients -> BOOLEAN]

\* The node counts the client's stream, and the client has nothing left to say.
Settled(c) ==
    /\ stream[c] # None
    /\ LET h == handler[stream[c]] IN ~h.over /\ h.counter = "counted"
    /\ ~kick[c] /\ sender[c] = None /\ stray[c] = {}

(* A client whose stream is open is being watched for: what is on its      *)
(* screen is in the union, whichever of its two calls came first and       *)
(* however often either side started over (Tracker, "again after every     *)
(* event stream re-open").  A view in a call given up on, and an idle      *)
(* session the node dropped past its bound, wait for the next change.      *)
ShownIsWatched ==
    \A c \in Clients :
        Settled(c) /\ ~lost[c] /\ ~forgotten[c] => tracker[c].want \subseteq union

(* Whatever the sources are asked to watch is shown in a session one of    *)
(* whose streams has settled, so the change a source reports has a stream  *)
(* to reach (router.Subscribe, "would reach no one").                      *)
WatchedIsHeard ==
    \A g \in union : \E c \in Clients :
        /\ g \in Shows(book.view[c])
        /\ \E k \in Slots : OwnerOf[k] = c /\ handler[k].counter = "counted"

(* A client that goes away stops being counted for good, wherever the      *)
(* opening of its stream stood (Book.Open, "cannot keep a source watched").*)
GoneIsUnwatched ==
    <>[](\A c \in Clients : page[c] = "closed" => book.streams[c] = 0)
=============================================================================
