---------------------------- MODULE ShownProofs ----------------------------
(***************************************************************************)
(* What is on a screen is watched, and nothing else is, for any number of  *)
(* clients, streams and views: the count the book keeps of a session is    *)
(* the number of its slots that have counted, the union is the counted     *)
(* sessions' views, and a client that owes nothing has been heard since    *)
(* its stream was last asked for.                                          *)
(***************************************************************************)
EXTENDS Shown, FiniteSetTheorems, TLAPS

IsBook(b) ==
    /\ b = [streams |-> b.streams, view |-> b.view, known |-> b.known, idle |-> b.idle]
    /\ b.streams \in [Clients -> Nat]
    /\ b.view \in [Clients -> Views \cup {None}]

Types ==
    /\ page \in [Clients -> {"open", "closed"}]
    /\ tracker \in [Clients -> [want : Views, last : Views \cup {None}, sent : BOOLEAN]]
    /\ kick \in [Clients -> BOOLEAN]
    /\ sender \in [Clients -> Views \cup {None}]
    /\ stray \in [Clients -> SUBSET Views]
    /\ stream \in [Clients -> Slots \cup {None}]
    /\ handler \in [Slots ->
            [live : BOOLEAN, over : BOOLEAN,
             counter : {"waits", "opens", "counted", "skipped"}]]
    /\ IsBook(book)
    /\ lost \in [Clients -> BOOLEAN] /\ forgotten \in [Clients -> BOOLEAN]

Counted(c) == {k \in Slots : OwnerOf[k] = c /\ handler[k].counter = "counted"}

(* A slot is its owner's, and what has counted has been opened.            *)
SlotsOwned ==
    /\ \A c \in Clients : stream[c] # None => OwnerOf[stream[c]] = c
    /\ \A k \in Slots : handler[k].counter # "waits" => handler[k].live

(* The book counts the streams that have counted themselves.               *)
CountExact == \A c \in Clients : book.streams[c] = Cardinality(Counted(c))

UnionExact == union = Recount(book)

Attached(c) == stream[c] # None /\ handler[stream[c]].live

(* While its stream is served, a client whose view was not in a call given *)
(* up on owes a wake for whatever it has not said, and what it has said is *)
(* on its way or booked.                                                   *)
Told ==
    \A c \in Clients :
        /\ stray[c] # {} => lost[c]
        /\ Attached(c) /\ ~lost[c] =>
            /\ sender[c] = None /\ Owed(tracker[c]) => kick[c]
            /\ tracker[c].sent =>
                 IF sender[c] = None THEN forgotten[c] \/ book.view[c] = tracker[c].last
                 ELSE sender[c] = tracker[c].last

Inv == Types /\ SlotsOwned /\ CountExact /\ UnionExact /\ Told

----------------------------------------------------------------------------
(***************************************************************************)
(* The book's operations.                                                  *)
(***************************************************************************)
Drops(b, s) == \A c \in Clients : s.view[c] = b.view[c] \/ s.view[c] = None

\* Resting a session drops views only, and counts no stream.
LEMMA RestKeeps ==
    ASSUME NEW b, IsBook(b), NEW c \in Clients
    PROVE  /\ IsBook(Rest(b, c)) /\ Rest(b, c).streams = b.streams
           /\ Drops(b, Rest(b, c))
BY DEF IsBook, Rest, Drops

\* Finding a session, made if it is not there, drops views only.
LEMMA AtKeeps ==
    ASSUME NEW b, IsBook(b), NEW c \in Clients
    PROVE  /\ IsBook(At(b, c)) /\ At(b, c).streams = b.streams
           /\ Drops(b, At(b, c))
<1> DEFINE s == [b EXCEPT !.known = @ \cup {c}]
<1>1. IsBook(s) /\ s.streams = b.streams /\ s.view = b.view
  BY DEF IsBook
<1>2. IsBook(Rest(s, c)) /\ Rest(s, c).streams = s.streams /\ Drops(s, Rest(s, c))
  BY <1>1, RestKeeps
<1>3. Drops(b, b)
  BY DEF Drops
<1>4. QED
  BY <1>1, <1>2, <1>3 DEF At, Drops

\* Opening counts one stream of the session.
LEMMA OpenCounts ==
    ASSUME NEW b, IsBook(b), NEW c \in Clients
    PROVE  /\ IsBook(Open(b, c)) /\ Drops(b, Open(b, c))
           /\ Open(b, c).streams = [b.streams EXCEPT ![c] = @ + 1]
<1> DEFINE s == At(b, c)
<1>1. IsBook(s) /\ s.streams = b.streams /\ Drops(b, s)
  BY AtKeeps
<1>2. PICK q : Open(b, c) = [s EXCEPT !.streams[c] = @ + 1, !.idle = q]
  BY Zenon DEF Open
<1> HIDE DEF s
<1>3. Open(b, c) = [streams |-> [s.streams EXCEPT ![c] = @ + 1], view |-> s.view,
                    known |-> s.known, idle |-> q]
  BY <1>1, <1>2 DEF IsBook
<1>4. s.streams[c] + 1 \in Nat
  BY <1>1 DEF IsBook
<1>5. QED
  BY <1>1, <1>3, <1>4 DEF IsBook, Drops

\* Closing counts one stream of the session less.
LEMMA CloseCounts ==
    ASSUME NEW b, IsBook(b), NEW c \in Clients, b.streams[c] # 0
    PROVE  /\ IsBook(Close(b, c)) /\ Drops(b, Close(b, c))
           /\ Close(b, c).streams = [b.streams EXCEPT ![c] = @ - 1]
<1> DEFINE s == [b EXCEPT !.streams[c] = @ - 1]
<1>1. b.streams[c] - 1 \in Nat
  BY DEF IsBook
<1>2. IsBook(s) /\ s.streams = [b.streams EXCEPT ![c] = @ - 1] /\ s.view = b.view
  BY <1>1 DEF IsBook
<1>3. IsBook(Rest(s, c)) /\ Rest(s, c).streams = s.streams /\ Drops(s, Rest(s, c))
  BY <1>2, RestKeeps
<1>4. QED
  BY <1>2, <1>3 DEF Close, Drops

\* Setting books the view, and drops at most other sessions' ones.
LEMMA SetBooks ==
    ASSUME NEW b, IsBook(b), NEW c \in Clients, NEW v \in Views
    PROVE  /\ IsBook(Set(b, c, v)) /\ Set(b, c, v).streams = b.streams
           /\ Set(b, c, v).view[c] = v
           /\ \A d \in Clients \ {c} : Set(b, c, v).view[d] \in {b.view[d], None}
<1> DEFINE s == At(b, c)
<1>1. IsBook(s) /\ s.streams = b.streams /\ Drops(b, s)
  BY AtKeeps
<1>2. Set(b, c, v) = [s EXCEPT !.view[c] = v]
  BY DEF Set
<1> HIDE DEF s
<1>3. QED
  BY <1>1, <1>2 DEF IsBook, Drops

----------------------------------------------------------------------------
(***************************************************************************)
(* Counting: what a step does to the slots that have counted.              *)
(***************************************************************************)
LEMMA CountedIsFinite == \A c \in Clients : IsFiniteSet(Counted(c))
BY FS_Subset, ShownAssumption DEF Counted, ShownAssumption

(* A step that changes no counter and no count keeps the count.            *)
LEMMA CountKept ==
    ASSUME CountExact, book'.streams = book.streams,
           \A k \in Slots : handler'[k].counter = "counted" <=> handler[k].counter = "counted"
    PROVE  CountExact'
<1>1. \A c \in Clients : Counted(c)' = Counted(c)
  BY DEF Counted
<1>2. QED
  BY <1>1 DEF CountExact

----------------------------------------------------------------------------
\* The invariant holds of an empty book.
LEMMA InitHolds == Init => Inv
<1> SUFFICES ASSUME Init PROVE Inv
  OBVIOUS
<1> USE ShownAssumption DEF ShownAssumption, Init, Free, NoBook
<1>1. Types
  <2>1. IsBook(book)
    BY DEF IsBook
  <2>2. QED
    BY <2>1 DEF Types
<1>2. SlotsOwned
  BY DEF SlotsOwned
<1>3. CountExact
  <2>1. \A c \in Clients : Counted(c) = {}
    BY DEF Counted
  <2>2. QED
    BY <2>1, FS_EmptySet DEF CountExact
<1>4. UnionExact
  BY DEF UnionExact, Recount
<1>5. Told
  BY DEF Told, Attached
<1>6. QED
  BY <1>1, <1>2, <1>3, <1>4, <1>5 DEF Inv

----------------------------------------------------------------------------
(***************************************************************************)
(* The steps that leave the book alone.                                    *)
(***************************************************************************)
LEMMA QuietStepsKeep ==
    ASSUME Inv,
           \/ \E c \in Clients :
                \/ \E v \in Views : Draws(c, v)
                \/ \E k \in Slots : Reopens(c, k)
                \/ Claims(c) \/ Rests(c) \/ GivesUp(c) \/ PageCloses(c) \/ SeesEnd(c)
           \/ \E k \in Slots : Breaks(k) \/ Counting(k)
    PROVE  Inv'
<1> USE ShownAssumption DEF ShownAssumption, Inv
<1>0. ASSUME book' = book, union' = union,
             \A k \in Slots : handler'[k].counter = "counted" <=> handler[k].counter = "counted"
      PROVE  CountExact' /\ UnionExact'
  BY <1>0, CountKept DEF UnionExact, Recount, Shows
<1>1. ASSUME NEW c \in Clients, NEW v \in Views, Draws(c, v)
      PROVE  Inv'
  <2> USE <1>1 DEF Draws, serving, booked
  <2>1. Types'
    <3>1. tracker' \in [Clients -> [want : Views, last : Views \cup {None}, sent : BOOLEAN]]
      BY SMTT(30) DEF Types
    <3>2. kick' \in [Clients -> BOOLEAN]
      <4>1. \A d \in Clients : (kick[d] \/ Owed(tracker'[d])) \in BOOLEAN
        OBVIOUS
      <4>2. kick \in [Clients -> BOOLEAN] /\ kick' = [kick EXCEPT ![c] = kick[c] \/ Owed(tracker'[c])]
        BY DEF Types
      <4>3. QED
        BY <4>1, <4>2
    <3>3. QED
      BY <3>1, <3>2 DEF Types, IsBook
  <2>2. SlotsOwned'
    BY DEF Types, SlotsOwned
  <2>3. Told'
    BY DEF Types, SlotsOwned, Told, Attached, Owed
  <2>4. CountExact' /\ UnionExact'
    BY <1>0 DEF Types
  <2>5. QED
    BY <2>1, <2>2, <2>3, <2>4
<1>2. ASSUME NEW c \in Clients, NEW k \in Slots, Reopens(c, k)
      PROVE  Inv'
  <2> USE <1>2 DEF Reopens, booked, Free
  <2>a. tracker[c] \in [want : Views, last : Views \cup {None}, sent : BOOLEAN]
    BY DEF Types
  <2>b. tracker' \in [Clients -> [want : Views, last : Views \cup {None}, sent : BOOLEAN]]
    BY <2>a DEF Types
  <2>0. handler' \in [Slots ->
            [live : BOOLEAN, over : BOOLEAN,
             counter : {"waits", "opens", "counted", "skipped"}]]
    BY DEF Types
  <2>1. Types'
    BY <2>0, <2>a, <2>b DEF Types, IsBook
  <2>2. SlotsOwned'
    BY DEF Types, SlotsOwned
  <2>3. Told'
    BY DEF Types, SlotsOwned, Told, Attached, Owed
  <2>4. CountExact' /\ UnionExact'
    BY <1>0 DEF Types
  <2>5. QED
    BY <2>1, <2>2, <2>3, <2>4
<1>3. ASSUME NEW c \in Clients, Claims(c)
      PROVE  Inv'
  <2> USE <1>3 DEF Claims, Looks, serving, booked
  <2>a. tracker[c] \in [want : Views, last : Views \cup {None}, sent : BOOLEAN]
    BY DEF Types
  <2>0. tracker' \in [Clients -> [want : Views, last : Views \cup {None}, sent : BOOLEAN]]
    BY <2>a DEF Types
  <2>1. Types'
    BY <2>0 DEF Types, IsBook
  <2>2. SlotsOwned'
    BY DEF Types, SlotsOwned
  <2>3. Told'
    BY DEF Types, SlotsOwned, Told, Attached, Owed
  <2>4. CountExact' /\ UnionExact'
    BY <1>0 DEF Types
  <2>5. QED
    BY <2>1, <2>2, <2>3, <2>4
<1>4. ASSUME NEW c \in Clients, Rests(c)
      PROVE  Inv'
  <2> USE <1>4 DEF Rests, Looks, serving, booked
  <2>1. Types'
    BY DEF Types, IsBook
  <2>2. SlotsOwned'
    BY DEF Types, SlotsOwned
  <2>3. Told'
    BY DEF Types, SlotsOwned, Told, Attached, Owed
  <2>4. CountExact' /\ UnionExact'
    BY <1>0 DEF Types
  <2>5. QED
    BY <2>1, <2>2, <2>3, <2>4
<1>5. ASSUME NEW c \in Clients, GivesUp(c)
      PROVE  Inv'
  <2> USE <1>5 DEF GivesUp, Abandons, serving, booked
  <2>1. Types'
    BY DEF Types, IsBook
  <2>2. SlotsOwned'
    BY DEF Types, SlotsOwned
  <2>3. Told'
    BY DEF Types, SlotsOwned, Told, Attached, Owed
  <2>4. CountExact' /\ UnionExact'
    BY <1>0 DEF Types
  <2>5. QED
    BY <2>1, <2>2, <2>3, <2>4
<1>6. ASSUME NEW c \in Clients, PageCloses(c)
      PROVE  Inv'
  <2> USE <1>6 DEF PageCloses, Abandons, booked
  <2>1. Types'
    BY ZenonT(30) DEF Types, IsBook
  <2>2. SlotsOwned'
    BY DEF Types, SlotsOwned
  <2>3. Told'
    <3> SUFFICES ASSUME NEW d \in Clients
                 PROVE  /\ stray'[d] # {} => lost'[d]
                        /\ Attached(d)' /\ ~lost'[d] =>
                            /\ sender'[d] = None /\ Owed(tracker'[d]) => kick'[d]
                            /\ tracker'[d].sent =>
                                 IF sender'[d] = None THEN forgotten'[d] \/ book'.view[d] = tracker'[d].last
                                 ELSE sender'[d] = tracker'[d].last
      BY DEF Told
    <3>1. CASE d = c
      <4>1. lost'[d] /\ stream'[d] = None
        BY <3>1 DEF Types
      <4>2. QED
        BY <4>1 DEF Attached
    <3>2. CASE d # c
      <4>1. /\ stray'[d] = stray[d] /\ lost'[d] = lost[d] /\ stream'[d] = stream[d]
            /\ sender'[d] = sender[d]
        BY <3>2 DEF Types
      <4>2. QED
        BY <4>1 DEF Told, Attached
    <3>3. QED
      BY <3>1, <3>2
  <2>4. CountExact' /\ UnionExact'
    BY <1>0 DEF Types
  <2>5. QED
    BY <2>1, <2>2, <2>3, <2>4
<1>7. ASSUME NEW c \in Clients, SeesEnd(c)
      PROVE  Inv'
  <2> USE <1>7 DEF SeesEnd, telling, booked
  <2>1. Types'
    BY DEF Types, IsBook
  <2>2. SlotsOwned'
    BY DEF Types, SlotsOwned
  <2>3. Told'
    BY DEF Types, SlotsOwned, Told, Attached, Owed
  <2>4. CountExact' /\ UnionExact'
    BY <1>0 DEF Types
  <2>5. QED
    BY <2>1, <2>2, <2>3, <2>4
<1>8. ASSUME NEW k \in Slots, Breaks(k)
      PROVE  Inv'
  <2> USE <1>8 DEF Breaks, telling, booked
  <2>1. Types'
    BY ZenonT(30) DEF Types, IsBook
  <2>2. SlotsOwned'
    BY DEF Types, SlotsOwned
  <2>3. Told'
    BY DEF Types, SlotsOwned, Told, Attached, Owed
  <2>4. CountExact' /\ UnionExact'
    BY <1>0 DEF Types
  <2>5. QED
    BY <2>1, <2>2, <2>3, <2>4
<1>9. ASSUME NEW k \in Slots, Counting(k)
      PROVE  Inv'
  <2> USE <1>9 DEF Counting, telling, booked
  <2>1. Types'
    BY DEF Types, IsBook
  <2>2. SlotsOwned'
    BY DEF Types, SlotsOwned
  <2>3. Told'
    BY DEF Types, SlotsOwned, Told, Attached, Owed
  <2>4. CountExact' /\ UnionExact'
    BY <1>0 DEF Types
  <2>5. QED
    BY <2>1, <2>2, <2>3, <2>4
<1>10. QED
  BY <1>1, <1>2, <1>3, <1>4, <1>5, <1>6, <1>7, <1>8, <1>9
----------------------------------------------------------------------------
(***************************************************************************)
(* The steps that change the book.                                         *)
(***************************************************************************)
LEMMA BooksKeeps ==
    ASSUME Types, NEW b, IsBook(b), Drops(book, b), Books(b)
    PROVE  /\ IsBook(book') /\ book' = b /\ UnionExact'
           /\ forgotten' \in [Clients -> BOOLEAN]
           /\ \A d \in Clients : forgotten[d] => forgotten'[d]
           /\ \A d \in Clients : forgotten'[d] \/ book'.view[d] = book.view[d]
<1>1. book' = b /\ UnionExact'
  BY DEF Books, UnionExact, Recount, Shows
<1>2. forgotten' = [c \in Clients |-> forgotten[c] \/ Dropped(b, c)]
  BY DEF Books
<1>3. \A d \in Clients : Dropped(b, d) \in BOOLEAN /\ (Dropped(b, d) \/ b.view[d] = book.view[d])
  BY DEF Dropped, Drops
<1>4. QED
  BY <1>1, <1>2, <1>3 DEF Types

\* A view taken keeps the union exact and is booked.
LEMMA TakesKeeps ==
    ASSUME Types, NEW c \in Clients, NEW v \in Views, Takes(c, v)
    PROVE  /\ IsBook(book') /\ book'.streams = book.streams /\ UnionExact'
           /\ forgotten' \in [Clients -> BOOLEAN]
           /\ book'.view[c] = v
           /\ \A d \in Clients \ {c} : forgotten[d] => forgotten'[d]
           /\ \A d \in Clients \ {c} : forgotten'[d] \/ book'.view[d] = book.view[d]
<1> DEFINE b == Set(book, c, v)
<1>1. book' = b /\ UnionExact'
  BY DEF Takes, UnionExact, Recount, Shows
<1>2. forgotten' = [d \in Clients |-> d # c /\ (forgotten[d] \/ Dropped(b, d))]
  BY DEF Takes
<1>3. /\ IsBook(b) /\ b.streams = book.streams /\ b.view[c] = v
      /\ \A d \in Clients \ {c} : b.view[d] \in {book.view[d], None}
  BY SetBooks DEF Types
<1>4. \A d \in Clients \ {c} : Dropped(b, d) \/ b.view[d] = book.view[d]
  BY <1>3 DEF Dropped
<1>5. \A d \in Clients : Dropped(b, d) \in BOOLEAN
  BY DEF Dropped
<1> HIDE DEF b
<1>6. QED
  BY <1>1, <1>2, <1>3, <1>4, <1>5 DEF Types

(* A view is booked: the client's answer, or a call given up on.           *)
LEMMA TellingKeeps ==
    ASSUME Inv, NEW c \in Clients,
           SetView(c) \/ \E v \in Views : StrayTaken(c, v)
    PROVE  Inv'
<1> USE ShownAssumption DEF ShownAssumption, Inv
<1>1. CASE SetView(c)
  <2> USE <1>1 DEF SetView, serving
  <2>1. /\ IsBook(book') /\ book'.streams = book.streams /\ UnionExact'
        /\ forgotten' \in [Clients -> BOOLEAN]
        /\ book'.view[c] = sender[c]
        /\ \A d \in Clients \ {c} : forgotten[d] => forgotten'[d]
        /\ \A d \in Clients \ {c} : forgotten'[d] \/ book'.view[d] = book.view[d]
    <3>1. sender[c] \in Views
      BY DEF Types
    <3>2. QED
      BY <3>1, TakesKeeps
  <2>2. Types' /\ SlotsOwned'
    BY <2>1 DEF Types, SlotsOwned
  <2>3. CountExact'
    BY <2>1, CountKept
  <2>4. Told'
    BY <2>1 DEF Types, Told, Attached, Owed
  <2>5. QED
    BY <2>1, <2>2, <2>3, <2>4
<1>2. ASSUME NEW v \in Views, StrayTaken(c, v)
      PROVE  Inv'
  <2> USE <1>2 DEF StrayTaken, serving
  <2>1. /\ IsBook(book') /\ book'.streams = book.streams /\ UnionExact'
        /\ forgotten' \in [Clients -> BOOLEAN]
        /\ \A d \in Clients \ {c} : forgotten[d] => forgotten'[d]
        /\ \A d \in Clients \ {c} : forgotten'[d] \/ book'.view[d] = book.view[d]
    BY TakesKeeps
  <2>2. Types' /\ SlotsOwned'
    BY <2>1 DEF Types, SlotsOwned
  <2>3. CountExact'
    BY <2>1, CountKept
  <2>4. Told'
    BY <2>1 DEF Types, Told, Attached, Owed
  <2>5. QED
    BY <2>1, <2>2, <2>3, <2>4
<1>3. QED
  BY <1>1, <1>2

(* A stream is counted once, and what it gives back is what it took.       *)
LEMMA CountingKeeps ==
    ASSUME Inv, NEW k \in Slots, Counts(k) \/ Uncounts(k)
    PROVE  Inv'
<1> USE ShownAssumption DEF ShownAssumption, Inv
<1> DEFINE o == OwnerOf[k]
<1>0. o \in Clients /\ IsBook(book)
  BY DEF Types
<1> HIDE DEF o
<1>1. CASE Counts(k)
  <2> USE <1>1 DEF Counts
  <2>1. Books(Open(book, o))
    BY DEF o
  <2>2. /\ IsBook(book') /\ book' = Open(book, o) /\ UnionExact'
        /\ forgotten' \in [Clients -> BOOLEAN]
        /\ \A d \in Clients : forgotten[d] => forgotten'[d]
        /\ \A d \in Clients : forgotten'[d] \/ book'.view[d] = book.view[d]
    BY <1>0, <2>1, OpenCounts, BooksKeeps
  <2>3. book'.streams = [book.streams EXCEPT ![o] = @ + 1]
    BY <1>0, <2>2, OpenCounts
  <2>4. Types' /\ SlotsOwned'
    <3>1. Types'
      BY ZenonT(30), <2>2 DEF Types, telling
    <3>2. SlotsOwned'
      BY DEF Types, SlotsOwned, telling
    <3>3. QED
      BY <3>1, <3>2
  <2>5. CountExact'
    <3>1. /\ Counted(o)' = Counted(o) \cup {k} /\ k \notin Counted(o)
          /\ \A c \in Clients \ {o} : Counted(c)' = Counted(c)
      BY DEF Counted, Types, o
    <3>2. Cardinality(Counted(o)') = Cardinality(Counted(o)) + 1
      BY <1>0, <3>1, FS_AddElement, CountedIsFinite
    <3>3. QED
      BY <1>0, <2>3, <3>1, <3>2 DEF CountExact, IsBook
  <2>6. Told'
    BY <2>2 DEF Types, Told, Attached, Owed, SlotsOwned, telling
  <2>7. QED
    BY <2>2, <2>4, <2>5, <2>6
<1>2. CASE Uncounts(k) /\ handler[k].counter = "counted"
  <2> USE <1>2 DEF Uncounts, Free
  <2>1. Books(Close(book, o))
    BY DEF o
  <2>2. k \in Counted(o)
    BY DEF Counted, o
  <2>3. book.streams[o] # 0
    BY <1>0, <2>2, FS_EmptySet, CountedIsFinite DEF CountExact
  <2>4. /\ IsBook(book') /\ book' = Close(book, o) /\ UnionExact'
        /\ forgotten' \in [Clients -> BOOLEAN]
        /\ \A d \in Clients : forgotten[d] => forgotten'[d]
        /\ \A d \in Clients : forgotten'[d] \/ book'.view[d] = book.view[d]
    BY <1>0, <2>1, <2>3, CloseCounts, BooksKeeps
  <2>5. book'.streams = [book.streams EXCEPT ![o] = @ - 1]
    BY <1>0, <2>3, <2>4, CloseCounts
  <2>6. Types' /\ SlotsOwned'
    BY <2>4 DEF Types, SlotsOwned, telling
  <2>7. CountExact'
    <3>1. /\ Counted(o)' = Counted(o) \ {k}
          /\ \A c \in Clients \ {o} : Counted(c)' = Counted(c)
      BY DEF Counted, Types, o
    <3>2. Cardinality(Counted(o)') = Cardinality(Counted(o)) - 1
      BY ZenonT(30), <1>0, <2>2, <3>1, FS_RemoveElement, CountedIsFinite
    <3>3. QED
      BY ZenonT(30), <1>0, <2>5, <3>1, <3>2 DEF CountExact, IsBook
  <2>8. Told'
    BY <2>4 DEF Types, Told, Attached, Owed, telling
  <2>9. QED
    BY <2>4, <2>6, <2>7, <2>8
<1>3. CASE Uncounts(k) /\ handler[k].counter # "counted"
  <2> USE <1>3 DEF Uncounts, Free
  <2>1. /\ IsBook(book') /\ book' = book /\ UnionExact'
        /\ forgotten' \in [Clients -> BOOLEAN]
        /\ \A d \in Clients : forgotten[d] => forgotten'[d]
    <3>1. Drops(book, book)
      BY DEF Drops
    <3>2. QED
      BY <1>0, <3>1, BooksKeeps
  <2>2. Types' /\ SlotsOwned'
    BY <2>1 DEF Types, SlotsOwned, telling
  <2>3. CountExact'
    BY <2>1, CountKept DEF Types
  <2>4. Told'
    BY <2>1 DEF Types, Told, Attached, Owed, telling
  <2>5. QED
    BY <2>1, <2>2, <2>3, <2>4
<1>4. QED
  BY <1>1, <1>2, <1>3

(* A node that starts again has counted nothing, and serves no stream.     *)
LEMMA RestartKeeps == Inv /\ Restarts => Inv'
<1> SUFFICES ASSUME Inv, Restarts PROVE Inv'
  OBVIOUS
<1> USE ShownAssumption DEF ShownAssumption, Inv, Restarts, NoBook, Free
<1>1. Types'
  <2>1. IsBook(book)'
    BY DEF IsBook
  <2>2. QED
    BY <2>1 DEF Types
<1>2. SlotsOwned'
  BY DEF Types, SlotsOwned
<1>3. CountExact'
  <2>1. \A c \in Clients : Counted(c)' = {}
    BY DEF Counted
  <2>2. QED
    BY <2>1, FS_EmptySet DEF CountExact
<1>4. UnionExact'
  BY DEF UnionExact, Recount
<1>5. Told'
  BY DEF Types, Told, Attached
<1>6. QED
  BY <1>1, <1>2, <1>3, <1>4, <1>5

----------------------------------------------------------------------------
\* Every step keeps the invariant.
LEMMA NextKeeps == Inv /\ [Next]_vars => Inv'
<1> SUFFICES ASSUME Inv, [Next]_vars PROVE Inv'
  OBVIOUS
<1>1. CASE \/ \E c \in Clients :
                \/ \E v \in Views : Draws(c, v)
                \/ \E k \in Slots : Reopens(c, k)
                \/ Claims(c) \/ Rests(c) \/ GivesUp(c) \/ PageCloses(c) \/ SeesEnd(c)
           \/ \E k \in Slots : Breaks(k) \/ Counting(k)
  BY <1>1, QuietStepsKeep
<1>2. ASSUME NEW c \in Clients, SetView(c) \/ \E v \in Views : StrayTaken(c, v)
      PROVE  Inv'
  BY <1>2, TellingKeeps
<1>3. ASSUME NEW k \in Slots, Counts(k) \/ Uncounts(k)
      PROVE  Inv'
  BY <1>3, CountingKeeps
<1>4. CASE Restarts
  BY <1>4, RestartKeeps
<1>5. CASE UNCHANGED vars
  BY <1>5 DEF vars, telling, serving, booked, Inv, Types, IsBook, SlotsOwned, CountExact, Counted,
              UnionExact, Recount, Shows, Told, Attached, Owed
<1>6. QED
  BY <1>1, <1>2, <1>3, <1>4, <1>5 DEF Next, ClientStep

(* In every reachable state of the clients' trackers and the node's book.  *)
THEOREM Invariance == Spec => []Inv
<1>1. QED
  BY InitHolds, NextKeeps, PTL DEF Spec

(* What is watched is shown in a session one of whose streams has settled, *)
(* for any number of clients and streams (router.Subscribe).               *)
THEOREM WatchedIsAlwaysHeard == Spec => []WatchedIsHeard
<1>1. Inv => WatchedIsHeard
  <2> SUFFICES ASSUME Inv, NEW g \in union
               PROVE  \E c \in Clients :
                        /\ g \in Shows(book.view[c])
                        /\ \E k \in Slots : OwnerOf[k] = c /\ handler[k].counter = "counted"
    BY DEF WatchedIsHeard
  <2>1. PICK c \in Clients : book.streams[c] > 0 /\ g \in Shows(book.view[c])
    BY DEF Inv, UnionExact, Recount
  <2>2. Counted(c) # {}
    BY <2>1, FS_EmptySet DEF Inv, CountExact
  <2>3. QED
    BY <2>1, <2>2 DEF Counted
<1>2. QED
  BY <1>1, Invariance, PTL

(* A client whose stream is counted and that has nothing left to say has   *)
(* its screen watched (Tracker; Book.recount).                             *)
THEOREM ShownIsAlwaysWatched == Spec => []ShownIsWatched
<1>1. Inv => ShownIsWatched
  <2> SUFFICES ASSUME Inv, NEW c \in Clients, Settled(c), ~lost[c], ~forgotten[c]
               PROVE  tracker[c].want \subseteq union
    BY DEF ShownIsWatched
  <2> USE ShownAssumption DEF ShownAssumption, Inv
  <2>1. stream[c] \in Counted(c) /\ Attached(c)
    BY DEF Types, Settled, SlotsOwned, Counted, Attached
  <2>2. book.streams[c] > 0
    BY <2>1, FS_EmptySet, CountedIsFinite DEF CountExact, Types, IsBook
  <2>3. book.view[c] = tracker[c].want /\ tracker[c].want # None
    BY <2>1 DEF Told, Settled, Owed, Types
  <2>4. tracker[c].want = Shows(book.view[c])
    BY <2>3 DEF Shows
  <2>5. QED
    BY <2>2, <2>4 DEF UnionExact, Recount
<1>2. QED
  BY <1>1, Invariance, PTL
=============================================================================
