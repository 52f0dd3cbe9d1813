-------------------------- MODULE SourceCacheProofs --------------------------
(***************************************************************************)
(* What TLAPS proves of the source cache, for any grids, any rows and any  *)
(* number of reads, folds and faults: its fold order keeps its promise     *)
(* (FoldOrder implements TouchedKeys), and over that promise no answer     *)
(* undoes a fold, no body from before the user's edit is kept, the rows    *)
(* come to be the far node's, and what changes is announced.               *)
(***************************************************************************)
EXTENDS SourceCache, FoldOrder, FiniteSetTheorems, TLAPS

(***************************************************************************)
(* The inductive invariant, in named parts.                                *)
(***************************************************************************)

\* Who reads what: a revalidation its own grid, the others what they asked.
Assigned ==
    /\ \A g \in Grids : reads[g].phase # "idle" => reads[g].what = g
    /\ \A r \in Readers : reads[r].phase # "idle" => reads[r].what # NoRead
    /\ \A r \in Readers : reads[r].phase = "spawned" => r \in Grids
    /\ \A r \in Readers : reads[r].phase = "answered" /\ reads[r].what \in {"tile", "body"} =>
           reads[r].got.place # Gone
    /\ \A r \in Readers : reads[r].phase = "answered" => reads[r].got \in Row

\* An event that names a row tells where it is.
Spoken ==
    /\ \A i \in DOMAIN wire : wire[i].kind = "changed" => wire[i].grid = wire[i].row.place
    /\ relay.phase = "recorded" => relay.ev.kind # "grid"
    /\ relay.phase # "idle" /\ relay.ev.kind = "changed" => relay.ev.grid = relay.ev.row.place

Owing == write.phase \in {"answered", "dropping", "dropped", "recorded"}

\* Nothing told, folded or answered is ahead of the far node.
Behind ==
    /\ folded <= far.n
    /\ \A i \in DOMAIN wire : wire[i].row.n <= far.n
    /\ relay.phase # "idle" => relay.ev.row.n <= far.n
    /\ Owing => write.row \in Row /\ write.row.n \in 1..far.n /\ write.row.text <= far.text
    /\ own <= far.text

\* A fold of place p, or of none, with commit n, is about to be written.
Folding(p, n) ==
    \/ relay.phase = "recorded" /\ relay.ev.row.n = n
       /\ p = (IF relay.ev.kind = "changed" THEN relay.ev.row.place ELSE Gone)
    \/ write.phase = "recorded" /\ write.row.n = n /\ p = write.row.place

\* An answer no fold has overtaken is as new as the folds it would undo.
AheadOfFolds ==
    \A r \in Readers : reads[r].phase = "answered" =>
        /\ "tile" \notin reads[r].touched =>
               /\ folded <= reads[r].got.n
               /\ \A p \in Grids \cup {Gone}, n \in Nat : Folding(p, n) => n <= reads[r].got.n
        /\ \A p \in Grids \ reads[r].touched : reads[r].what = p =>
               /\ tile.place = p => folded <= reads[r].got.n
               /\ \A n \in Nat : Folding(p, n) => n <= reads[r].got.n

\* A body no fold has overtaken has the user's edits.
BodiesNew ==
    /\ body # 0 => own <= body
    /\ \A r \in Readers : reads[r].phase = "answered" /\ "tile" \notin reads[r].touched =>
           /\ own <= reads[r].got.text
           /\ write.phase = "dropping" => write.row.text <= reads[r].got.text

\* The event that says how the tile is now.
Says(e, f) == e.row = f /\ e.kind = (IF f.place = Gone THEN "removed" ELSE "changed")
IsLast(e)  == Says(e, far)
LastOnWire == \E i \in DOMAIN wire : IsLast(wire[i])
LastComing == LastOnWire \/ (relay.phase = "recorded" /\ IsLast(relay.ev))

\* The last event about the tile closes the row of them in a queue.
InOrder(q, f) ==
    /\ \A i \in DOMAIN q : q[i].kind # "grid" => \E j \in DOMAIN q : i <= j /\ Says(q[j], f)
    /\ \A i, j \in DOMAIN q : Says(q[i], f) /\ i < j => q[j].kind = "grid"
    /\ \A i \in DOMAIN q : q[i].kind = "removed" => q[i].grid # f.place

RelayOrdered ==
    relay.phase = "recorded" =>
        IF IsLast(relay.ev) THEN \A i \in DOMAIN wire : wire[i].kind = "grid" ELSE LastOnWire

\* An answer is the tile as it is, or is overtaken.
AnswersNow ==
    \A r \in Readers : reads[r].phase = "answered" =>
        reads[r].got = far \/ LastOnWire \/ FoldKeys(far) \subseteq reads[r].touched

Matches(g) == IF far.place = g THEN tile = far ELSE tile.place # g
RowsMatch  == LastComing \/ \A g \in Grids : Cached(g) => Matches(g)

Ordered ==
    /\ open \/ wire = <<>>
    /\ "coalesced" \notin excuse => InOrder(wire, far)
    /\ {"coalesced", "lost"} \cap excuse = {} => RelayOrdered /\ AnswersNow
    /\ excuse = {} => RowsMatch

\* An event about the grid is on its way to the client.
CueComing(g) == relay.ev.grid = g \/ \E i \in DOMAIN wire : wire[i].grid = g
Now(g) == Listed(far, farList[g], g)
Hears(g) == ~open \/ cued[g] \/ CueComing(g)

\* What the user's read of g brings, and what came to be cached meanwhile.
UserReadKnown ==
    \A g \in Grids : reads["user"].what = g =>
        /\ Cached(g) => cued[g] \/ g \in silent
        /\ reads["user"].phase = "answered" =>
               Hears(g) \/ Listed(reads["user"].got, reads["user"].list, g) = Now(g)

ServedKnown ==
    \A g \in Grids \ silent : reads["user"].what # g /\ served[g] # Never =>
        \/ Hears(g)
        \/ served[g] = CachedListing(g)
        \/ ~Cached(g) /\ (excuse = {} => served[g] = Now(g))

Announcing == excuse \subseteq {"lost"} => UserReadKnown /\ ServedKnown

----------------------------------------------------------------------------
(***************************************************************************)
(* The types.                                                              *)
(***************************************************************************)

\* No row is told apart from every row there is.
LEMMA RowTypes ==
    /\ \A r \in Row : /\ r.place \in Grids \cup {Gone} /\ r.text \in 1..MaxText /\ r.n \in Nat
                      /\ r # NoRow
    /\ NoRow.place = Gone /\ NoRow.text = 0 /\ NoRow.n = 0
BY CacheAssumption DEF Row, NoRow, CacheAssumption

\* What an event holds.
LEMMA EventTypes ==
    /\ \A e \in Event : /\ e.kind \in {"changed", "removed", "grid"} /\ e.grid \in Grids
                        /\ e.kind = "grid" => e.row = NoRow
                        /\ e.kind # "grid" => e.row \in Row
                        /\ e.row.n \in Nat
    /\ \A g \in Grids, s \in Row :
           /\ [kind |-> "changed", grid |-> g, row |-> s] \in Event
           /\ [kind |-> "removed", grid |-> g, row |-> s] \in Event
    /\ \A g \in Grids : [kind |-> "grid", grid |-> g, row |-> NoRow] \in Event
<1>1. \A e \in Event : e.kind = "grid" \/ e \in [kind : {"changed", "removed"}, grid : Grids, row : Row]
  BY DEF Event
<1>2. \A e \in Event : e.kind = "grid" => e \in [kind : {"grid"}, grid : Grids, row : {NoRow}]
  BY DEF Event
<1>3. \A e \in Event : e.row \in Row \/ e.row = NoRow
  BY <1>1, <1>2
<1>4. \A e \in Event : e.row.n \in Nat
  BY <1>3, RowTypes
<1>5. \A e \in Event : e.kind \in {"changed", "removed", "grid"} /\ e.grid \in Grids
  BY <1>1, <1>2
<1>6. \A g \in Grids, s \in Row : /\ [kind |-> "changed", grid |-> g, row |-> s] \in Event
                                  /\ [kind |-> "removed", grid |-> g, row |-> s] \in Event
  BY DEF Event
<1>7. \A g \in Grids : [kind |-> "grid", grid |-> g, row |-> NoRow] \in Event
  BY DEF Event
<1>8. QED
  BY <1>1, <1>2, <1>4, <1>5, <1>6, <1>7

\* An idle read, and one that begins, are reads.
LEMMA ReadTypes ==
    /\ Idle \in Read
    /\ \A what \in Grids \cup {"tile", "body"} :
           /\ [Idle EXCEPT !.phase = "asked", !.what = what] \in Read
           /\ [Idle EXCEPT !.phase = "spawned", !.what = what] \in Read
<1>1. 0 \in 0..MaxList /\ Never \in Listing \cup {Never} /\ NoRow \in Row \cup {NoRow}
  BY CacheAssumption DEF CacheAssumption
<1>2. Idle \in Read
  BY <1>1 DEF Idle, Read
<1>3. QED
  BY <1>2 DEF Read

\* A queue names each entity once.
Unique(q) == \A i \in DOMAIN q : Pending(q, q[i]) = {i}

\* An event put in a queue is added at its end, or takes the place of the one
\* with its key.
LEMMA PutSays ==
    ASSUME NEW q \in Seq(Event), NEW e \in Event, Unique(q)
    PROVE  /\ Put(q, e) \in Seq(Event) /\ Unique(Put(q, e))
           /\ \/ Pending(q, e) = {} /\ Put(q, e) = Append(q, e)
              \/ \E i \in 1..Len(q) :
                    /\ Pending(q, e) = {i} /\ EventKey(q[i]) = EventKey(e)
                    /\ Len(Put(q, e)) = Len(q) /\ Put(q, e)[i] = e
                    /\ \A j \in 1..Len(q) : j # i => Put(q, e)[j] = q[j]
<1>1. CASE Pending(q, e) = {}
  <2>1. Put(q, e) = Append(q, e) /\ Append(q, e) \in Seq(Event) /\ Len(Append(q, e)) = Len(q) + 1
        /\ Append(q, e)[Len(q) + 1] = e /\ (\A j \in 1..Len(q) : Append(q, e)[j] = q[j])
        /\ DOMAIN Append(q, e) = 1..(Len(q) + 1) /\ DOMAIN q = 1..Len(q)
    BY <1>1 DEF Put
  <2>2. \A j \in 1..Len(q) : EventKey(q[j]) # EventKey(e)
    BY <1>1 DEF Pending
  <2>3. ASSUME NEW j \in 1..(Len(q) + 1) PROVE Pending(Append(q, e), Append(q, e)[j]) = {j}
    <3>1. CASE j = Len(q) + 1
      BY <2>1, <2>2, <3>1 DEF Pending
    <3>2. CASE j \in 1..Len(q)
      <4>1. Pending(q, q[j]) = {j}
        BY <3>2 DEF Unique
      <4>2. QED
        BY <2>1, <2>2, <3>2, <4>1 DEF Pending
    <3>3. QED
      BY <3>1, <3>2
  <2>4. QED
    BY <1>1, <2>1, <2>3 DEF Unique
<1>2. CASE Pending(q, e) # {}
  <2>1. PICK i \in 1..Len(q) : EventKey(q[i]) = EventKey(e)
    BY <1>2 DEF Pending
  <2>2. Pending(q, q[i]) = {i} /\ Pending(q, q[i]) = Pending(q, e)
    BY <2>1 DEF Unique, Pending
  <2>3. Put(q, e) = [j \in DOMAIN q |-> IF j \in Pending(q, e) THEN e ELSE q[j]]
    BY <1>2 DEF Put
  <2>4. /\ Put(q, e) \in Seq(Event) /\ Len(Put(q, e)) = Len(q) /\ Put(q, e)[i] = e
        /\ DOMAIN Put(q, e) = 1..Len(q)
        /\ \A j \in 1..Len(q) : j # i => Put(q, e)[j] = q[j]
    <3>1. Put(q, e) = [j \in 1..Len(q) |-> IF j = i THEN e ELSE q[j]]
      BY <2>2, <2>3
    <3>2. \A j \in 1..Len(q) : q[j] \in Event
      OBVIOUS
    <3>3. Put(q, e) \in [1..Len(q) -> Event] /\ Len(q) \in Nat
      BY <3>1, <3>2
    <3>4. Put(q, e) \in Seq(Event) /\ Len(Put(q, e)) = Len(q)
      BY <3>3
    <3>5. QED
      BY <3>1, <3>4
  <2>5. \A j \in 1..Len(q) : EventKey(Put(q, e)[j]) = EventKey(q[j])
    BY <2>1, <2>4
  <2>6. ASSUME NEW j \in 1..Len(q) PROVE Pending(Put(q, e), Put(q, e)[j]) = {j}
    <3>1. Pending(Put(q, e), Put(q, e)[j]) = Pending(q, q[j])
      BY <2>4, <2>5 DEF Pending
    <3>2. QED
      BY <3>1 DEF Unique
  <2>7. QED
    BY <2>1, <2>2, <2>4, <2>6 DEF Unique
<1>3. QED
  BY <1>1, <1>2

\* The two events a write of the tile tells.
Arrives(s)   == [kind |-> "changed", grid |-> s.place, row |-> s]
Leaves(p, s) == [kind |-> "removed", grid |-> p, row |-> s]

\* One event told.
LEMMA TellOne ==
    ASSUME NEW e, Tell(<<e>>)
    PROVE  /\ ~open => wire' = wire /\ excuse' = excuse \cup {"lost"}
           /\ open => /\ wire' = Put(wire, e)
                      /\ excuse' = IF Overtakes(wire, e) THEN excuse \cup {"coalesced"} ELSE excuse
<1>1. Len(<<e>>) = 1 /\ <<e>>[1] = e
  OBVIOUS
<1>2. QED
  BY <1>1 DEF Tell

\* What the stream is told of a write: one event, or the two of a move.
LEMMA CommitSays ==
    ASSUME TypeOK, NEW s \in Row, far.place # Gone, Commit(s)
    PROVE  /\ far' \in Row /\ far'.place = s.place /\ far'.text = s.text /\ far'.n = far.n + 1
           /\ Leaves(far.place, far') \in Event
           /\ far'.place # Gone => Arrives(far') \in Event
           /\ wire' \in Seq(Event) /\ Unique(wire')
           /\ excuse \subseteq excuse' /\ excuse' \subseteq excuse \cup {"lost", "coalesced"}
           /\ ~open => wire' = wire /\ excuse' = excuse \cup {"lost"}
           /\ open /\ "lost" \in excuse' => "lost" \in excuse
           /\ open /\ far'.place = far.place =>
                  /\ wire' = Put(wire, Arrives(far'))
                  /\ Overtakes(wire, Arrives(far')) => "coalesced" \in excuse'
           /\ open /\ far'.place = Gone => wire' = Put(wire, Leaves(far.place, far'))
           /\ open /\ far'.place \notin {far.place, Gone} =>
                  /\ Put(wire, Leaves(far.place, far')) \in Seq(Event)
                  /\ Unique(Put(wire, Leaves(far.place, far')))
                  /\ wire' = Put(Put(wire, Leaves(far.place, far')), Arrives(far'))
                  /\ Overtakes(Put(wire, Leaves(far.place, far')), Arrives(far'))
                         => "coalesced" \in excuse'
<1>0. far \in Row /\ far' = [s EXCEPT !.n = far.n + 1] /\ wire \in Seq(Event)
  BY DEF Commit, TypeOK
<1>1. /\ far' \in Row /\ far'.place = s.place
      /\ far'.text = s.text /\ far'.n = far.n + 1 /\ far.place \in Grids
      /\ far'.place \in Grids \cup {Gone}
  BY <1>0 DEF Row
<1>2. /\ Leaves(far.place, far') \in Event
      /\ far'.place # Gone => Arrives(far') \in Event
  BY <1>1, EventTypes DEF Leaves, Arrives
<1>3. Unique(wire) /\ wire \in Seq(Event)
  BY DEF Unique, TypeOK
<1>4. /\ far'.place = far.place => Told(far, far') = <<Arrives(far')>>
      /\ far'.place = Gone => Told(far, far') = <<Leaves(far.place, far')>>
      /\ far'.place \notin {far.place, Gone} =>
             Told(far, far') = <<Leaves(far.place, far'), Arrives(far')>>
  BY <1>1 DEF Told, Leaves, Arrives
<1>5. Tell(Told(far, far'))
  BY DEF Commit
<1>6. CASE ~open
  BY <1>1, <1>2, <1>3, <1>5, <1>6 DEF Tell
<1>7. CASE open /\ far'.place = far.place
  <2>1. /\ wire' = Put(wire, Arrives(far'))
        /\ excuse' = IF Overtakes(wire, Arrives(far')) THEN excuse \cup {"coalesced"} ELSE excuse
    BY <1>4, <1>5, <1>7, TellOne
  <2>a. Arrives(far') \in Event
    BY <1>1, <1>2, <1>7
  <2>2. wire' \in Seq(Event) /\ Unique(wire')
    BY <1>3, <2>1, <2>a, PutSays
  <2>3. QED
    BY <1>1, <1>2, <1>7, <2>1, <2>2
<1>8. CASE open /\ far'.place = Gone
  <2>1. /\ wire' = Put(wire, Leaves(far.place, far'))
        /\ excuse' \in {excuse \cup {"coalesced"}, excuse}
    BY <1>1, <1>4, <1>5, <1>8, TellOne
  <2>2. wire' \in Seq(Event) /\ Unique(wire')
    BY <1>2, <1>3, <2>1, PutSays
  <2>3. QED
    BY <1>1, <1>2, <1>8, <2>1, <2>2
<1>9. CASE open /\ far'.place \notin {far.place, Gone}
  <2> DEFINE q == Put(wire, Leaves(far.place, far'))
  <2>1. q \in Seq(Event) /\ Unique(q)
    BY <1>2, <1>3, PutSays
  <2>2. Told(far, far') = <<Leaves(far.place, far'), Arrives(far')>>
    BY <1>4, <1>9
  <2>3. /\ wire' = Put(q, Arrives(far'))
        /\ excuse' = IF Overtakes(q, Arrives(far')) THEN excuse \cup {"coalesced"} ELSE excuse
    BY <1>5, <1>9, <2>2 DEF Tell
  <2> HIDE DEF q
  <2>4. wire' \in Seq(Event) /\ Unique(wire')
    BY <1>2, <1>9, <2>1, <2>3, PutSays
  <2>5. /\ wire' = Put(Put(wire, Leaves(far.place, far')), Arrives(far'))
        /\ Overtakes(Put(wire, Leaves(far.place, far')), Arrives(far')) => "coalesced" \in excuse'
        /\ Put(wire, Leaves(far.place, far')) \in Seq(Event)
        /\ Unique(Put(wire, Leaves(far.place, far')))
    BY <2>1, <2>3 DEF q
  <2>6. excuse \subseteq excuse' /\ excuse' \subseteq excuse \cup {"coalesced"}
    BY <2>3
  <2>7. QED
    BY <1>1, <1>2, <1>9, <2>4, <2>5, <2>6
<1>10. QED
  BY <1>1, <1>6, <1>7, <1>8, <1>9

\* The events told of a grid alone.
LEMMA RelistSays ==
    ASSUME TypeOK, NEW g \in Grids, FarRelists(g)
    PROVE  LET e == [kind |-> "grid", grid |-> g, row |-> NoRow] IN
           /\ e \in Event /\ wire' \in Seq(Event) /\ Unique(wire')
           /\ excuse \subseteq excuse' /\ excuse' \subseteq excuse \cup {"lost", "coalesced"}
           /\ farList' = [farList EXCEPT ![g] = @ + 1] /\ farList' \in [Grids -> 0..MaxList]
           /\ ~open => wire' = wire /\ "lost" \in excuse'
           /\ open => wire' = Put(wire, e) /\ ("lost" \in excuse' => "lost" \in excuse)
<1> DEFINE e == [kind |-> "grid", grid |-> g, row |-> NoRow]
<1>1. e \in Event
  BY EventTypes
<1>2. Tell(<<e>>)
  BY DEF FarRelists
<1> HIDE DEF e
<1>3. /\ ~open => wire' = wire /\ excuse' = excuse \cup {"lost"}
      /\ open => wire' = Put(wire, e) /\ excuse' \in {excuse \cup {"coalesced"}, excuse}
  BY <1>2, TellOne
<1>4. wire \in Seq(Event) /\ Unique(wire)
  BY DEF TypeOK, Unique
<1>5. wire' \in Seq(Event) /\ Unique(wire')
  BY <1>1, <1>3, <1>4, PutSays
<1>6. farList' = [farList EXCEPT ![g] = @ + 1] /\ farList' \in [Grids -> 0..MaxList]
  <2>1. farList' = [farList EXCEPT ![g] = @ + 1] /\ farList[g] < MaxList
    BY DEF FarRelists
  <2>2. farList \in [Grids -> 0..MaxList] /\ MaxList \in Nat
    BY CacheAssumption DEF TypeOK, CacheAssumption
  <2>3. QED
    BY <2>1, <2>2
<1>7. /\ e \in Event /\ wire' \in Seq(Event) /\ Unique(wire')
      /\ excuse \subseteq excuse' /\ excuse' \subseteq excuse \cup {"lost", "coalesced"}
      /\ farList' = [farList EXCEPT ![g] = @ + 1] /\ farList' \in [Grids -> 0..MaxList]
      /\ ~open => wire' = wire /\ "lost" \in excuse'
      /\ open => wire' = Put(wire, e) /\ ("lost" \in excuse' => "lost" \in excuse)
  BY <1>1, <1>3, <1>5, <1>6
<1>8. QED
  BY <1>7 DEF e

\* What a fold's record changes in the reads in flight.
LEMMA RecordSays ==
    ASSUME TypeOK, NEW keys \in SUBSET Keys, Record(keys)
    PROVE  /\ reads' \in [Readers -> Read]
           /\ \A r \in Readers :
                 /\ reads'[r].phase = reads[r].phase /\ reads'[r].what = reads[r].what
                 /\ reads'[r].got = reads[r].got /\ reads'[r].list = reads[r].list
                 /\ reads'[r].old = reads[r].old
                 /\ reads[r].phase \in {"asked", "answered", "refused"} =>
                        reads'[r].touched = reads[r].touched \cup keys
                 /\ reads[r].phase \notin {"asked", "answered", "refused"} => reads'[r] = reads[r]
<1>1. \A r \in Readers : reads[r] \in Read
  BY DEF TypeOK
<1>2. ASSUME NEW r \in Readers
      PROVE  /\ [reads[r] EXCEPT !.touched = @ \cup keys] \in Read
             /\ [reads[r] EXCEPT !.touched = @ \cup keys].phase = reads[r].phase
             /\ [reads[r] EXCEPT !.touched = @ \cup keys].what = reads[r].what
             /\ [reads[r] EXCEPT !.touched = @ \cup keys].got = reads[r].got
             /\ [reads[r] EXCEPT !.touched = @ \cup keys].list = reads[r].list
             /\ [reads[r] EXCEPT !.touched = @ \cup keys].old = reads[r].old
             /\ [reads[r] EXCEPT !.touched = @ \cup keys].touched = reads[r].touched \cup keys
  BY <1>1 DEF Read
<1>3. \A r \in Readers : reads'[r] = IF r \in InFlight THEN [reads[r] EXCEPT !.touched = @ \cup keys]
                                     ELSE reads[r]
  BY DEF Record
<1>4. reads' \in [Readers -> Read]
  BY <1>1, <1>2 DEF Record
<1>5. \A r \in Readers : r \in InFlight <=> reads[r].phase \in {"asked", "answered", "refused"}
  BY DEF InFlight
<1>6. QED
  BY <1>2, <1>3, <1>4, <1>5

\* What a fold records.
LEMMA FoldKeysType ==
    /\ \A row : FoldKeys(row) \in SUBSET Keys
    /\ FoldKeys(NoRow) = {"tile"}
BY CacheAssumption DEF FoldKeys, Keys, NoRow, CacheAssumption

----------------------------------------------------------------------------
(***************************************************************************)
(* Every step keeps the types, who reads what, and what events say.        *)
(***************************************************************************)

ReadsOK == /\ reads \in [Readers -> Read]
           /\ \A r \in Readers : reads[r].phase = "idle" => reads[r] = Idle
           /\ Assigned
RowsOK  == /\ tile \in Row \cup {NoRow} /\ grids \in [Grids -> -1..MaxList] /\ body \in 0..MaxText
WireOK  == /\ wire \in Seq(Event) /\ Unique(wire)
           /\ \A i \in DOMAIN wire : wire[i].kind = "changed" => wire[i].grid = wire[i].row.place
RelayOK == /\ relay \in {Quiet} \cup [phase : {"recorded", "written"}, ev : Event]
           /\ relay.phase = "recorded" => relay.ev.kind # "grid"
           /\ relay.phase # "idle" /\ relay.ev.kind = "changed" => relay.ev.grid = relay.ev.row.place
FarOK   == far \in Row /\ farList \in [Grids -> 0..MaxList]
WriteOK == write \in [phase : {"idle", "sent", "answered", "dropping", "dropped", "recorded"},
                      row : Row \cup {NoRow}, edit : BOOLEAN]
CuesOK  == served \in [Grids -> Listing \cup {Never}] /\ cued \in [Grids -> BOOLEAN]
FlagsOK == open \in BOOLEAN /\ dark \in BOOLEAN
CountsOK == faults \in 0..MaxFaults /\ spent \in 0..MaxReads
PastOK  == /\ own \in 0..MaxText /\ folded \in Nat /\ silent \subseteq Grids
           /\ excuse \subseteq {"lost", "coalesced", "late answer"}

Typed == /\ ReadsOK /\ RowsOK /\ WireOK /\ RelayOK /\ FarOK /\ WriteOK
         /\ CuesOK /\ FlagsOK /\ CountsOK /\ PastOK

\* The parts are the whole.
LEMMA TypedIs == Typed <=> TypeOK /\ Assigned /\ Spoken
BY DEF Typed, TypeOK, Spoken, Unique, ReadsOK, RowsOK, WireOK, RelayOK, FarOK, WriteOK,
       CuesOK, FlagsOK, CountsOK, PastOK

\* The readers are told apart.
LEMMA ReadersApart ==
    /\ "user" \in Readers \ Grids /\ "walk" \in Readers \ Grids /\ Grids \subseteq Readers
    /\ "user" # "walk" /\ "tile" \notin Grids /\ "body" \notin Grids
    /\ NoRead \notin Grids \cup {"tile", "body"} /\ Gone \notin Grids
BY CacheAssumption DEF CacheAssumption, Readers

\* A read that begins is the one asked for.
LEMMA BeginsOK ==
    ASSUME ReadsOK, NEW r \in Readers, NEW what \in Grids \cup {"tile", "body"},
           r \in Grids => what = r, reads' = Begins(r, what)
    PROVE  ReadsOK'
<1>1. [Idle EXCEPT !.phase = "asked", !.what = what] \in Read
  BY ReadTypes
<1>2. /\ [Idle EXCEPT !.phase = "asked", !.what = what].phase = "asked"
      /\ [Idle EXCEPT !.phase = "asked", !.what = what].what = what
  BY DEF Idle
<1>3. what # NoRead
  BY ReadersApart
<1> DEFINE new == [Idle EXCEPT !.phase = "asked", !.what = what]
<1>4. reads' = [reads EXCEPT ![r] = new]
  BY DEF Begins
<1>5. new \in Read /\ new.phase = "asked" /\ new.what = what
  BY <1>1, <1>2
<1> HIDE DEF new
<1>6. QED
  BY <1>3, <1>4, <1>5, ReadersApart DEF ReadsOK, Assigned

\* A read that ends is idle.
LEMMA EndsOK ==
    ASSUME ReadsOK, NEW r \in Readers, Ends(r)
    PROVE  ReadsOK'
<1>1. Idle \in Read /\ Idle.phase = "idle"
  BY ReadTypes DEF Idle
<1>2. QED
  BY <1>1 DEF Ends, ReadsOK, Assigned

\* What a fold records changes no read but what touches it.
LEMMA RecordOK ==
    ASSUME Typed, NEW keys \in SUBSET Keys, Record(keys)
    PROVE  ReadsOK'
<1>1. /\ reads' \in [Readers -> Read]
      /\ \A r \in Readers :
            /\ reads'[r].phase = reads[r].phase /\ reads'[r].what = reads[r].what
            /\ reads'[r].got = reads[r].got
            /\ reads[r].phase \notin {"asked", "answered", "refused"} => reads'[r] = reads[r]
  BY TypedIs, RecordSays
<1>2. ReadsOK
  BY DEF Typed
<1>3. QED
  BY <1>1, <1>2, ReadersApart DEF ReadsOK, Assigned

\* What a read holds.
LEMMA ReadFields ==
    ASSUME ReadsOK, NEW r \in Readers
    PROVE  /\ reads[r].phase \in {"idle", "spawned", "asked", "answered", "refused"}
           /\ reads[r].what \in Grids \cup {"tile", "body", NoRead}
           /\ reads[r].touched \in SUBSET Keys /\ reads[r].list \in 0..MaxList
           /\ reads[r].got \in Row \cup {NoRow} /\ reads[r].old \in Listing \cup {Never}
BY DEF ReadsOK, Read

\* Writing the rows of a grid, or of a tile, leaves rows.
LEMMA StoreGridOK ==
    ASSUME RowsOK, NEW g \in Grids, NEW row \in Row \cup {NoRow}, NEW list \in 0..MaxList,
           StoreGrid(g, row, list)
    PROVE  RowsOK'
BY CacheAssumption DEF RowsOK, StoreGrid, Kept, CacheAssumption

\* The same of dropping a grid's rows.
LEMMA EvictGridOK ==
    ASSUME RowsOK, NEW g \in Grids, EvictGrid(g)
    PROVE  RowsOK'
BY CacheAssumption DEF RowsOK, EvictGrid, Kept, CacheAssumption

\* The same of a fold.
LEMMA FoldRowOK ==
    ASSUME RowsOK, NEW row \in Row \cup {NoRow}, FoldRow(row)
    PROVE  RowsOK' /\ folded' \in Nat
<1>1. row.n \in Nat
  BY RowTypes
<1>2. CASE row.place = Gone
  BY <1>1, <1>2, CacheAssumption DEF RowsOK, FoldRow, DeleteTile, Kept, CacheAssumption
<1>3. CASE row.place # Gone
  BY <1>1, <1>3 DEF RowsOK, FoldRow, UpsertTile
<1>4. QED
  BY <1>2, <1>3

\* The same of an answer.
LEMMA InstallOK ==
    ASSUME ReadsOK, RowsOK, NEW r \in Readers, reads[r].phase = "answered", Install(r)
    PROVE  RowsOK'
<1>1. /\ reads[r].what \in Grids \cup {"tile", "body"} /\ reads[r].got \in Row
      /\ reads[r].list \in 0..MaxList
  BY ReadFields DEF ReadsOK, Assigned
<1>2. CASE UNCHANGED rowVars
  BY <1>2 DEF rowVars, RowsOK
<1>3. CASE reads[r].what \in Grids /\ StoreGrid(reads[r].what, reads[r].got, reads[r].list)
  BY <1>1, <1>3, StoreGridOK
<1>4. CASE UpsertTile(reads[r].got)
  BY <1>1, <1>4 DEF UpsertTile, RowsOK
<1>5. CASE body' = reads[r].got.text /\ UNCHANGED <<tile, grids>>
  <2>1. reads[r].got.text \in 0..MaxText
    BY <1>1, RowTypes, CacheAssumption DEF CacheAssumption
  <2>2. QED
    BY <1>5, <2>1 DEF RowsOK
<1>6. QED
  BY <1>1, <1>2, <1>3, <1>4, <1>5, ReadersApart DEF Install

\* What a grid lists.
LEMMA ListedType ==
    ASSUME NEW row \in Row \cup {NoRow}, NEW list \in 0..MaxList, NEW g
    PROVE  Listed(row, list, g) \in Listing
<1>1. row.text \in 0..MaxText /\ 0 \in 0..MaxText
  BY RowTypes, CacheAssumption DEF CacheAssumption
<1>2. QED
  BY <1>1 DEF Listed, Listing

\* The same of what the cache lists.
LEMMA CachedType ==
    ASSUME RowsOK, NEW g \in Grids
    PROVE  /\ CachedListing(g) \in Listing \cup {Never}
           /\ Cached(g) => CachedListing(g) \in Listing /\ CachedListing(g) # Never
<1>1. tile.text \in 0..MaxText /\ 0 \in 0..MaxText
  BY RowTypes, CacheAssumption DEF CacheAssumption, RowsOK
<1>2. Cached(g) => grids[g] \in 0..MaxList
  BY DEF RowsOK, Cached
<1>3. Cached(g) => CachedListing(g) \in Listing
  BY <1>1, <1>2 DEF CachedListing, Listing
<1>4. \A l \in Listing : l # Never
  BY DEF Listing, Never
<1>5. QED
  BY <1>3, <1>4 DEF CachedListing

\* A cue says of each grid whether it has been told.
LEMMA CueOK ==
    ASSUME CuesOK, NEW gs, Cue(gs)
    PROVE  cued' \in [Grids -> BOOLEAN]
BY DEF CuesOK, Cue

\* What a write of the tile leaves of the stream and of the far node.
LEMMA CommitOK ==
    ASSUME Typed, far.place # Gone, NEW s \in Row, Commit(s), UNCHANGED <<farList, own, folded, silent>>
    PROVE  FarOK' /\ WireOK' /\ PastOK'
<1>1. TypeOK
  BY TypedIs
<1>2. FarOK' /\ PastOK'
  BY <1>1, CommitSays DEF Typed, FarOK, PastOK
<1>3. WireOK'
  <2>1. WireOK /\ wire' \in Seq(Event) /\ Unique(wire') /\ wire \in Seq(Event)
    BY <1>1, CommitSays DEF Typed, WireOK
  <2> DEFINE Named(q) == \A i \in DOMAIN q : q[i].kind = "changed" => q[i].grid = q[i].row.place
  <2>2. ASSUME NEW q \in Seq(Event), Unique(q), Named(q), NEW e \in Event,
               e.kind = "changed" => e.grid = e.row.place
        PROVE  Named(Put(q, e))
    <3>1. \/ Put(q, e) = Append(q, e)
          \/ \E i \in 1..Len(q) : /\ Len(Put(q, e)) = Len(q) /\ Put(q, e)[i] = e
                                  /\ \A j \in 1..Len(q) : j # i => Put(q, e)[j] = q[j]
      BY <2>2, PutSays
    <3>2. Put(q, e) \in Seq(Event)
      BY <2>2, PutSays
    <3> DEFINE p == Put(q, e)
    <3>3. /\ p \in Seq(Event)
          /\ \/ p = Append(q, e)
             \/ \E i \in 1..Len(q) : /\ Len(p) = Len(q) /\ p[i] = e
                                     /\ \A j \in 1..Len(q) : j # i => p[j] = q[j]
      BY <3>1, <3>2
    <3> HIDE DEF p
    <3>4. Named(p)
      BY <2>2, <3>3
    <3>5. QED
      BY <3>4 DEF p
  <2>3. Named(wire)
    BY <2>1 DEF WireOK
  <2>4. /\ Leaves(far.place, far').kind = "removed"
        /\ Arrives(far').grid = Arrives(far').row.place
    BY DEF Leaves, Arrives
  <2> HIDE DEF Named
  <2>5. Named(wire')
    <3>1. CASE ~open
      BY <1>1, <2>3, <3>1, CommitSays
    <3>2. CASE open /\ far'.place = far.place
      BY <1>1, <2>1, <2>2, <2>3, <2>4, <3>2, CommitSays DEF WireOK
    <3>3. CASE open /\ far'.place = Gone
      BY <1>1, <2>1, <2>2, <2>3, <2>4, <3>3, CommitSays DEF WireOK
    <3>4. CASE open /\ far'.place \notin {far.place, Gone}
      <4>1. Named(Put(wire, Leaves(far.place, far')))
        BY <1>1, <2>1, <2>2, <2>3, <2>4, CommitSays DEF WireOK
      <4>2. QED
        BY <1>1, <2>2, <2>4, <3>4, <4>1, CommitSays
    <3>5. QED
      BY <3>1, <3>2, <3>3, <3>4
  <2>6. QED
    BY <2>1, <2>5 DEF WireOK, Named
<1>4. QED
  BY <1>2, <1>3

\* What a user and another client may write is a row.
LEMMA WrittenRows ==
    ASSUME FarOK
    PROVE  /\ \A p \in Grids \cup {Gone} : [far EXCEPT !.place = p] \in Row
           /\ far.text < MaxText => [far EXCEPT !.text = @ + 1] \in Row
BY CacheAssumption DEF FarOK, Row, CacheAssumption

\* The types hold at the start.
LEMMA InitTyped == Init => Typed
<1> SUFFICES ASSUME Init PROVE Typed
  OBVIOUS
<1>1. ReadsOK
  <2>1. Idle \in Read /\ Idle.phase = "idle"
    BY ReadTypes DEF Idle
  <2>2. reads = [r \in Readers |-> Idle]
    BY DEF Init
  <2>3. QED
    BY <2>1, <2>2, ReadersApart DEF ReadsOK, Assigned
<1>2. RowsOK
  <2>1. MaxText \in Nat /\ MaxList \in Nat
    BY CacheAssumption DEF CacheAssumption
  <2>2. 0 \in 0..MaxText /\ -1 \in -1..MaxList
    BY <2>1
  <2>3. tile = NoRow /\ grids = [g \in Grids |-> -1] /\ body = 0
    BY DEF Init
  <2>4. grids \in [Grids -> -1..MaxList]
    BY <2>2, <2>3
  <2>5. tile \in Row \cup {NoRow} /\ body \in 0..MaxText
    BY <2>2, <2>3
  <2>6. QED
    BY <2>4, <2>5 DEF RowsOK
<1>c. PastOK
  BY CacheAssumption DEF Init, PastOK, CacheAssumption
<1>a. CuesOK /\ FlagsOK
  BY DEF Init, CuesOK, FlagsOK
<1>d. CountsOK
  BY CacheAssumption DEF Init, CountsOK, CacheAssumption
<1>b. WriteOK
  BY DEF Init, WriteOK
<1>3. WireOK
  BY DEF Init, WireOK, Unique
<1>4. FarOK
  BY CacheAssumption DEF Init, FarOK, Row, CacheAssumption
<1>5. RelayOK
  BY DEF Init, RelayOK, Quiet
<1>6. QED
  BY <1>1, <1>2, <1>c, <1>a, <1>d, <1>b, <1>3, <1>4, <1>5 DEF Typed

\* A step that leaves a part's variables leaves the part.
LEMMA Untouched ==
    /\ ReadsOK /\ UNCHANGED reads => ReadsOK'
    /\ RowsOK /\ UNCHANGED <<tile, grids, body>> => RowsOK'
    /\ WireOK /\ UNCHANGED wire => WireOK'
    /\ RelayOK /\ UNCHANGED relay => RelayOK'
    /\ FarOK /\ UNCHANGED <<far, farList>> => FarOK'
    /\ WriteOK /\ UNCHANGED write => WriteOK'
    /\ CuesOK /\ UNCHANGED <<served, cued>> => CuesOK'
    /\ FlagsOK /\ UNCHANGED <<open, dark>> => FlagsOK'
    /\ CountsOK /\ UNCHANGED <<faults, spent>> => CountsOK'
    /\ PastOK /\ UNCHANGED <<own, folded, silent, excuse>> => PastOK'
BY DEF ReadsOK, RowsOK, WireOK, RelayOK, FarOK, WriteOK, CuesOK, FlagsOK, CountsOK, PastOK,
       Assigned, Unique

\* A fault, and the user's work, are counted.
LEMMA Counting ==
    /\ CountsOK /\ faults < MaxFaults /\ faults' = faults + 1 /\ UNCHANGED spent => CountsOK'
    /\ CountsOK /\ spent < MaxReads /\ spent' = spent + 1 /\ UNCHANGED faults => CountsOK'
BY CacheAssumption DEF CountsOK, CacheAssumption

\* The reads' steps keep the types.
LEMMA ReadStepsTyped ==
    ASSUME Typed, NEW r \in Readers,
           \/ FarAnswers(r) \/ FarRefuses(r) \/ Answered(r) \/ Refused(r) \/ NotHeard(r)
    PROVE  Typed'
<1> USE DEF Typed
<1>1. CASE FarAnswers(r)
  <2>1. FarOK /\ reads[r].phase = "asked" /\ reads[r].what # NoRead /\ reads[r] \in Read
    BY <1>1, ReadFields DEF FarAnswers, ReadsOK, Assigned
  <2> DEFINE ph == IF reads[r].what \in {"tile", "body"} /\ far.place = Gone
                   THEN "refused" ELSE "answered"
             ls == IF reads[r].what \in Grids THEN farList[reads[r].what] ELSE 0
             new == [reads[r] EXCEPT !.phase = ph, !.got = far, !.list = ls]
  <2>2. reads' = [reads EXCEPT ![r] = new]
    BY <1>1 DEF FarAnswers
  <2>3. ls \in 0..MaxList /\ ph \in {"refused", "answered"} /\ far \in Row
        /\ (ph = "answered" => ~(reads[r].what \in {"tile", "body"} /\ far.place = Gone))
    BY <2>1, CacheAssumption DEF FarOK, CacheAssumption
  <2> HIDE DEF ph, ls
  <2>4. new \in Read /\ new.phase = ph /\ new.got = far /\ new.what = reads[r].what
    BY <2>1, <2>3 DEF Read
  <2> HIDE DEF new
  <2>5. ReadsOK'
    BY <2>1, <2>2, <2>3, <2>4, ReadersApart DEF ReadsOK, Assigned
  <2>6. QED
    BY <1>1, <2>5, Untouched DEF FarAnswers, wireVars, farVars, rowVars, cueVars, histVars
<1>2. CASE FarRefuses(r)
  <2>1. ReadsOK'
    <3> DEFINE new == [reads[r] EXCEPT !.phase = "refused"]
    <3>1. reads' = [reads EXCEPT ![r] = new] /\ reads[r] \in Read /\ reads[r].phase = "asked"
      BY <1>2 DEF FarRefuses, ReadsOK
    <3>2. new \in Read /\ new.phase = "refused" /\ new.what = reads[r].what
      BY <3>1 DEF Read
    <3> HIDE DEF new
    <3>3. QED
      BY <3>1, <3>2, ReadersApart DEF ReadsOK, Assigned
  <2>2. CountsOK'
    BY <1>2, Counting DEF FarRefuses, FaultLeft
  <2>3. QED
    BY <1>2, <2>1, <2>2, Untouched DEF FarRefuses, wireVars, farVars, rowVars, cueVars, histVars
<1>3. CASE Answered(r)
  <2>1. ReadsOK'
    BY <1>3, EndsOK DEF Answered
  <2>2. RowsOK'
    BY <1>3, InstallOK DEF Answered
  <2>3. CuesOK'
    <3>1. cued' \in [Grids -> BOOLEAN]
      BY <1>3, CueOK DEF Answered
    <3>2. served' \in [Grids -> Listing \cup {Never}]
      <4>1. CASE served' = served
        BY <4>1 DEF CuesOK
      <4>2. CASE r = "user" /\ reads[r].what \in Grids
        <5>1. Listed(reads[r].got, reads[r].list, reads[r].what) \in Listing
          BY ReadFields, ListedType
        <5>2. QED
          BY <1>3, <4>2, <5>1 DEF Answered, Hands, CuesOK
      <4>3. QED
        BY <1>3, <4>1, <4>2 DEF Answered, Hands
    <3>3. QED
      BY <3>1, <3>2 DEF CuesOK
  <2>4. PastOK'
    <3>1. folded' \in Nat /\ own' = own /\ excuse' = excuse
      BY <1>3 DEF Answered, PastOK
    <3>2. silent' \subseteq Grids
      BY <1>3 DEF Answered, PastOK, Changed
    <3>3. QED
      BY <3>1, <3>2 DEF PastOK
  <2>5. FlagsOK'
    BY <1>3 DEF Answered, FlagsOK, wireVars
  <2>6. QED
    BY <1>3, <2>1, <2>2, <2>3, <2>4, <2>5, Untouched DEF Answered, wireVars, farVars
<1>4. CASE Refused(r)
  <2>1. ReadsOK'
    BY <1>4, EndsOK DEF Refused
  <2>2. RowsOK'
    <3>1. CASE r \in Grids
      BY <1>4, <3>1, EvictGridOK DEF Refused
    <3>2. CASE r \notin Grids
      BY <1>4, <3>2, Untouched DEF Refused, rowVars
    <3>3. QED
      BY <3>1, <3>2
  <2>3. CuesOK'
    BY <1>4, CueOK DEF Refused, Fails, CuesOK
  <2>4. FlagsOK'
    BY <1>4 DEF Refused, FlagsOK, wireVars
  <2>5. QED
    BY <1>4, <2>1, <2>2, <2>3, <2>4, Untouched DEF Refused, wireVars, farVars, histVars
<1>5. CASE NotHeard(r)
  <2>1. ReadsOK'
    BY <1>5, EndsOK DEF NotHeard
  <2>2. CuesOK'
    BY <1>5, CueOK DEF NotHeard, Fails, CuesOK
  <2>3. FlagsOK'
    BY <1>5 DEF NotHeard, FlagsOK, wireVars
  <2>4. CountsOK'
    BY <1>5, Counting DEF NotHeard, FaultLeft
  <2>5. QED
    BY <1>5, <2>1, <2>2, <2>3, <2>4, Untouched
       DEF NotHeard, wireVars, farVars, rowVars, histVars
<1>6. QED
  BY <1>1, <1>2, <1>3, <1>4, <1>5

\* So do those of the far node, its stream and the reads that begin.
LEMMA FarStepsTyped ==
    ASSUME Typed,
           \/ FarWrites \/ (\E g \in Grids : FarRelists(g)) \/ Break
           \/ (\E g \in Grids : Serve(g) \/ Miss(g) \/ Revalidate(g) \/ Walks(g))
           \/ (\E what \in {"tile", "body"} : UserReads(what)) \/ Reopen
    PROVE  Typed'
<1> USE DEF Typed
<1>1. CASE FarWrites
  <2>1. \E s \in Row : Commit(s)
    BY <1>1, WrittenRows DEF FarWrites
  <2>2. FarOK' /\ WireOK' /\ PastOK'
    BY <1>1, <2>1, CommitOK DEF FarWrites
  <2>3. FlagsOK'
    BY <1>1 DEF FarWrites, FlagsOK
  <2>4. QED
    BY <1>1, <2>2, <2>3, Untouched DEF FarWrites, rowVars, cueVars
<1>2. ASSUME NEW g \in Grids, FarRelists(g) PROVE Typed'
  <2>1. FarOK' /\ wire' \in Seq(Event) /\ Unique(wire') /\ PastOK'
    BY <1>2, TypedIs, RelistSays DEF FarRelists, FarOK, PastOK
  <2>2. \A i \in DOMAIN wire' : wire'[i].kind = "changed" => wire'[i].grid = wire'[i].row.place
    <3> DEFINE e == [kind |-> "grid", grid |-> g, row |-> NoRow]
    <3>1. /\ e \in Event /\ e.kind = "grid"
          /\ wire' = wire \/ wire' = Put(wire, e)
      BY <1>2, TypedIs, RelistSays DEF FlagsOK
    <3> HIDE DEF e
    <3>2. wire \in Seq(Event) /\ Unique(wire)
      BY DEF WireOK
    <3>3. CASE wire' = Put(wire, e)
      <4>1. \/ wire' = Append(wire, e)
            \/ \E i \in 1..Len(wire) :
                  /\ Len(wire') = Len(wire) /\ wire'[i] = e
                  /\ \A j \in 1..Len(wire) : j # i => wire'[j] = wire[j]
        BY <3>1, <3>2, <3>3, PutSays
      <4>2. QED
        BY <2>1, <3>1, <3>2, <4>1 DEF WireOK
    <3>4. QED
      BY <3>1, <3>3 DEF WireOK
  <2>3. QED
    BY <1>2, <2>1, <2>2, Untouched DEF FarRelists, FlagsOK, WireOK, rowVars, cueVars
<1>3. CASE Break
  <2>1. WireOK'
    BY <1>3 DEF Break, WireOK, Unique
  <2>2. PastOK' /\ FlagsOK' /\ CountsOK'
    BY <1>3, Counting DEF Break, PastOK, FlagsOK, FaultLeft
  <2>3. QED
    BY <1>3, <2>1, <2>2, Untouched DEF Break, farVars, rowVars, cueVars
<1>4. ASSUME NEW g \in Grids, Serve(g) PROVE Typed'
  <2>1. CuesOK' /\ PastOK'
    BY <1>4, CachedType DEF Serve, CuesOK, PastOK
  <2>2. ReadsOK'
    <3> DEFINE new == [Idle EXCEPT !.phase = "spawned", !.what = g]
    <3>1. reads' = reads \/ reads' = [reads EXCEPT ![g] = new]
      BY <1>4 DEF Serve
    <3>2. new \in Read /\ new.phase = "spawned" /\ new.what = g
      BY ReadTypes DEF Idle
    <3> HIDE DEF new
    <3>3. QED
      BY <3>1, <3>2, ReadersApart DEF ReadsOK, Assigned
  <2>3. QED
    BY <1>4, <2>1, <2>2, Untouched DEF Serve, wireVars, farVars, rowVars
<1>5. ASSUME NEW g \in Grids, Miss(g) PROVE Typed'
  <2>1. CuesOK'
    BY <1>5 DEF Miss, CuesOK
  <2>2. ReadsOK'
    BY <1>5, BeginsOK, ReadersApart DEF Miss
  <2>3. CountsOK'
    BY <1>5, Counting DEF Miss
  <2>4. QED
    BY <1>5, <2>1, <2>2, <2>3, Untouched DEF Miss, wireVars, farVars, rowVars, histVars
<1>6. ASSUME NEW g \in Grids, Revalidate(g) PROVE Typed'
  <2>1. ReadsOK'
    <3> DEFINE old == CachedListing(g)
               began == [Idle EXCEPT !.phase = "asked", !.what = g]
               new == [began EXCEPT !.old = old]
    <3>1. reads' = [reads EXCEPT ![g] = new]
      BY <1>6, ReadersApart DEF Revalidate, Begins, ReadsOK
    <3>2. old \in Listing \cup {Never}
      BY CachedType
    <3>3. began \in Read /\ began.phase = "asked" /\ began.what = g
      BY ReadTypes DEF Idle
    <3> HIDE DEF old, began
    <3>4. new \in Read /\ new.phase = "asked" /\ new.what = g
      BY <3>2, <3>3 DEF Read
    <3> HIDE DEF new
    <3>5. QED
      BY <3>1, <3>4, ReadersApart DEF ReadsOK, Assigned
  <2>2. QED
    BY <1>6, <2>1, Untouched DEF Revalidate, wireVars, farVars, rowVars, cueVars, histVars
<1>7. ASSUME NEW g \in Grids, Walks(g) PROVE Typed'
  <2>1. ReadsOK'
    BY <1>7, BeginsOK, ReadersApart DEF Walks
  <2>2. CountsOK'
    BY <1>7, Counting DEF Walks
  <2>3. QED
    BY <1>7, <2>1, <2>2, Untouched DEF Walks, wireVars, farVars, rowVars, cueVars, histVars
<1>8. ASSUME NEW what \in {"tile", "body"}, UserReads(what) PROVE Typed'
  <2>1. ReadsOK'
    BY <1>8, BeginsOK, ReadersApart DEF UserReads
  <2>2. CountsOK'
    BY <1>8, Counting DEF UserReads
  <2>3. QED
    BY <1>8, <2>1, <2>2, Untouched DEF UserReads, wireVars, farVars, rowVars, cueVars, histVars
<1>9. CASE Reopen
  <2>1. CuesOK' /\ FlagsOK'
    BY <1>9 DEF Reopen, CuesOK, FlagsOK
  <2>2. QED
    BY <1>9, <2>1, Untouched DEF Reopen, farVars, rowVars, histVars
<1>10. QED
  BY <1>1, <1>2, <1>3, <1>4, <1>5, <1>6, <1>7, <1>8, <1>9

\* So do the relay's and the write's.
LEMMA FoldStepsTyped ==
    ASSUME Typed,
           \/ RelayTakes \/ RelayWrites \/ RelaySends
           \/ WriteSent \/ WriteTaken \/ WriteFails \/ WriteAnswered
           \/ WriteDropsBody \/ WriteRecords \/ WriteFolds
    PROVE  Typed'
<1> USE DEF Typed
<1>1. CASE RelayTakes
  <2> DEFINE e == Head(wire)
  <2>1. /\ wire # <<>> /\ wire' = Tail(wire)
        /\ relay' = [phase |-> IF e.kind = "grid" THEN "written" ELSE "recorded", ev |-> e]
        /\ UNCHANGED reads \/ \E row : Record(FoldKeys(row))
    BY <1>1 DEF RelayTakes
  <2>2. wire \in Seq(Event) /\ e \in Event /\ e = wire[1] /\ 1 \in DOMAIN wire
        /\ Tail(wire) \in Seq(Event) /\ DOMAIN Tail(wire) = 1..(Len(wire) - 1)
        /\ \A i \in 1..(Len(wire) - 1) : Tail(wire)[i] = wire[i + 1]
    BY <2>1 DEF WireOK
  <2>3. RelayOK'
    <3>1. e.kind = "changed" => e.grid = e.row.place
      BY <2>2 DEF WireOK
    <3> HIDE DEF e
    <3>2. QED
      BY <2>1, <2>2, <3>1 DEF RelayOK, Quiet
  <2>4. WireOK'
    <3>1. \A i \in 1..(Len(wire) - 1) : Pending(wire, wire[i + 1]) = {i + 1}
      BY <2>2 DEF WireOK, Unique
    <3>2. Unique(Tail(wire))
      BY <2>2, <3>1 DEF Unique, Pending
    <3>3. QED
      BY <2>1, <2>2, <3>2 DEF WireOK
  <2>5. ReadsOK'
    <3>1. CASE UNCHANGED reads
      BY <3>1, Untouched
    <3>2. QED
      BY <2>1, <3>1, RecordOK, FoldKeysType
  <2>6. FlagsOK'
    BY <1>1 DEF RelayTakes, FlagsOK
  <2>7. QED
    BY <1>1, <2>3, <2>4, <2>5, <2>6, Untouched DEF RelayTakes, farVars, rowVars, cueVars, histVars
<1>2. CASE RelayWrites
  <2>1. relay \in [phase : {"recorded", "written"}, ev : Event] /\ relay.phase = "recorded"
        /\ relay.ev.kind # "grid" /\ relay.ev \in Event /\ relay.ev.row \in Row
    BY <1>2, EventTypes DEF RelayWrites, RelayOK, Quiet
  <2>2. RelayOK'
    <3>1. relay' = [relay EXCEPT !.phase = "written"]
      BY <1>2 DEF RelayWrites
    <3>2. relay' \in [phase : {"recorded", "written"}, ev : Event] /\ relay'.phase = "written"
          /\ relay'.ev = relay.ev
      BY <2>1, <3>1
    <3>3. QED
      BY <2>1, <3>2 DEF RelayOK
  <2>3. RowsOK' /\ folded' \in Nat
    <3>1. [relay.ev.row EXCEPT !.place = Gone] \in Row
      BY <2>1 DEF Row
    <3>2. QED
      BY <1>2, <2>1, <3>1, FoldRowOK DEF RelayWrites
  <2>4. PastOK'
    BY <1>2, <2>3 DEF RelayWrites, PastOK, Changed
  <2>5. QED
    BY <1>2, <2>2, <2>3, <2>4, Untouched DEF RelayWrites, farVars, wireVars, cueVars
<1>3. CASE RelaySends
  <2>1. RelayOK' /\ CuesOK'
    BY <1>3, CueOK DEF RelaySends, RelayOK, CuesOK, Quiet
  <2>2. QED
    BY <1>3, <2>1, Untouched DEF RelaySends, farVars, wireVars, rowVars, histVars
<1>4. CASE WriteSent
  <2>1. WriteOK' /\ CountsOK'
    BY <1>4, Counting DEF WriteSent, WriteOK
  <2>2. QED
    BY <1>4, <2>1, Untouched DEF WriteSent, farVars, wireVars, rowVars, cueVars, histVars
<1>5. CASE WriteTaken
  <2>1. PICK s \in Row : Commit(s)
    BY <1>5, WrittenRows DEF WriteTaken
  <2>2. FarOK' /\ WireOK' /\ PastOK'
    BY <1>5, <2>1, CommitOK DEF WriteTaken
  <2>3. WriteOK'
    <3>1. [far' EXCEPT !.place = Gone] \in Row /\ far' \in Row
      BY <2>2 DEF FarOK, Row
    <3>2. \E row \in Row, edit \in BOOLEAN :
              write' = [phase |-> "answered", row |-> row, edit |-> edit]
      BY <1>5, <3>1 DEF WriteTaken
    <3>3. QED
      BY <3>2 DEF WriteOK
  <2>4. FlagsOK'
    BY <1>5 DEF WriteTaken, FlagsOK
  <2>5. QED
    BY <1>5, <2>2, <2>3, <2>4, Untouched DEF WriteTaken, rowVars, cueVars
<1>6. CASE WriteFails
  <2>1. WriteOK' /\ CountsOK'
    BY <1>6, Counting DEF WriteFails, FaultLeft, WriteOK
  <2>2. CuesOK' /\ FlagsOK'
    BY <1>6, CueOK DEF WriteFails, WriteNotices, CuesOK, FlagsOK, wireVars
  <2>3. QED
    BY <1>6, <2>1, <2>2, Untouched DEF WriteFails, farVars, wireVars, rowVars, histVars
<1>7. CASE WriteAnswered
  <2>1. WriteOK'
    BY <1>7 DEF WriteAnswered, Drops, WriteOK
  <2>2. CuesOK' /\ FlagsOK'
    BY <1>7, CueOK DEF WriteAnswered, WriteNotices, CuesOK, FlagsOK, wireVars
  <2>3. ReadsOK'
    BY <1>7, RecordOK DEF WriteAnswered, Drops, Keys
  <2>4. QED
    BY <1>7, <2>1, <2>2, <2>3, Untouched DEF WriteAnswered, farVars, wireVars, rowVars, histVars
<1>8. CASE WriteDropsBody
  <2>1. WriteOK' /\ write.row.text \in 0..MaxText
    BY <1>8, RowTypes, CacheAssumption DEF WriteDropsBody, WriteOK, CacheAssumption
  <2>a. 0 \in 0..MaxText
    BY CacheAssumption DEF CacheAssumption
  <2>2. RowsOK' /\ PastOK'
    BY <1>8, <2>1, <2>a DEF WriteDropsBody, RowsOK, PastOK
  <2>3. QED
    BY <1>8, <2>1, <2>2, Untouched DEF WriteDropsBody, farVars, wireVars, cueVars
<1>9. CASE WriteRecords
  <2>1. WriteOK'
    BY <1>9 DEF WriteRecords, WriteOK
  <2>2. CuesOK' /\ FlagsOK'
    BY <1>9, CueOK DEF WriteRecords, WriteNotices, CuesOK, FlagsOK, wireVars
  <2>3. ReadsOK'
    BY <1>9, RecordOK, FoldKeysType DEF WriteRecords
  <2>4. QED
    BY <1>9, <2>1, <2>2, <2>3, Untouched DEF WriteRecords, farVars, wireVars, rowVars, histVars
<1>10. CASE WriteFolds
  <2>1. WriteOK' /\ CuesOK'
    BY <1>10, CueOK DEF WriteFolds, WriteOK, CuesOK
  <2>2. RowsOK' /\ folded' \in Nat
    BY <1>10, FoldRowOK DEF WriteFolds, WriteOK
  <2>3. PastOK'
    BY <1>10, <2>2 DEF WriteFolds, PastOK
  <2>4. QED
    BY <1>10, <2>1, <2>2, <2>3, Untouched DEF WriteFolds, farVars, wireVars
<1>11. QED
  BY <1>1, <1>2, <1>3, <1>4, <1>5, <1>6, <1>7, <1>8, <1>9, <1>10

\* Every step keeps the types.
LEMMA NextTyped == Typed /\ [Next]_vars => Typed'
<1> SUFFICES ASSUME Typed, [Next]_vars PROVE Typed'
  OBVIOUS
<1>1. CASE UNCHANGED vars
  BY <1>1, Untouched DEF vars, farVars, wireVars, rowVars, cueVars, histVars, Typed
<1>2. CASE Next
  BY <1>2, ReadStepsTyped, FarStepsTyped, FoldStepsTyped DEF Next
<1>3. QED
  BY <1>1, <1>2

\* The types hold throughout.
LEMMA TypesHold == Spec => []Typed
BY InitTyped, NextTyped, PTL DEF Spec

----------------------------------------------------------------------------
(***************************************************************************)
(* No answer is installed over what a fold brought after it.               *)
(***************************************************************************)

Newer == Behind /\ AheadOfFolds /\ BodiesNew

\* A read that is answered after the step was so before it, and is touched by
\* no less.
Reading ==
    \A r \in Readers : reads'[r].phase = "answered" =>
        /\ reads[r].phase = "answered" /\ reads'[r].what = reads[r].what
        /\ reads'[r].got = reads[r].got /\ reads[r].touched \subseteq reads'[r].touched

\* The numbers that are compared.
LEMMA Numbers ==
    ASSUME Typed
    PROVE  /\ far \in Row /\ far.n \in Nat /\ far.text \in Nat /\ far.place \in Grids \cup {Gone}
           /\ folded \in Nat /\ own \in Nat
           /\ wire \in Seq(Event) /\ DOMAIN wire = 1..Len(wire) /\ Unique(wire)
           /\ \A i \in DOMAIN wire : wire[i] \in Event /\ wire[i].row.n \in Nat
           /\ relay.phase # "idle" =>
                  relay.ev \in Event /\ relay.ev.row.n \in Nat /\ relay.phase \in {"recorded", "written"}
           /\ relay.phase = "recorded" => relay.ev.row \in Row
           /\ \A r \in Readers : reads[r].phase = "answered" =>
                  /\ reads[r].got \in Row /\ reads[r].got.n \in Nat /\ reads[r].got.text \in Nat
                  /\ reads[r].got.place \in Grids \cup {Gone}
           /\ \A row \in Row : row.n \in Nat /\ row.text \in Nat /\ row.place \in Grids \cup {Gone}
<1> USE DEF Typed
<1>1. \A row \in Row : row.n \in Nat /\ row.text \in Nat /\ row.place \in Grids \cup {Gone}
  BY CacheAssumption DEF Row, CacheAssumption
<1>2. far \in Row /\ folded \in Nat /\ own \in Nat
  <2>1. MaxText \in Nat /\ own \in 0..MaxText
    BY CacheAssumption DEF PastOK, CacheAssumption
  <2>2. far \in Row
    BY DEF FarOK
  <2>3. folded \in Nat
    BY DEF PastOK
  <2>4. own \in Nat
    BY <2>1
  <2>5. QED
    BY <2>2, <2>3, <2>4
<1>3. /\ wire \in Seq(Event) /\ DOMAIN wire = 1..Len(wire) /\ Unique(wire)
      /\ \A i \in DOMAIN wire : wire[i] \in Event
  BY DEF WireOK
<1>4. relay.phase # "idle" => relay.ev \in Event /\ relay.phase \in {"recorded", "written"}
  BY DEF RelayOK, Quiet
<1>5. relay.phase = "recorded" => relay.ev.row \in Row
  BY <1>4, EventTypes DEF RelayOK
<1>6. \A r \in Readers : reads[r].phase = "answered" => reads[r].got \in Row
  BY DEF ReadsOK, Assigned
<1>7. QED
  BY <1>1, <1>2, <1>3, <1>4, <1>5, <1>6, EventTypes

\* An answer stays ahead while nothing is folded or told to be.
LEMMA AnswersKept ==
    ASSUME Typed, AheadOfFolds, BodiesNew, Reading,
           \A p \in Grids \cup {Gone}, n \in Nat : Folding(p, n)' => Folding(p, n),
           write'.phase = "dropping" => write' = write,
           UNCHANGED <<own, folded>>,
           tile'.place \in Grids => tile'.place = tile.place, body' \in {body, 0}
    PROVE  AheadOfFolds' /\ BodiesNew'
<1>1. AheadOfFolds'
  <2> SUFFICES ASSUME NEW r \in Readers, reads'[r].phase = "answered"
               PROVE  /\ "tile" \notin reads'[r].touched =>
                             /\ folded' <= reads'[r].got.n
                             /\ \A p \in Grids \cup {Gone}, n \in Nat :
                                    Folding(p, n)' => n <= reads'[r].got.n
                      /\ \A p \in Grids \ reads'[r].touched : reads'[r].what = p =>
                             /\ tile'.place = p => folded' <= reads'[r].got.n
                             /\ \A n \in Nat : Folding(p, n)' => n <= reads'[r].got.n
    BY DEF AheadOfFolds
  <2>1. /\ reads[r].phase = "answered" /\ reads'[r].what = reads[r].what
        /\ reads'[r].got = reads[r].got /\ reads[r].touched \subseteq reads'[r].touched
    BY DEF Reading
  <2>2. QED
    BY <2>1 DEF AheadOfFolds
<1>2. BodiesNew'
  BY Numbers DEF BodiesNew, Reading
<1>3. QED
  BY <1>1, <1>2

\* What is put in a queue is in it with what was.
LEMMA PutIn ==
    ASSUME NEW q \in Seq(Event), NEW e \in Event, Unique(q), NEW i \in DOMAIN Put(q, e)
    PROVE  Put(q, e)[i] = e \/ \E j \in DOMAIN q : Put(q, e)[i] = q[j]
<1> DEFINE p == Put(q, e)
<1>1. /\ p \in Seq(Event)
      /\ \/ p = Append(q, e)
         \/ \E k \in 1..Len(q) : /\ Len(p) = Len(q) /\ p[k] = e
                                 /\ \A j \in 1..Len(q) : j # k => p[j] = q[j]
  BY PutSays
<1> HIDE DEF p
<1>2. \A k \in DOMAIN p : p[k] = e \/ \E j \in DOMAIN q : p[k] = q[j]
  BY <1>1
<1>3. QED
  BY <1>2 DEF p

\* A write of the tile tells nothing but the new row.
LEMMA CommitTells ==
    ASSUME Typed, far.place # Gone, NEW s \in Row, Commit(s)
    PROVE  \A i \in DOMAIN wire' : wire'[i].row = far' \/ \E j \in DOMAIN wire : wire'[i] = wire[j]
<1>1. TypeOK /\ wire \in Seq(Event) /\ Unique(wire)
  BY TypedIs, Numbers
<1>2. Leaves(far.place, far').row = far' /\ Arrives(far').row = far'
  BY DEF Leaves, Arrives
<1>3. CASE ~open
  BY <1>1, <1>3, CommitSays
<1>4. CASE open /\ far'.place = far.place
  BY <1>1, <1>2, <1>4, CommitSays, PutIn
<1>5. CASE open /\ far'.place = Gone
  BY <1>1, <1>2, <1>5, CommitSays, PutIn
<1>6. CASE open /\ far'.place \notin {far.place, Gone}
  <2> DEFINE q == Put(wire, Leaves(far.place, far'))
  <2>1. /\ q \in Seq(Event) /\ Unique(q) /\ wire' = Put(q, Arrives(far'))
        /\ Arrives(far') \in Event /\ Leaves(far.place, far') \in Event
    BY <1>1, <1>6, CommitSays
  <2>2. \A i \in DOMAIN q : q[i].row = far' \/ \E j \in DOMAIN wire : q[i] = wire[j]
    BY <1>1, <1>2, <2>1, PutIn
  <2> HIDE DEF q
  <2>3. \A i \in DOMAIN wire' : wire'[i] = Arrives(far') \/ \E j \in DOMAIN q : wire'[i] = q[j]
    BY <2>1, PutIn
  <2>4. QED
    BY <1>2, <2>2, <2>3
<1>7. QED
  BY <1>1, <1>3, <1>4, <1>5, <1>6, CommitSays DEF Typed, FlagsOK

\* So it leaves everything behind it.
LEMMA CommitBehind ==
    ASSUME Typed, Behind, far.place # Gone, NEW s \in Row, s.text >= far.text, Commit(s),
           UNCHANGED <<own, folded, relay>>,
           \/ write' = write
           \/ write'.row \in Row /\ write'.row.n = far'.n /\ write'.row.text = far'.text
    PROVE  Behind'
<1>1. /\ far' \in Row /\ far'.n = far.n + 1 /\ far'.text = s.text /\ far.n \in Nat /\ far.text \in Nat
      /\ far'.text \in Nat /\ far'.n \in Nat /\ s.text \in Nat /\ own \in Nat /\ folded \in Nat
  BY TypedIs, Numbers, CommitSays
<1>2. \A i \in DOMAIN wire' : wire'[i].row.n <= far'.n
  <2>1. \A j \in DOMAIN wire : wire[j].row.n \in Nat /\ wire[j].row.n <= far.n
    BY Numbers DEF Behind
  <2>2. QED
    BY <1>1, <2>1, CommitTells
<1>3. relay.phase # "idle" => relay.ev.row.n \in Nat /\ relay.ev.row.n <= far.n
  BY Numbers DEF Behind
<1>4. Owing' => write'.row \in Row /\ write'.row.n \in 1..far'.n /\ write'.row.text <= far'.text
  <2>1. CASE write' = write
    <3>1. Owing => write.row \in Row /\ write.row.n \in 1..far.n /\ write.row.text <= far.text
      BY DEF Behind
    <3>2. Owing => write.row.text \in Nat
      BY <3>1, Numbers
    <3>3. Owing' => Owing
      BY <2>1 DEF Owing
    <3>4. QED
      BY <1>1, <2>1, <3>1, <3>2, <3>3
  <2>2. CASE write'.row \in Row /\ write'.row.n = far'.n /\ write'.row.text = far'.text
    BY <1>1, <2>2
  <2>3. QED
    BY <2>1, <2>2
<1>5. folded' <= far'.n /\ own' <= far'.text
  BY <1>1 DEF Behind
<1>6. QED
  BY <1>1, <1>2, <1>3, <1>4, <1>5 DEF Behind

\* Events told of a grid alone bring nothing new, and a step that tells nothing
\* leaves all behind.
LEMMA BehindKept ==
    ASSUME Typed, Behind, UNCHANGED <<far, own, folded>>,
           \A i \in DOMAIN wire' : wire'[i].row = NoRow \/ \E j \in DOMAIN wire : wire'[i] = wire[j],
           \/ relay' = relay \/ relay'.phase = "idle"
           \/ \E j \in DOMAIN wire : relay'.ev = wire[j]
           \/ relay.phase # "idle" /\ relay'.ev = relay.ev,
           write' = write \/ ~Owing' \/ (Owing /\ write'.row = write.row)
    PROVE  Behind'
<1>1. \A i \in DOMAIN wire' : wire'[i].row.n <= far.n
  BY Numbers, RowTypes DEF Behind
<1>2. relay'.phase # "idle" => relay'.ev.row.n <= far.n
  BY DEF Behind
<1>3. Owing' => write'.row \in Row /\ write'.row.n \in 1..far'.n /\ write'.row.text <= far'.text
  <2>1. Owing' => Owing /\ write'.row = write.row
    BY DEF Owing
  <2>2. QED
    BY <2>1 DEF Behind
<1>4. folded' <= far'.n /\ own' <= far'.text
  BY DEF Behind
<1>5. QED
  BY <1>1, <1>2, <1>3, <1>4 DEF Behind

\* A step that reads and folds nothing keeps all of it.
LEMMA NewerKept ==
    ASSUME Typed, Newer, Reading, UNCHANGED <<far, own, folded>>,
           \A i \in DOMAIN wire' : wire'[i].row = NoRow \/ \E j \in DOMAIN wire : wire'[i] = wire[j],
           relay' = relay \/ relay'.phase = "idle",
           write' = write \/ write'.phase \in {"idle", "sent"},
           tile'.place \in Grids => tile'.place = tile.place, body' \in {body, 0}
    PROVE  Newer'
<1>1. ~Owing' \/ write' = write
  BY DEF Owing
<1>2. Behind'
  BY <1>1, BehindKept DEF Newer
<1>3. \A p \in Grids \cup {Gone}, n \in Nat : Folding(p, n)' => Folding(p, n)
  BY DEF Folding
<1>4. write'.phase = "dropping" => write' = write
  OBVIOUS
<1>5. QED
  BY <1>2, <1>3, <1>4, AnswersKept DEF Newer

\* Reads that begin, end or are recorded over are read as they were.
LEMMA ReadingSays ==
    ASSUME Typed
    PROVE  /\ UNCHANGED reads => Reading
           /\ \A r \in Readers : Ends(r) => Reading
           /\ \A r \in Readers : \A what : reads' = Begins(r, what) => Reading
           /\ \A keys \in SUBSET Keys : Record(keys) => Reading
<1>1. reads \in [Readers -> Read]
  BY DEF Typed, ReadsOK
<1>2. UNCHANGED reads => Reading
  BY DEF Reading
<1>3. ASSUME NEW r \in Readers, Ends(r) PROVE Reading
  BY <1>1, <1>3 DEF Ends, Reading, Idle
<1>4. ASSUME NEW r \in Readers, NEW what, reads' = Begins(r, what) PROVE Reading
  <2> DEFINE new == [Idle EXCEPT !.phase = "asked", !.what = what]
  <2>1. new.phase = "asked" /\ reads' = [reads EXCEPT ![r] = new]
    BY <1>4 DEF Begins, Idle
  <2> HIDE DEF new
  <2>2. QED
    BY <1>1, <2>1 DEF Reading
<1>5. ASSUME NEW keys \in SUBSET Keys, Record(keys) PROVE Reading
  BY <1>5, TypedIs, RecordSays DEF Reading
<1>6. QED
  BY <1>2, <1>3, <1>4, <1>5

\* The same of a grid that is served, and of the revalidation it starts.
LEMMA Starting ==
    ASSUME Typed, NEW g \in Grids, Serve(g) \/ Revalidate(g)
    PROVE  Reading
<1>1. reads \in [Readers -> Read]
  BY DEF Typed, ReadsOK
<1>2. CASE Serve(g)
  <2> DEFINE new == [Idle EXCEPT !.phase = "spawned", !.what = g]
  <2>1. reads' = reads \/ reads' = [reads EXCEPT ![g] = new]
    BY <1>2 DEF Serve
  <2>2. new.phase = "spawned"
    BY DEF Idle
  <2> HIDE DEF new
  <2>3. QED
    BY <1>1, <2>1, <2>2, ReadersApart DEF Reading
<1>3. CASE Revalidate(g)
  <2> DEFINE new == [Begins(g, g)[g] EXCEPT !.old = CachedListing(g)]
  <2>1. new.phase = "asked" /\ reads' = [reads EXCEPT ![g] = new]
    BY <1>1, <1>3, ReadersApart DEF Revalidate, Begins, Idle
  <2> HIDE DEF new
  <2>2. QED
    BY <1>1, <2>1, ReadersApart DEF Reading
<1>4. QED
  BY <1>2, <1>3

\* The same of a read that is refused.
LEMMA Refusing ==
    ASSUME Typed, NEW r \in Readers, FarRefuses(r)
    PROVE  Reading
<1> DEFINE new == [reads[r] EXCEPT !.phase = "refused"]
<1>1. reads' = [reads EXCEPT ![r] = new] /\ reads \in [Readers -> Read] /\ reads[r] \in Read
  BY DEF FarRefuses, Typed, ReadsOK
<1>2. new.phase = "refused"
  BY <1>1 DEF Read
<1> HIDE DEF new
<1>3. QED
  BY <1>1, <1>2 DEF Reading

\* The far node's steps and the reads that begin.
LEMMA FarStepsNewer ==
    ASSUME Typed, Newer,
           \/ FarWrites \/ (\E g \in Grids : FarRelists(g)) \/ Break
           \/ (\E g \in Grids : Serve(g) \/ Miss(g) \/ Revalidate(g) \/ Walks(g))
           \/ (\E what \in {"tile", "body"} : UserReads(what)) \/ Reopen
    PROVE  Newer'
<1>1. CASE FarWrites
  <2>1. PICK s \in Row : Commit(s) /\ s.text >= far.text
    <3>1. far \in Row /\ far.text \in Nat
      BY Numbers
    <3>2. \A p : [far EXCEPT !.place = p].text = far.text
      BY <3>1 DEF Row
    <3>3. [far EXCEPT !.text = @ + 1].text = far.text + 1
      BY <3>1 DEF Row
    <3>4. /\ \A p \in Grids \cup {Gone} : [far EXCEPT !.place = p] \in Row
          /\ far.text < MaxText => [far EXCEPT !.text = @ + 1] \in Row
      BY WrittenRows DEF Typed
    <3>5. CASE \E p \in (Grids \cup {Gone}) \ {far.place} : Commit([far EXCEPT !.place = p])
      <4>1. PICK p \in (Grids \cup {Gone}) \ {far.place} : Commit([far EXCEPT !.place = p])
        BY <3>5
      <4>2. [far EXCEPT !.place = p] \in Row /\ [far EXCEPT !.place = p].text >= far.text
        BY <3>1, <3>2, <3>4, <4>1
      <4>3. QED
        BY <4>1, <4>2
    <3>6. CASE far.text < MaxText /\ Commit([far EXCEPT !.text = @ + 1])
      <4>1. [far EXCEPT !.text = @ + 1] \in Row /\ [far EXCEPT !.text = @ + 1].text >= far.text
        BY <3>1, <3>3, <3>4, <3>6
      <4>2. QED
        BY <3>6, <4>1
    <3>7. QED
      BY <1>1, <3>5, <3>6 DEF FarWrites
  <2>2. /\ UNCHANGED <<own, folded, relay, write, reads, tile, body>> /\ far.place # Gone
    BY <1>1 DEF FarWrites, rowVars
  <2>3. Behind'
    BY <2>1, <2>2, CommitBehind DEF Newer
  <2>4. \A p \in Grids \cup {Gone}, n \in Nat : Folding(p, n)' => Folding(p, n)
    BY <2>2 DEF Folding
  <2>5. QED
    BY <2>2, <2>3, <2>4, ReadingSays, AnswersKept DEF Newer
<1>2. ASSUME NEW g \in Grids, FarRelists(g) PROVE Newer'
  <2> DEFINE e == [kind |-> "grid", grid |-> g, row |-> NoRow]
  <2>1. /\ e \in Event /\ e.row = NoRow /\ wire \in Seq(Event) /\ Unique(wire)
        /\ wire' = wire \/ wire' = Put(wire, e)
    BY <1>2, TypedIs, RelistSays, Numbers DEF Typed, FlagsOK
  <2> HIDE DEF e
  <2>2. \A i \in DOMAIN wire' : wire'[i].row = NoRow \/ \E j \in DOMAIN wire : wire'[i] = wire[j]
    BY <2>1, PutIn
  <2>3. QED
    BY <1>2, <2>2, ReadingSays, NewerKept DEF FarRelists, rowVars
<1>3. CASE Break
  BY <1>3, ReadingSays, NewerKept DEF Break, rowVars, farVars
<1>4. ASSUME NEW g \in Grids, Serve(g) PROVE Newer'
  BY <1>4, Starting, NewerKept DEF Serve, rowVars, farVars, wireVars
<1>5. ASSUME NEW g \in Grids, Miss(g) PROVE Newer'
  BY <1>5, ReadingSays, ReadersApart, NewerKept DEF Miss, rowVars, farVars, wireVars, histVars
<1>6. ASSUME NEW g \in Grids, Revalidate(g) PROVE Newer'
  BY <1>6, Starting, NewerKept DEF Revalidate, rowVars, farVars, wireVars, histVars
<1>7. ASSUME NEW g \in Grids, Walks(g) PROVE Newer'
  BY <1>7, ReadingSays, ReadersApart, NewerKept DEF Walks, rowVars, farVars, wireVars, histVars
<1>8. ASSUME NEW what \in {"tile", "body"}, UserReads(what) PROVE Newer'
  BY <1>8, ReadingSays, ReadersApart, NewerKept DEF UserReads, rowVars, farVars, wireVars, histVars
<1>9. CASE Reopen
  BY <1>9, ReadingSays, NewerKept DEF Reopen, rowVars, farVars, histVars
<1>10. QED
  BY <1>1, <1>2, <1>3, <1>4, <1>5, <1>6, <1>7, <1>8, <1>9

\* An answer the far node gives now is as new as anything.
LEMMA AnswerNewer ==
    ASSUME Typed, Newer, NEW r \in Readers, FarAnswers(r)
    PROVE  Newer'
<1>1. reads[r].phase = "asked" /\ reads \in [Readers -> Read] /\ reads[r] \in Read
  BY DEF FarAnswers, Typed, ReadsOK
<1> DEFINE ph == IF reads[r].what \in {"tile", "body"} /\ far.place = Gone THEN "refused" ELSE "answered"
           ls == IF reads[r].what \in Grids THEN farList[reads[r].what] ELSE 0
           new == [reads[r] EXCEPT !.phase = ph, !.got = far, !.list = ls]
<1>2. reads' = [reads EXCEPT ![r] = new]
  BY DEF FarAnswers
<1>3. new.got = far /\ new.what = reads[r].what /\ new.touched = reads[r].touched
  BY <1>1 DEF Read
<1> HIDE DEF new
<1>4. UNCHANGED <<far, wire, relay, write, tile, body, own, folded>>
  BY DEF FarAnswers, farVars, wireVars, rowVars, histVars
<1>5. /\ reads'[r].got = far
      /\ \A q \in Readers \ {r} : reads'[q] = reads[q]
  BY <1>1, <1>2, <1>3
<1>6. Behind'
  BY <1>4, BehindKept DEF Newer
<1>7. folded <= far.n /\ own <= far.text
  BY DEF Newer, Behind
<1>8. \A p \in Grids \cup {Gone}, n \in Nat : Folding(p, n) => n <= far.n
  BY Numbers DEF Newer, Behind, Folding, Owing
<1>9. write.phase = "dropping" => write.row.text <= far.text
  BY DEF Newer, Behind, Owing
<1>10. \A p \in Grids \cup {Gone}, n \in Nat : Folding(p, n)' => Folding(p, n)
  BY <1>4 DEF Folding
<1>11. AheadOfFolds'
  <2> SUFFICES ASSUME NEW q \in Readers, reads'[q].phase = "answered"
               PROVE  /\ "tile" \notin reads'[q].touched =>
                             /\ folded' <= reads'[q].got.n
                             /\ \A p \in Grids \cup {Gone}, n \in Nat :
                                    Folding(p, n)' => n <= reads'[q].got.n
                      /\ \A p \in Grids \ reads'[q].touched : reads'[q].what = p =>
                             /\ tile'.place = p => folded' <= reads'[q].got.n
                             /\ \A n \in Nat : Folding(p, n)' => n <= reads'[q].got.n
    BY DEF AheadOfFolds
  <2>1. CASE q = r
    BY <1>4, <1>5, <1>7, <1>8, <1>10, <2>1
  <2>2. CASE q # r
    BY <1>4, <1>5, <1>10, <2>2 DEF Newer, AheadOfFolds
  <2>3. QED
    BY <2>1, <2>2
<1>12. BodiesNew'
  <2> SUFFICES ASSUME NEW q \in Readers, reads'[q].phase = "answered", "tile" \notin reads'[q].touched
               PROVE  /\ own' <= reads'[q].got.text
                      /\ write'.phase = "dropping" => write'.row.text <= reads'[q].got.text
    BY <1>4 DEF Newer, BodiesNew
  <2>1. CASE q = r
    BY <1>4, <1>5, <1>7, <1>9, <2>1
  <2>2. CASE q # r
    BY <1>4, <1>5, <2>2 DEF Newer, BodiesNew
  <2>3. QED
    BY <2>1, <2>2
<1>13. QED
  BY <1>6, <1>11, <1>12 DEF Newer

\* An answer that is installed and changes the tile is as new as what was folded,
\* and a body it brings has the user's edits.
LEMMA InstallNewer ==
    ASSUME Typed, Newer, NEW r \in Readers, reads[r].phase = "answered", Install(r)
    PROVE  /\ tile' # tile => reads[r].got.n >= folded
           /\ body' # 0 => own <= body'
<1>1. /\ folded \in Nat /\ own \in Nat /\ reads[r].got.n \in Nat /\ reads[r].got.text \in Nat
      /\ reads[r].what \in Grids \cup {"tile", "body"}
  BY Numbers, ReadFields DEF Typed, ReadsOK, Assigned
<1>2. "tile" \notin reads[r].touched => folded <= reads[r].got.n /\ own <= reads[r].got.text
  BY DEF Newer, AheadOfFolds, BodiesNew
<1>3. body # 0 => own <= body
  BY DEF Newer, BodiesNew
<1>4. CASE ~Installs(r, AnswerKeys(r))
  BY <1>3, <1>4 DEF Install, rowVars
<1>5. CASE Installs(r, AnswerKeys(r)) /\ reads[r].what \in Grids
  <2> DEFINE g == reads[r].what
  <2>1. g \notin reads[r].touched
    BY <1>5 DEF Installs, AnswerKeys
  <2>2. reads[r].got.place = g => "tile" \notin reads[r].touched
    BY <1>5 DEF Installs, AnswerKeys
  <2>3. StoreGrid(g, reads[r].got, reads[r].list)
    BY <1>5, ReadersApart DEF Install
  <2>4. tile' # tile => reads[r].got.place = g \/ tile.place = g
    BY <2>3 DEF StoreGrid
  <2>5. g \in Grids \ reads[r].touched /\ tile.place = g => folded <= reads[r].got.n
    BY DEF Newer, AheadOfFolds
  <2>6. body' \in {0, body}
    BY <2>3 DEF StoreGrid, Kept
  <2>7. tile' # tile => folded <= reads[r].got.n
    BY <1>2, <1>5, <2>1, <2>2, <2>4, <2>5
  <2>8. QED
    BY <1>1, <1>3, <2>6, <2>7
<1>6. CASE Installs(r, AnswerKeys(r)) /\ reads[r].what = "tile"
  <2>1. "tile" \notin reads[r].touched /\ UpsertTile(reads[r].got)
    BY <1>6, ReadersApart DEF Installs, AnswerKeys, Install
  <2>2. QED
    BY <1>1, <1>2, <1>3, <2>1 DEF UpsertTile
<1>7. CASE Installs(r, AnswerKeys(r)) /\ reads[r].what = "body"
  <2>1. "tile" \notin reads[r].touched /\ body' = reads[r].got.text /\ UNCHANGED <<tile, grids>>
    BY <1>7, ReadersApart DEF Installs, AnswerKeys, Install
  <2>2. QED
    BY <1>1, <1>2, <1>3, <2>1
<1>8. QED
  BY <1>1, <1>4, <1>5, <1>6, <1>7

\* The reads' steps.
LEMMA ReadStepsNewer ==
    ASSUME Typed, Newer, NEW r \in Readers,
           \/ FarAnswers(r) \/ FarRefuses(r) \/ Answered(r) \/ Refused(r) \/ NotHeard(r)
    PROVE  Newer'
<1>1. CASE FarAnswers(r)
  BY <1>1, AnswerNewer
<1>2. CASE FarRefuses(r)
  BY <1>2, Refusing, NewerKept DEF FarRefuses, rowVars, farVars, wireVars, histVars
<1>3. CASE Answered(r)
  <2>1. /\ reads[r].phase = "answered" /\ Install(r) /\ Ends(r)
        /\ folded' = IF tile' = tile THEN folded ELSE 0
        /\ UNCHANGED <<far, wire, relay, write, own>>
    BY <1>3 DEF Answered, farVars, wireVars
  <2>2. Reading
    BY <2>1, ReadingSays
  <2>3. folded' \in Nat /\ folded' <= folded /\ folded \in Nat
    BY <2>1, Numbers
  <2>4. Behind'
    <3>1. folded' <= far.n
      BY <2>3, Numbers DEF Newer, Behind
    <3>2. QED
      BY <2>1, <3>1 DEF Newer, Behind, Owing
  <2>5. \A p \in Grids \cup {Gone}, n \in Nat : Folding(p, n)' => Folding(p, n)
    BY <2>1 DEF Folding
  <2>6. AheadOfFolds'
    <3> SUFFICES ASSUME NEW q \in Readers, reads'[q].phase = "answered"
                 PROVE  /\ "tile" \notin reads'[q].touched =>
                               /\ folded' <= reads'[q].got.n
                               /\ \A p \in Grids \cup {Gone}, n \in Nat :
                                      Folding(p, n)' => n <= reads'[q].got.n
                        /\ \A p \in Grids \ reads'[q].touched : reads'[q].what = p =>
                               /\ tile'.place = p => folded' <= reads'[q].got.n
                               /\ \A n \in Nat : Folding(p, n)' => n <= reads'[q].got.n
      BY DEF AheadOfFolds
    <3>1. /\ reads[q].phase = "answered" /\ reads'[q].what = reads[q].what
          /\ reads'[q].got = reads[q].got /\ reads[q].touched \subseteq reads'[q].touched
          /\ reads[q].got.n \in Nat
      BY <2>2, Numbers DEF Reading
    <3>2. folded <= reads[q].got.n => folded' <= reads[q].got.n
      BY <2>3, <3>1
    <3>3. tile' = tile \/ folded' <= reads[q].got.n
      BY <2>1, <3>1
    <3>4. QED
      BY <2>5, <3>1, <3>2, <3>3 DEF Newer, AheadOfFolds
  <2>7. BodiesNew'
    <3>1. body' # 0 => own <= body'
      BY <2>1, InstallNewer
    <3>2. QED
      BY <2>1, <2>2, <3>1, Numbers DEF Newer, BodiesNew, Reading
  <2>8. QED
    BY <2>4, <2>6, <2>7 DEF Newer
<1>4. CASE Refused(r)
  <2>1. (tile'.place \in Grids => tile'.place = tile.place) /\ body' \in {body, 0}
    <3>1. CASE EvictGrid(r)
      BY <3>1, RowTypes, ReadersApart DEF EvictGrid, Kept
    <3>2. QED
      BY <1>4, <3>1 DEF Refused, rowVars
  <2>2. QED
    BY <1>4, <2>1, ReadingSays, NewerKept DEF Refused, farVars, wireVars, histVars
<1>5. CASE NotHeard(r)
  BY <1>5, ReadingSays, NewerKept DEF NotHeard, rowVars, farVars, wireVars, histVars
<1>6. QED
  BY <1>1, <1>2, <1>3, <1>4, <1>5

\* A fold about to be written is recorded in every answer it may undo.
LEMMA RecordNewer ==
    ASSUME Typed, Newer, NEW row \in Row \cup {NoRow}, NEW m \in Nat,
           Record(FoldKeys(row)), UNCHANGED <<tile, body, own, folded>>,
           \A p \in Grids \cup {Gone}, n \in Nat :
               Folding(p, n)' => Folding(p, n) \/ (p = row.place /\ n = m)
    PROVE  AheadOfFolds' /\ BodiesNew'
<1>1. Reading
  BY ReadingSays, FoldKeysType
<1>2. \A q \in Readers : reads'[q].phase = "answered" => FoldKeys(row) \subseteq reads'[q].touched
  BY TypedIs, FoldKeysType, RecordSays
<1>3. "tile" \in FoldKeys(row) /\ (row.place \in Grids => row.place \in FoldKeys(row))
  BY DEF FoldKeys
<1>4. AheadOfFolds'
  <2> SUFFICES ASSUME NEW q \in Readers, reads'[q].phase = "answered"
               PROVE  /\ "tile" \notin reads'[q].touched =>
                             /\ folded' <= reads'[q].got.n
                             /\ \A p \in Grids \cup {Gone}, n \in Nat :
                                    Folding(p, n)' => n <= reads'[q].got.n
                      /\ \A p \in Grids \ reads'[q].touched : reads'[q].what = p =>
                             /\ tile'.place = p => folded' <= reads'[q].got.n
                             /\ \A n \in Nat : Folding(p, n)' => n <= reads'[q].got.n
    BY DEF AheadOfFolds
  <2>1. /\ reads[q].phase = "answered" /\ reads'[q].what = reads[q].what
        /\ reads'[q].got = reads[q].got /\ reads[q].touched \subseteq reads'[q].touched
    BY <1>1 DEF Reading
  <2>2. "tile" \in reads'[q].touched
    BY <1>2, <1>3
  <2>3. ASSUME NEW p \in Grids \ reads'[q].touched, reads'[q].what = p
        PROVE  /\ tile'.place = p => folded' <= reads'[q].got.n
               /\ \A n \in Nat : Folding(p, n)' => n <= reads'[q].got.n
    <3>1. p # row.place
      BY <1>2, <1>3
    <3>2. p \in Grids \ reads[q].touched /\ reads[q].what = p
      BY <2>1, <2>3
    <3>3. \A n \in Nat : Folding(p, n)' => Folding(p, n)
      BY <3>1
    <3>4. QED
      BY <2>1, <3>2, <3>3 DEF Newer, AheadOfFolds
  <2>4. QED
    BY <2>2, <2>3
<1>5. BodiesNew'
  BY <1>2, <1>3 DEF Newer, BodiesNew
<1>6. QED
  BY <1>4, <1>5

\* What is folded was about to be.
LEMMA FoldNewer ==
    ASSUME Typed, Newer, Behind', NEW row \in Row \cup {NoRow}, FoldRow(row),
           Folding(row.place, row.n),
           \A p \in Grids \cup {Gone}, n \in Nat : Folding(p, n)' => Folding(p, n),
           UNCHANGED <<reads, own>>, write'.phase # "dropping" \/ write' = write
    PROVE  Newer'
<1>1. folded' = row.n /\ row.n \in Nat /\ row.place \in Grids \cup {Gone}
  BY RowTypes DEF FoldRow
<1>2. tile'.place \in Grids => tile'.place = row.place
  BY <1>1, RowTypes, ReadersApart DEF FoldRow, DeleteTile, UpsertTile
<1>3. body' \in {0, body}
  BY DEF FoldRow, DeleteTile, UpsertTile, Kept
<1>4. AheadOfFolds'
  <2> SUFFICES ASSUME NEW q \in Readers, reads'[q].phase = "answered"
               PROVE  /\ "tile" \notin reads'[q].touched =>
                             /\ folded' <= reads'[q].got.n
                             /\ \A p \in Grids \cup {Gone}, n \in Nat :
                                    Folding(p, n)' => n <= reads'[q].got.n
                      /\ \A p \in Grids \ reads'[q].touched : reads'[q].what = p =>
                             /\ tile'.place = p => folded' <= reads'[q].got.n
                             /\ \A n \in Nat : Folding(p, n)' => n <= reads'[q].got.n
    BY DEF AheadOfFolds
  <2>1. QED
    BY <1>1, <1>2 DEF Newer, AheadOfFolds
<1>5. BodiesNew'
  BY <1>3, Numbers DEF Newer, BodiesNew
<1>6. QED
  BY <1>4, <1>5 DEF Newer

\* The relay's steps, and the write's.
LEMMA FoldStepsNewer ==
    ASSUME Typed, Newer,
           \/ RelayTakes \/ RelayWrites \/ RelaySends
           \/ WriteSent \/ WriteTaken \/ WriteFails \/ WriteAnswered
           \/ WriteDropsBody \/ WriteRecords \/ WriteFolds
    PROVE  Newer'
<1>1. CASE RelayTakes
  <2> DEFINE e == Head(wire)
  <2>1. /\ wire # <<>> /\ wire' = Tail(wire) /\ relay.phase = "idle"
        /\ relay' = [phase |-> IF e.kind = "grid" THEN "written" ELSE "recorded", ev |-> e]
        /\ IF e.kind = "grid" THEN UNCHANGED reads
           ELSE Record(FoldKeys(IF e.kind = "removed" THEN NoRow ELSE e.row))
        /\ UNCHANGED <<far, tile, body, own, folded, write>>
    BY <1>1 DEF RelayTakes, farVars, rowVars, histVars
  <2>2. /\ 1 \in DOMAIN wire /\ e = wire[1] /\ e \in Event
        /\ \A i \in DOMAIN Tail(wire) : i + 1 \in DOMAIN wire /\ Tail(wire)[i] = wire[i + 1]
    BY <2>1, Numbers
  <2> HIDE DEF e
  <2>3. Behind'
    <3>1. \A i \in DOMAIN wire' : \E j \in DOMAIN wire : wire'[i] = wire[j]
      BY <2>1, <2>2
    <3>2. \E j \in DOMAIN wire : relay'.ev = wire[j]
      BY <2>1, <2>2
    <3>3. QED
      BY <2>1, <3>1, <3>2, BehindKept DEF Newer
  <2>4. CASE e.kind = "grid"
    <3>1. \A p \in Grids \cup {Gone}, n \in Nat : Folding(p, n)' => Folding(p, n)
      BY <2>1, <2>4 DEF Folding
    <3>2. QED
      BY <2>1, <2>3, <2>4, <3>1, ReadingSays, AnswersKept DEF Newer
  <2>5. CASE e.kind # "grid"
    <3> DEFINE row == IF e.kind = "removed" THEN NoRow ELSE e.row
    <3>1. e.row \in Row /\ e.row.n \in Nat /\ e.kind \in {"changed", "removed"}
      BY <2>2, <2>5, EventTypes
    <3>2. row \in Row \cup {NoRow} /\ Record(FoldKeys(row))
      BY <2>1, <2>5, <3>1
    <3>3. relay'.ev = e /\ row.place = (IF e.kind = "changed" THEN e.row.place ELSE Gone)
      BY <2>1, <3>1, RowTypes
    <3> HIDE DEF row
    <3>4. \A p \in Grids \cup {Gone}, n \in Nat :
              Folding(p, n)' => Folding(p, n) \/ (p = row.place /\ n = e.row.n)
      BY <2>1, <3>3 DEF Folding
    <3>5. AheadOfFolds' /\ BodiesNew'
      BY <2>1, <3>1, <3>2, <3>4, RecordNewer
    <3>6. QED
      BY <2>3, <3>5 DEF Newer
  <2>6. QED
    BY <2>4, <2>5
<1>2. CASE RelayWrites
  <2> DEFINE row == IF relay.ev.kind = "removed" THEN [relay.ev.row EXCEPT !.place = Gone] ELSE relay.ev.row
  <2>1. /\ relay.phase = "recorded" /\ relay' = [relay EXCEPT !.phase = "written"] /\ FoldRow(row)
        /\ UNCHANGED <<far, wire, reads, write, own>>
    BY <1>2 DEF RelayWrites, farVars, wireVars
  <2>2. /\ relay.ev.kind \in {"changed", "removed"} /\ relay.ev.row \in Row
        /\ relay \in [phase : {"recorded", "written"}, ev : Event]
    BY <2>1, EventTypes DEF Typed, RelayOK, Quiet
  <2>3. /\ row \in Row /\ row.n = relay.ev.row.n
        /\ row.place = (IF relay.ev.kind = "changed" THEN relay.ev.row.place ELSE Gone)
    BY <2>2 DEF Row
  <2>4. relay'.phase = "written" /\ relay'.ev = relay.ev
    BY <2>1, <2>2
  <2> HIDE DEF row
  <2>5. Folding(row.place, row.n)
    BY <2>1, <2>3 DEF Folding
  <2>6. \A p \in Grids \cup {Gone}, n \in Nat : Folding(p, n)' => Folding(p, n)
    BY <2>1, <2>4 DEF Folding
  <2>7. Behind'
    <3>1. folded' = row.n
      BY <2>1 DEF FoldRow
    <3>2. QED
      BY <2>1, <2>3, <2>4, <3>1 DEF Newer, Behind, Owing
  <2>8. QED
    BY <2>1, <2>3, <2>5, <2>6, <2>7, FoldNewer
<1>3. CASE RelaySends
  BY <1>3, ReadingSays, NewerKept DEF RelaySends, rowVars, farVars, wireVars, histVars, Quiet
<1>4. CASE WriteSent
  <2>1. write' = [write EXCEPT !.phase = "sent"] /\ write'.phase = "sent"
    BY <1>4 DEF WriteSent, Typed, WriteOK
  <2>2. QED
    BY <1>4, <2>1, ReadingSays, NewerKept DEF WriteSent, rowVars, farVars, wireVars, histVars
<1>5. CASE WriteTaken
  <2>1. /\ UNCHANGED <<reads, tile, body, own, folded, relay>> /\ far.place # Gone
        /\ write.phase = "sent"
    BY <1>5 DEF WriteTaken, rowVars
  <2>2. \E s \in Row : /\ Commit(s) /\ s.text >= far.text /\ far' = [s EXCEPT !.n = far.n + 1]
                       /\ \E row \in {far', [far' EXCEPT !.place = Gone]}, edit \in BOOLEAN :
                              write' = [phase |-> "answered", row |-> row, edit |-> edit]
    <3>1. far \in Row /\ far.text \in Nat
      BY Numbers
    <3>2. \A p : [far EXCEPT !.place = p].text = far.text
      BY <3>1 DEF Row
    <3>3. [far EXCEPT !.text = @ + 1].text = far.text + 1
      BY <3>1 DEF Row
    <3>4. /\ \A p \in Grids \cup {Gone} : [far EXCEPT !.place = p] \in Row
          /\ far.text < MaxText => [far EXCEPT !.text = @ + 1] \in Row
      BY WrittenRows DEF Typed
    <3>5. CASE /\ \E p \in (Grids \cup {Gone}) \ {far.place} : Commit([far EXCEPT !.place = p])
               /\ \E row \in {far', [far' EXCEPT !.place = Gone]} :
                      write' = [phase |-> "answered", row |-> row, edit |-> FALSE]
      <4>1. PICK p \in (Grids \cup {Gone}) \ {far.place} : Commit([far EXCEPT !.place = p])
        BY <3>5
      <4>2. [far EXCEPT !.place = p] \in Row /\ [far EXCEPT !.place = p].text >= far.text
        BY <3>1, <3>2, <3>4, <4>1
      <4>3. far' = [[far EXCEPT !.place = p] EXCEPT !.n = far.n + 1]
        BY <4>1 DEF Commit
      <4>4. QED
        BY <3>5, <4>1, <4>2, <4>3
    <3>6. CASE /\ far.text < MaxText /\ Commit([far EXCEPT !.text = @ + 1])
               /\ write' = [phase |-> "answered", row |-> far', edit |-> TRUE]
      <4>1. [far EXCEPT !.text = @ + 1] \in Row /\ [far EXCEPT !.text = @ + 1].text >= far.text
        BY <3>1, <3>3, <3>4, <3>6
      <4>2. far' = [[far EXCEPT !.text = @ + 1] EXCEPT !.n = far.n + 1]
        BY <3>6 DEF Commit
      <4>3. QED
        BY <3>6, <4>1, <4>2
    <3>7. QED
      BY <1>5, <3>5, <3>6 DEF WriteTaken
  <2>3. PICK s \in Row : /\ Commit(s) /\ s.text >= far.text /\ far' = [s EXCEPT !.n = far.n + 1]
                         /\ \E row \in {far', [far' EXCEPT !.place = Gone]}, edit \in BOOLEAN :
                                write' = [phase |-> "answered", row |-> row, edit |-> edit]
    BY <2>2
  <2>4. far' \in Row
    BY <2>1, <2>3, CommitSays, TypedIs
  <2>5. \A row \in {far', [far' EXCEPT !.place = Gone]} :
            row \in Row /\ row.n = far'.n /\ row.text = far'.text
    BY <2>4 DEF Row
  <2>6. write'.phase = "answered" /\ write'.row \in Row /\ write'.row.n = far'.n /\ write'.row.text = far'.text
    <3>1. PICK row \in {far', [far' EXCEPT !.place = Gone]}, edit \in BOOLEAN :
              write' = [phase |-> "answered", row |-> row, edit |-> edit]
      BY <2>3
    <3>2. write'.phase = "answered" /\ write'.row = row
      BY <3>1
    <3>3. QED
      BY <2>5, <3>2
  <2>7. Behind'
    BY <2>1, <2>3, <2>6, CommitBehind DEF Newer
  <2>8. \A p \in Grids \cup {Gone}, n \in Nat : Folding(p, n)' => Folding(p, n)
    BY <2>1, <2>6 DEF Folding
  <2>9. QED
    BY <2>1, <2>6, <2>7, <2>8, ReadingSays, AnswersKept DEF Newer
<1>6. CASE WriteFails
  BY <1>6, ReadingSays, NewerKept DEF WriteFails, rowVars, farVars, wireVars, histVars
<1>7. CASE WriteAnswered
  <2>1. /\ write.phase = "answered" /\ write' = [write EXCEPT !.phase = "dropping"]
        /\ Record({"tile"}) /\ UNCHANGED <<far, wire, tile, body, relay, own, folded>>
    BY <1>7 DEF WriteAnswered, Drops, rowVars, farVars, wireVars, histVars
  <2>2. write'.phase = "dropping" /\ write'.row = write.row
    BY <2>1 DEF Typed, WriteOK
  <2>3. Behind'
    BY <2>1, <2>2, BehindKept DEF Newer, Owing
  <2>4. \A p \in Grids \cup {Gone}, n \in Nat : Folding(p, n)' => Folding(p, n)
    BY <2>1, <2>2 DEF Folding
  <2>5. Reading /\ \A r \in Readers : reads'[r].phase = "answered" => "tile" \in reads'[r].touched
    <3>1. {"tile"} \in SUBSET Keys
      BY DEF Keys
    <3>2. QED
      BY <2>1, <3>1, ReadingSays, TypedIs, RecordSays
  <2>6. AheadOfFolds'
    <3> SUFFICES ASSUME NEW q \in Readers, reads'[q].phase = "answered"
                 PROVE  /\ "tile" \notin reads'[q].touched =>
                               /\ folded' <= reads'[q].got.n
                               /\ \A p \in Grids \cup {Gone}, n \in Nat :
                                      Folding(p, n)' => n <= reads'[q].got.n
                        /\ \A p \in Grids \ reads'[q].touched : reads'[q].what = p =>
                               /\ tile'.place = p => folded' <= reads'[q].got.n
                               /\ \A n \in Nat : Folding(p, n)' => n <= reads'[q].got.n
      BY DEF AheadOfFolds
    <3>1. /\ reads[q].phase = "answered" /\ reads'[q].what = reads[q].what
          /\ reads'[q].got = reads[q].got /\ reads[q].touched \subseteq reads'[q].touched
      BY <2>5 DEF Reading
    <3>2. QED
      BY <2>1, <2>4, <2>5, <3>1 DEF Newer, AheadOfFolds
  <2>7. BodiesNew'
    BY <2>1, <2>5 DEF Newer, BodiesNew
  <2>8. QED
    BY <2>3, <2>6, <2>7 DEF Newer
<1>8. CASE WriteDropsBody
  <2>1. /\ write.phase = "dropping" /\ body' = 0 /\ own' = write.row.text
        /\ write' = [write EXCEPT !.phase = "dropped"]
        /\ UNCHANGED <<far, wire, tile, reads, relay, folded>>
    BY <1>8 DEF WriteDropsBody, farVars, wireVars
  <2>2. write'.phase = "dropped" /\ write'.row = write.row
    BY <2>1 DEF Typed, WriteOK
  <2>3. Behind'
    BY <2>1, <2>2 DEF Newer, Behind, Owing
  <2>4. \A p \in Grids \cup {Gone}, n \in Nat : Folding(p, n)' => Folding(p, n)
    BY <2>1, <2>2 DEF Folding
  <2>5. AheadOfFolds'
    <3> SUFFICES ASSUME NEW q \in Readers, reads'[q].phase = "answered"
                 PROVE  /\ "tile" \notin reads'[q].touched =>
                               /\ folded' <= reads'[q].got.n
                               /\ \A p \in Grids \cup {Gone}, n \in Nat :
                                      Folding(p, n)' => n <= reads'[q].got.n
                        /\ \A p \in Grids \ reads'[q].touched : reads'[q].what = p =>
                               /\ tile'.place = p => folded' <= reads'[q].got.n
                               /\ \A n \in Nat : Folding(p, n)' => n <= reads'[q].got.n
      BY DEF AheadOfFolds
    <3>1. QED
      BY <2>1, <2>4 DEF Newer, AheadOfFolds
  <2>6. BodiesNew'
    BY <2>1, <2>2 DEF Newer, BodiesNew
  <2>7. QED
    BY <2>3, <2>5, <2>6 DEF Newer
<1>9. CASE WriteRecords
  <2>1. /\ write.phase \in {"dropped", "answered"} /\ Record(FoldKeys(write.row))
        /\ write' = [write EXCEPT !.phase = "recorded"]
        /\ UNCHANGED <<far, wire, tile, body, relay, own, folded>>
    BY <1>9 DEF WriteRecords, rowVars, farVars, wireVars, histVars
  <2>2. write'.phase = "recorded" /\ write'.row = write.row
    BY <2>1 DEF Typed, WriteOK
  <2>3. write.row \in Row /\ write.row.n \in Nat
    BY <2>1, Numbers DEF Newer, Behind, Owing
  <2>4. Behind'
    BY <2>1, <2>2, BehindKept DEF Newer, Owing
  <2>5. \A p \in Grids \cup {Gone}, n \in Nat :
            Folding(p, n)' => Folding(p, n) \/ (p = write.row.place /\ n = write.row.n)
    BY <2>1, <2>2 DEF Folding
  <2>6. AheadOfFolds' /\ BodiesNew'
    BY <2>1, <2>2, <2>3, <2>5, RecordNewer
  <2>7. QED
    BY <2>4, <2>6 DEF Newer
<1>10. CASE WriteFolds
  <2>1. /\ write.phase = "recorded" /\ FoldRow(write.row) /\ write'.phase = "idle"
        /\ UNCHANGED <<far, wire, reads, relay, own>>
    BY <1>10 DEF WriteFolds, farVars, wireVars
  <2>2. write.row \in Row /\ write.row.n \in Nat /\ write.row.n <= far.n /\ Folding(write.row.place, write.row.n)
    BY <2>1, Numbers DEF Newer, Behind, Owing, Folding
  <2>3. folded' = write.row.n
    BY <2>1 DEF FoldRow
  <2>4. Behind'
    BY <2>1, <2>2, <2>3 DEF Newer, Behind, Owing
  <2>5. \A p \in Grids \cup {Gone}, n \in Nat : Folding(p, n)' => Folding(p, n)
    BY <2>1 DEF Folding
  <2>6. QED
    BY <2>1, <2>2, <2>4, <2>5, FoldNewer
<1>11. QED
  BY <1>1, <1>2, <1>3, <1>4, <1>5, <1>6, <1>7, <1>8, <1>9, <1>10

\* Every step keeps all of it, and so it holds throughout.
LEMMA NewerHolds == Spec => [](Typed /\ Newer)
<1>1. Init => Newer
  <2> SUFFICES ASSUME Init PROVE Newer
    OBVIOUS
  <2>1. /\ far.n = 0 /\ far.text = 1 /\ wire = <<>> /\ relay.phase = "idle" /\ write.phase = "idle"
        /\ body = 0 /\ own = 0 /\ folded = 0 /\ \A r \in Readers : reads[r].phase = "idle"
    BY DEF Init, Quiet, Idle
  <2>2. Behind
    BY <2>1 DEF Behind, Owing
  <2>3. AheadOfFolds /\ BodiesNew
    BY <2>1 DEF AheadOfFolds, BodiesNew
  <2>4. QED
    BY <2>2, <2>3 DEF Newer
<1>2. Typed /\ Newer /\ [Next]_vars => Newer'
  <2> SUFFICES ASSUME Typed, Newer, [Next]_vars PROVE Newer'
    OBVIOUS
  <2>1. CASE UNCHANGED vars
    BY <2>1, ReadingSays, NewerKept DEF vars, farVars, wireVars, rowVars, histVars
  <2>2. CASE Next
    BY <2>2, ReadStepsNewer, FarStepsNewer, FoldStepsNewer DEF Next
  <2>3. QED
    BY <2>1, <2>2
<1>3. QED
  BY <1>1, <1>2, InitTyped, NextTyped, PTL DEF Spec

\* "A cached body must be one the source vouched for whole" (Layer.WriteContent):
\* once the user's edit is answered, no body from before it is found in the
\* cache, whatever reads of it were in flight.
THEOREM NoOldBodyIsKept == Spec => []NoBodyFromBeforeTheEdit
<1>1. Typed /\ Newer => NoBodyFromBeforeTheEdit
  <2>1. Typed => own \in Nat /\ body \in Nat
    <3>1. Typed => own \in Nat
      BY Numbers
    <3>2. Typed => body \in 0..MaxText /\ MaxText \in Nat
      BY CacheAssumption DEF Typed, RowsOK, CacheAssumption
    <3>3. QED
      BY <3>1, <3>2
  <2>2. QED
    BY <2>1 DEF Newer, BodiesNew, NoBodyFromBeforeTheEdit
<1>2. QED
  BY <1>1, NewerHolds, PTL

\* A read that ends with its answer, and changes the row, was as new as the fold
\* it replaces.
Undoes ==
    \E r \in Readers :
        /\ reads[r].phase = "answered" /\ reads'[r].phase = "idle" /\ tile' # tile
        /\ ~(reads[r].got.n >= folded)

\* "An answer the source gave before a fold the layer applied since is older than
\* the rows it would replace, so it is not installed" (foldorder.go).
THEOREM NoAnswerUndoesAFold == Spec => InstallsNeverUndoFolds
<1>1. Typed /\ Newer /\ [Next]_vars => ~Undoes
  <2> SUFFICES ASSUME Typed, Newer, Next, NEW r \in Readers,
                      reads[r].phase = "answered", reads'[r].phase = "idle", tile' # tile
               PROVE  reads[r].got.n >= folded
    <3>1. UNCHANGED vars => ~Undoes
      BY DEF vars, rowVars, Undoes
    <3>2. QED
      BY <3>1 DEF Undoes
  <2>1. reads \in [Readers -> Read]
    BY DEF Typed, ReadsOK
  <2>2. ASSUME NEW q \in Readers, Answered(q) PROVE reads[r].got.n >= folded
    <3>1. Install(q) /\ Ends(q) /\ reads[q].phase = "answered"
      BY <2>2 DEF Answered
    <3>2. q = r
      BY <2>1, <3>1 DEF Ends
    <3>3. QED
      BY <3>1, <3>2, InstallNewer
  <2>3. ASSUME NEW q \in Readers, Refused(q) PROVE FALSE
    <3>1. Ends(q) /\ reads[q].phase = "refused"
      BY <2>3 DEF Refused
    <3>2. reads' = [reads EXCEPT ![q] = Idle] /\ q # r
      BY <3>1 DEF Ends
    <3>3. QED
      BY <2>1, <3>2
  <2>4. ASSUME tile' # tile
        PROVE  \/ \E q \in Readers : Answered(q) \/ Refused(q)
               \/ RelayWrites \/ WriteFolds
    BY <2>4 DEF Next, FarWrites, FarRelists, Break, Serve, Miss, UserReads, Revalidate, Walks,
                FarAnswers, FarRefuses, NotHeard, Reopen, RelayTakes, RelaySends, WriteSent,
                WriteTaken, WriteFails, WriteAnswered, WriteDropsBody, WriteRecords, rowVars
  <2>5. RelayWrites \/ WriteFolds => reads' = reads
    BY DEF RelayWrites, WriteFolds
  <2>6. QED
    BY <2>2, <2>3, <2>4, <2>5
<1>2. Spec => [][~Undoes]_vars
  <2>1. Typed /\ Newer /\ [Next]_vars => [~Undoes]_vars
    BY <1>1
  <2>2. QED
    BY <2>1, NewerHolds, PTL DEF Spec
<1>3. [~Undoes]_vars => [\A r \in Readers :
          reads[r].phase = "answered" /\ reads'[r].phase = "idle" /\ tile' # tile
             => reads[r].got.n >= folded]_vars
  BY DEF Undoes
<1>4. QED
  BY <1>2, <1>3, PTL DEF InstallsNeverUndoFolds

----------------------------------------------------------------------------
(***************************************************************************)
(* The rows come to be the far node's.                                     *)
(***************************************************************************)

\* The last event added at the end of a queue keeps it in order.
LEMMA AppendInOrder ==
    ASSUME NEW q \in Seq(Event), NEW f \in Row, NEW e \in Event, Says(e, f),
           \A i \in DOMAIN q : ~Says(q[i], f),
           \A i \in DOMAIN q : q[i].kind = "removed" => q[i].grid # f.place
    PROVE  InOrder(Append(q, e), f) /\ \E i \in DOMAIN Append(q, e) : Says(Append(q, e)[i], f)
<1> DEFINE p == Append(q, e)
           end == Len(q) + 1
<1>1. /\ Len(q) \in Nat /\ DOMAIN q = 1..Len(q) /\ DOMAIN p = 1..end /\ end \in DOMAIN p
      /\ p[end] = e /\ \A i \in 1..Len(q) : p[i] = q[i]
  OBVIOUS
<1>2. \A i \in DOMAIN p : i = end \/ i \in DOMAIN q
  BY <1>1
<1> HIDE DEF p
<1>3. \A i \in DOMAIN p : i <= end /\ (Says(p[i], f) => i = end)
  BY <1>1, <1>2
<1>4. e.kind = "removed" => e.grid # f.place
  BY EventTypes, ReadersApart DEF Says
<1>5. \A i \in DOMAIN p : p[i].kind = "removed" => p[i].grid # f.place
  BY <1>1, <1>2, <1>4
<1>6. \A i, j \in DOMAIN p : Says(p[i], f) /\ i < j => p[j].kind = "grid"
  BY <1>1, <1>3
<1>7. InOrder(p, f)
  BY <1>1, <1>3, <1>5, <1>6 DEF InOrder
<1>8. QED
  BY <1>1, <1>7 DEF p

\* So does an edit that takes the place of the last.
LEMMA EditInOrder ==
    ASSUME NEW q \in Seq(Event), Unique(q), NEW f \in Row, InOrder(q, f), f.place # Gone,
           NEW e \in Event, NEW h \in Row, Says(e, h), h.place = f.place,
           \A i \in DOMAIN q : ~Says(q[i], h)
    PROVE  InOrder(Put(q, e), h) /\ \E i \in DOMAIN Put(q, e) : Says(Put(q, e)[i], h)
<1>1. CASE Put(q, e) = Append(q, e)
  BY <1>1, AppendInOrder DEF InOrder
<1>2. ASSUME NEW i \in 1..Len(q), EventKey(q[i]) = EventKey(e), Len(Put(q, e)) = Len(q),
             Put(q, e)[i] = e, \A j \in 1..Len(q) : j # i => Put(q, e)[j] = q[j]
      PROVE  InOrder(Put(q, e), h) /\ \E j \in DOMAIN Put(q, e) : Says(Put(q, e)[j], h)
  <2> DEFINE p == Put(q, e)
  <2>1. /\ p \in Seq(Event) /\ DOMAIN q = 1..Len(q) /\ DOMAIN p = 1..Len(q) /\ Len(q) \in Nat
        /\ p[i] = e /\ \A j \in 1..Len(q) : j # i => p[j] = q[j]
    BY <1>2, PutSays
  <2> HIDE DEF p
  <2>2. e.kind = "changed" /\ q[i].kind = "changed"
    BY <1>2 DEF Says, EventKey
  <2>3. \A j \in 1..Len(q) : Says(q[j], f) => j = i
    <3>1. \A j \in 1..Len(q) : Says(q[j], f) => EventKey(q[j]) = EventKey(q[i])
      BY <2>2 DEF Says, EventKey
    <3>2. Pending(q, q[i]) = {i}
      BY <2>1 DEF Unique
    <3>3. QED
      BY <2>1, <3>1, <3>2 DEF Pending
  <2>4. Says(q[i], f)
    BY <2>1, <2>2, <2>3 DEF InOrder
  <2>5. \A j \in 1..Len(q) : q[j].kind # "grid" => j <= i
    BY <2>1, <2>3 DEF InOrder
  <2>6. \A j \in 1..Len(q) : Says(p[j], h) => j = i
    BY <2>1
  <2>7. \A j \in 1..Len(q) : i < j => p[j].kind = "grid"
    BY <2>1, <2>5
  <2>8. \A j \in 1..Len(q) : p[j].kind = "removed" => p[j].grid # h.place
    BY <2>1, <2>2 DEF InOrder
  <2>9. \A j \in 1..Len(q) : p[j].kind # "grid" => j <= i
    BY <2>1, <2>5
  <2>10. InOrder(p, h)
    <3>1. \A j \in DOMAIN p : p[j].kind # "grid" => \E k \in DOMAIN p : j <= k /\ Says(p[k], h)
      BY <2>1, <2>9
    <3>2. \A j, k \in DOMAIN p : Says(p[j], h) /\ j < k => p[k].kind = "grid"
      BY <2>1, <2>6, <2>7
    <3>3. QED
      BY <2>1, <2>8, <3>1, <3>2 DEF InOrder
  <2>11. QED
    BY <2>1, <2>10 DEF p
<1>3. QED
  BY <1>1, <1>2, PutSays

\* So does an event of a grid alone, which takes no event of the tile's away.
LEMMA RelistInOrder ==
    ASSUME NEW q \in Seq(Event), Unique(q), NEW f \in Row, NEW e \in Event, e.kind = "grid"
    PROVE  /\ InOrder(q, f) => InOrder(Put(q, e), f)
           /\ (\E i \in DOMAIN q : Says(q[i], f)) => \E i \in DOMAIN Put(q, e) : Says(Put(q, e)[i], f)
           /\ (\A i \in DOMAIN q : q[i].kind = "grid") =>
                  \A i \in DOMAIN Put(q, e) : Put(q, e)[i].kind = "grid"
<1> DEFINE p == Put(q, e)
<1>1. /\ p \in Seq(Event) /\ Len(q) \in Nat /\ DOMAIN q = 1..Len(q) /\ DOMAIN p = 1..Len(p)
      /\ Len(p) >= Len(q) /\ Len(p) \in Nat
      /\ \A j \in 1..Len(p) : \/ p[j].kind = "grid" /\ (j \in 1..Len(q) => q[j].kind = "grid")
                              \/ j \in 1..Len(q) /\ p[j] = q[j]
  <2>1. CASE p = Append(q, e)
    BY <2>1
  <2>2. ASSUME NEW i \in 1..Len(q), EventKey(q[i]) = EventKey(e), Len(p) = Len(q),
               p[i] = e, \A j \in 1..Len(q) : j # i => p[j] = q[j]
        PROVE  /\ Len(p) >= Len(q) /\ Len(p) \in Nat
               /\ \A j \in 1..Len(p) : \/ p[j].kind = "grid" /\ (j \in 1..Len(q) => q[j].kind = "grid")
                                       \/ j \in 1..Len(q) /\ p[j] = q[j]
    <3>1. q[i].kind = "grid"
      BY <2>2 DEF EventKey
    <3> HIDE DEF p
    <3>2. QED
      BY <2>2, <3>1
  <2>3. p \in Seq(Event)
    BY PutSays
  <2>4. \/ p = Append(q, e)
        \/ \E i \in 1..Len(q) : /\ EventKey(q[i]) = EventKey(e) /\ Len(p) = Len(q) /\ p[i] = e
                                /\ \A j \in 1..Len(q) : j # i => p[j] = q[j]
    BY PutSays
  <2> HIDE DEF p
  <2>5. QED
    BY <2>1, <2>2, <2>3, <2>4
<1> HIDE DEF p
<1>2. \A d : Says(d, f) => d.kind # "grid"
  BY DEF Says
<1>3. \A j \in 1..Len(q) : q[j].kind # "grid" => j \in 1..Len(p) /\ p[j] = q[j]
  BY <1>1
<1>4. \A j \in 1..Len(p) : p[j].kind # "grid" => j \in 1..Len(q) /\ p[j] = q[j]
  BY <1>1
<1>5. (\E i \in DOMAIN q : Says(q[i], f)) => \E i \in DOMAIN p : Says(p[i], f)
  BY <1>1, <1>2, <1>3
<1>6. (\A i \in DOMAIN q : q[i].kind = "grid") => \A i \in DOMAIN p : p[i].kind = "grid"
  BY <1>1, <1>4
<1>7. InOrder(q, f) => InOrder(p, f)
  <2> SUFFICES ASSUME InOrder(q, f) PROVE InOrder(p, f)
    OBVIOUS
  <2>1. \A j \in DOMAIN p : p[j].kind # "grid" => \E k \in DOMAIN p : j <= k /\ Says(p[k], f)
    BY <1>1, <1>2, <1>3, <1>4 DEF InOrder
  <2>2. \A j, k \in DOMAIN p : Says(p[j], f) /\ j < k => p[k].kind = "grid"
    <3> SUFFICES ASSUME NEW j \in DOMAIN p, NEW k \in DOMAIN p, Says(p[j], f), j < k,
                        p[k].kind # "grid"
                 PROVE  FALSE
      OBVIOUS
    <3>1. /\ j \in 1..Len(q) /\ k \in 1..Len(q) /\ p[j] = q[j] /\ p[k] = q[k]
      BY <1>1, <1>2, <1>4
    <3>2. QED
      BY <1>1, <3>1 DEF InOrder
  <2>3. \A j \in DOMAIN p : p[j].kind = "removed" => p[j].grid # f.place
    BY <1>1, <1>4 DEF InOrder
  <2>4. QED
    BY <2>1, <2>2, <2>3 DEF InOrder
<1>8. QED
  BY <1>5, <1>6, <1>7 DEF p

\* What is left of a queue once its head is taken.
LEMMA TailInOrder ==
    ASSUME NEW q \in Seq(Event), q # <<>>, NEW f \in Row
    PROVE  /\ DOMAIN Tail(q) = 1..(Len(q) - 1) /\ DOMAIN q = 1..Len(q) /\ 1 \in DOMAIN q
           /\ \A i \in DOMAIN Tail(q) : i + 1 \in DOMAIN q /\ Tail(q)[i] = q[i + 1]
           /\ \A i \in DOMAIN q : i = 1 \/ (i - 1 \in DOMAIN Tail(q) /\ Tail(q)[i - 1] = q[i])
           /\ InOrder(q, f) => InOrder(Tail(q), f)
<1> DEFINE p == Tail(q)
<1>1. Len(q) \in Nat /\ Len(q) # 0
  OBVIOUS
<1>2. /\ DOMAIN p = 1..(Len(q) - 1) /\ DOMAIN q = 1..Len(q) /\ 1 \in DOMAIN q
      /\ \A i \in DOMAIN p : i + 1 \in DOMAIN q /\ p[i] = q[i + 1]
  BY <1>1
<1> HIDE DEF p
<1>3. \A i \in DOMAIN q : i = 1 \/ (i - 1 \in DOMAIN p /\ p[i - 1] = q[i])
  BY <1>1, <1>2
<1>4. ASSUME InOrder(q, f) PROVE InOrder(p, f)
  <2>1. ASSUME NEW i \in DOMAIN p, p[i].kind # "grid"
        PROVE  \E j \in DOMAIN p : i <= j /\ Says(p[j], f)
    <3>1. PICK k \in DOMAIN q : i + 1 <= k /\ Says(q[k], f)
      BY <1>2, <1>4, <2>1 DEF InOrder
    <3>2. k # 1 /\ i <= k - 1
      BY <1>1, <1>2, <3>1
    <3>3. QED
      BY <1>3, <3>1, <3>2
  <2>2. ASSUME NEW i \in DOMAIN p, NEW j \in DOMAIN p, Says(p[i], f), i < j
        PROVE  p[j].kind = "grid"
    <3>1. i + 1 < j + 1
      BY <1>1, <1>2, <2>2
    <3>2. QED
      BY <1>2, <1>4, <2>2, <3>1 DEF InOrder
  <2>3. \A i \in DOMAIN p : p[i].kind = "removed" => p[i].grid # f.place
    BY <1>2, <1>4 DEF InOrder
  <2>4. QED
    BY <2>1, <2>2, <2>3 DEF InOrder
<1>5. QED
  BY <1>2, <1>3, <1>4 DEF p

\* A write of the tile that is told tells last how it is now.
LEMMA CommitInOrder ==
    ASSUME Typed, Behind, far.place # Gone, NEW s \in Row, Commit(s), open,
           InOrder(wire, far), "coalesced" \notin excuse'
    PROVE  InOrder(wire', far') /\ \E i \in DOMAIN wire' : Says(wire'[i], far')
<1>1. /\ far \in Row /\ far' \in Row /\ far'.n = far.n + 1 /\ far.n \in Nat /\ wire \in Seq(Event)
      /\ Unique(wire) /\ DOMAIN wire = 1..Len(wire) /\ Leaves(far.place, far') \in Event
      /\ far'.place # Gone => Arrives(far') \in Event
  BY TypedIs, Numbers, CommitSays
<1>2. \A i \in DOMAIN wire : wire[i].row # far' /\ ~Says(wire[i], far')
  BY <1>1, Numbers DEF Behind, Says
<1>3. /\ Arrives(far').kind = "changed" /\ Arrives(far').row = far'
      /\ Leaves(far.place, far').kind = "removed" /\ Leaves(far.place, far').row = far'
      /\ Leaves(far.place, far').grid = far.place
  BY DEF Arrives, Leaves
<1>4. \A i \in DOMAIN wire : wire[i].kind = "removed" => wire[i].grid # far.place
  BY DEF InOrder
<1>5. Put(wire, Leaves(far.place, far')) = Append(wire, Leaves(far.place, far'))
  <2>1. Pending(wire, Leaves(far.place, far')) = {}
    <3>1. \A i \in DOMAIN wire : EventKey(wire[i]) # EventKey(Leaves(far.place, far'))
      BY <1>3, <1>4 DEF EventKey
    <3>2. QED
      BY <3>1 DEF Pending
  <2>2. QED
    BY <2>1 DEF Put
<1>6. CASE far'.place = far.place
  <2>1. Says(Arrives(far'), far')
    BY <1>3, <1>6 DEF Says
  <2>2. wire' = Put(wire, Arrives(far'))
    BY <1>6, TypedIs, CommitSays
  <2>3. Arrives(far') \in Event
    BY <1>1, <1>6
  <2>4. QED
    BY <1>1, <1>2, <1>6, <2>1, <2>2, <2>3, EditInOrder
<1>7. CASE far'.place = Gone
  <2>1. Says(Leaves(far.place, far'), far')
    BY <1>3, <1>7 DEF Says
  <2>2. wire' = Append(wire, Leaves(far.place, far'))
    BY <1>5, <1>7, TypedIs, CommitSays
  <2>3. \A i \in DOMAIN wire : wire[i].kind = "removed" => wire[i].grid # far'.place
    BY <1>7, Numbers, EventTypes, ReadersApart
  <2>4. QED
    BY <1>1, <1>2, <2>1, <2>2, <2>3, AppendInOrder
<1>8. CASE far'.place \notin {far.place, Gone}
  <2> DEFINE q == Append(wire, Leaves(far.place, far'))
  <2>1. /\ q \in Seq(Event) /\ Unique(q) /\ wire' = Put(q, Arrives(far')) /\ ~Overtakes(q, Arrives(far'))
    BY <1>5, <1>8, TypedIs, CommitSays
  <2>2. /\ DOMAIN q = 1..(Len(wire) + 1) /\ Len(wire) \in Nat /\ q[Len(wire) + 1] = Leaves(far.place, far')
        /\ \A i \in 1..Len(wire) : q[i] = wire[i]
    BY <1>1
  <2> HIDE DEF q
  <2>3. Pending(q, Arrives(far')) = {}
    <3>1. \A i \in Pending(q, Arrives(far')) : i \in 1..Len(wire)
      BY <1>3, <2>2 DEF Pending, EventKey
    <3>2. \A i \in Pending(q, Arrives(far')) : Overtakes(q, Arrives(far'))
      <4>1. \A i \in 1..Len(wire) : Len(wire) + 1 > i
        BY <2>2
      <4>2. Len(wire) + 1 \in DOMAIN q /\ q[Len(wire) + 1].kind = "removed"
        BY <1>3, <2>2
      <4>3. QED
        BY <3>1, <4>1, <4>2 DEF Overtakes
    <3>3. QED
      BY <2>1, <3>2
  <2>4. wire' = Append(q, Arrives(far'))
    BY <2>1, <2>3 DEF Put
  <2>5. Says(Arrives(far'), far') /\ Arrives(far') \in Event
    BY <1>1, <1>3, <1>8 DEF Says
  <2>6. \A i \in DOMAIN q : i = Len(wire) + 1 \/ i \in 1..Len(wire)
    BY <2>2
  <2>7. \A i \in DOMAIN q : ~Says(q[i], far')
    <3>1. ~Says(Leaves(far.place, far'), far')
      BY <1>3, <1>8 DEF Says
    <3>2. QED
      BY <1>1, <1>2, <2>2, <2>6, <3>1
  <2>8. \A i \in DOMAIN q : q[i].kind = "removed" => q[i].grid # far'.place
    <3>1. \A i \in 1..Len(wire) : wire[i].kind = "grid"
      <4>1. \A j \in 1..Len(wire) : wire[j].kind # "changed"
        <5>1. \A j \in 1..Len(wire) : wire[j].kind = "changed" => EventKey(q[j]) = EventKey(Arrives(far'))
          BY <1>3, <2>2 DEF EventKey
        <5>2. \A j \in 1..Len(wire) : wire[j].kind = "changed" => j \in Pending(q, Arrives(far'))
          BY <2>2, <5>1 DEF Pending
        <5>3. QED
          BY <2>3, <5>2
      <4>2. \A j \in 1..Len(wire) : ~Says(wire[j], far)
        BY <4>1 DEF Says
      <4>3. QED
        BY <1>1, <4>2 DEF InOrder
    <3>2. QED
      BY <1>3, <1>8, <2>2, <2>6, <3>1
  <2>9. QED
    BY <1>1, <2>1, <2>4, <2>5, <2>7, <2>8, AppendInOrder
<1>9. QED
  BY <1>6, <1>7, <1>8

\* What the reads that ended, began or were recorded over say of the order.
LEMMA OrderKept ==
    ASSUME Typed, Ordered, Reading, UNCHANGED <<far, wire>>, open' \/ open' = open,
           excuse \subseteq excuse',
           relay' = relay \/ (relay.phase # "recorded" /\ relay'.phase # "recorded"),
           \A g \in Grids : Cached(g)' => Cached(g) /\ (Matches(g) => Matches(g)')
    PROVE  Ordered'
<1>1. LastOnWire' <=> LastOnWire
  BY DEF LastOnWire, IsLast
<1>2. LastComing' <=> LastComing
  BY <1>1 DEF LastComing, IsLast
<1>3. RelayOrdered => RelayOrdered'
  BY <1>1 DEF RelayOrdered, IsLast
<1>4. AnswersNow => AnswersNow'
  BY <1>1 DEF AnswersNow, Reading
<1>5. RowsMatch => RowsMatch'
  BY <1>2 DEF RowsMatch
<1>6. /\ "coalesced" \notin excuse' => "coalesced" \notin excuse
      /\ {"coalesced", "lost"} \cap excuse' = {} => {"coalesced", "lost"} \cap excuse = {}
      /\ excuse' = {} => excuse = {}
  OBVIOUS
<1>7. QED
  BY <1>3, <1>4, <1>5, <1>6 DEF Ordered

\* A write that is told brings the last event, whatever was before.
LEMMA CommitOrdered ==
    ASSUME Typed, Newer, Ordered, far.place # Gone, NEW s \in Row, Commit(s),
           UNCHANGED <<open, relay, reads>>
    PROVE  Ordered'
<1>1. excuse \subseteq excuse' /\ (~open => wire' = wire /\ "lost" \in excuse')
  BY TypedIs, CommitSays
<1>2. open' \/ wire' = <<>>
  BY <1>1 DEF Ordered
<1>3. far.n \in Nat /\ far'.n = far.n + 1
  BY TypedIs, Numbers, CommitSays
<1>4. CASE "coalesced" \notin excuse' /\ open
  <2>1. InOrder(wire', far') /\ \E i \in DOMAIN wire' : Says(wire'[i], far')
    BY <1>1, <1>4, CommitInOrder DEF Ordered, Newer
  <2>2. LastOnWire'
    BY <2>1 DEF LastOnWire, IsLast
  <2>3. relay.phase = "recorded" => relay.ev.row # far'
    BY <1>3, Numbers DEF Newer, Behind
  <2>4. RelayOrdered'
    BY <2>2, <2>3 DEF RelayOrdered, IsLast, Says
  <2>5. AnswersNow' /\ RowsMatch'
    BY <2>2 DEF AnswersNow, RowsMatch, LastComing
  <2>6. QED
    BY <1>2, <2>1, <2>4, <2>5 DEF Ordered
<1>5. CASE "coalesced" \in excuse'
  BY <1>2, <1>5 DEF Ordered
<1>6. CASE "coalesced" \notin excuse' /\ ~open
  <2>1. wire' = <<>> /\ "lost" \in excuse'
    BY <1>1, <1>6 DEF Ordered
  <2>2. InOrder(wire', far')
    BY <2>1 DEF InOrder
  <2>3. QED
    BY <1>2, <2>1, <2>2 DEF Ordered
<1>7. QED
  BY <1>4, <1>5, <1>6 DEF Typed, FlagsOK

\* The far node's other steps, and the reads that begin.
LEMMA FarStepsOrdered ==
    ASSUME Typed, Newer, Ordered,
           \/ FarWrites \/ (\E g \in Grids : FarRelists(g)) \/ Break
           \/ (\E g \in Grids : Serve(g) \/ Miss(g) \/ Revalidate(g) \/ Walks(g))
           \/ (\E what \in {"tile", "body"} : UserReads(what)) \/ Reopen
    PROVE  Ordered'
<1>0. UNCHANGED <<tile, grids, far>> =>
          \A g \in Grids : Cached(g)' => Cached(g) /\ (Matches(g) => Matches(g)')
  BY DEF Cached, Matches
<1>1. CASE FarWrites
  <2>1. \E s \in Row : Commit(s)
    BY <1>1, WrittenRows DEF FarWrites, Typed
  <2>2. QED
    BY <1>1, <2>1, CommitOrdered DEF FarWrites
<1>2. ASSUME NEW g \in Grids, FarRelists(g) PROVE Ordered'
  <2> DEFINE e == [kind |-> "grid", grid |-> g, row |-> NoRow]
  <2>1. /\ e \in Event /\ e.kind = "grid" /\ wire \in Seq(Event) /\ Unique(wire)
        /\ ~open => wire' = wire
        /\ open => wire' = Put(wire, e)
        /\ excuse \subseteq excuse' /\ UNCHANGED <<far, open, relay, reads, tile, grids>>
    BY <1>2, TypedIs, RelistSays, Numbers DEF FarRelists, rowVars
  <2> HIDE DEF e
  <2>2. wire' = wire \/ wire' = Put(wire, e)
    BY <2>1 DEF Typed, FlagsOK
  <2>3. far \in Row
    BY Numbers
  <2>4. /\ InOrder(wire, far) => InOrder(wire', far')
        /\ LastOnWire => LastOnWire'
        /\ (\A i \in DOMAIN wire : wire[i].kind = "grid") => \A i \in DOMAIN wire' : wire'[i].kind = "grid"
    <3>1. CASE wire' = wire
      BY <2>1, <3>1 DEF LastOnWire, IsLast
    <3>2. CASE wire' = Put(wire, e)
      BY <2>1, <2>3, <3>2, RelistInOrder DEF LastOnWire, IsLast
    <3>3. QED
      BY <2>2, <3>1, <3>2
  <2>5. open' \/ wire' = <<>>
    BY <2>1 DEF Ordered
  <2>6. RelayOrdered => RelayOrdered'
    BY <2>1, <2>4 DEF RelayOrdered, IsLast
  <2>7. AnswersNow => AnswersNow'
    BY <2>1, <2>4 DEF AnswersNow
  <2>8. RowsMatch => RowsMatch'
    BY <2>1, <2>4 DEF RowsMatch, LastComing, IsLast, Matches, Cached
  <2>9. /\ "coalesced" \notin excuse' => "coalesced" \notin excuse
        /\ {"coalesced", "lost"} \cap excuse' = {} => {"coalesced", "lost"} \cap excuse = {}
        /\ excuse' = {} => excuse = {}
    BY <2>1
  <2>10. QED
    BY <2>4, <2>5, <2>6, <2>7, <2>8, <2>9 DEF Ordered
<1>3. CASE Break
  <2>1. /\ open /\ wire' = <<>> /\ UNCHANGED <<far, relay, reads, tile, grids>>
        /\ excuse' = IF wire # <<>> THEN excuse \cup {"lost"} ELSE excuse
    BY <1>3 DEF Break, farVars, rowVars
  <2>2. InOrder(wire', far')
    BY <2>1 DEF InOrder
  <2>3. CASE wire = <<>>
    <3>1. ~LastOnWire
      BY <2>3 DEF LastOnWire
    <3>2. /\ RelayOrdered => RelayOrdered'
          /\ AnswersNow => AnswersNow'
          /\ RowsMatch => RowsMatch'
      BY <2>1, <2>3, <3>1 DEF RelayOrdered, AnswersNow, RowsMatch, LastComing, LastOnWire, IsLast,
                              Matches, Cached
    <3>3. QED
      BY <2>1, <2>2, <2>3, <3>2 DEF Ordered
  <2>4. CASE wire # <<>>
    <3>1. "lost" \in excuse'
      BY <2>1, <2>4
    <3>2. QED
      BY <2>1, <2>2, <3>1 DEF Ordered
  <2>5. QED
    BY <2>3, <2>4
<1>4. ASSUME NEW g \in Grids, Serve(g) PROVE Ordered'
  BY <1>0, <1>4, Starting, OrderKept DEF Serve, rowVars, farVars, wireVars
<1>5. ASSUME NEW g \in Grids, Miss(g) PROVE Ordered'
  BY <1>0, <1>5, ReadingSays, ReadersApart, OrderKept DEF Miss, rowVars, farVars, wireVars, histVars
<1>6. ASSUME NEW g \in Grids, Revalidate(g) PROVE Ordered'
  BY <1>0, <1>6, Starting, OrderKept DEF Revalidate, rowVars, farVars, wireVars, histVars
<1>7. ASSUME NEW g \in Grids, Walks(g) PROVE Ordered'
  BY <1>0, <1>7, ReadingSays, ReadersApart, OrderKept DEF Walks, rowVars, farVars, wireVars, histVars
<1>8. ASSUME NEW what \in {"tile", "body"}, UserReads(what) PROVE Ordered'
  BY <1>0, <1>8, ReadingSays, ReadersApart, OrderKept DEF UserReads, rowVars, farVars, wireVars, histVars
<1>9. CASE Reopen
  BY <1>0, <1>9, ReadingSays, OrderKept DEF Reopen, rowVars, farVars, histVars
<1>10. QED
  BY <1>1, <1>2, <1>3, <1>4, <1>5, <1>6, <1>7, <1>8, <1>9

\* An answer that is installed matches the far node, or leaves what does.
LEMMA InstallMatches ==
    ASSUME Typed, NEW r \in Readers, reads[r].phase = "answered", Install(r), UNCHANGED far,
           reads[r].got = far \/ FoldKeys(far) \subseteq reads[r].touched,
           \A g \in Grids : Cached(g) => Matches(g)
    PROVE  \A g \in Grids : Cached(g)' => Matches(g)'
<1>1. reads[r].what \in Grids \cup {"tile", "body"} /\ far.place \in Grids \cup {Gone} /\ grids \in [Grids -> -1..MaxList]
  BY ReadFields, Numbers DEF Typed, ReadsOK, RowsOK, Assigned
<1>2. "tile" \in FoldKeys(far) /\ (far.place \in Grids => far.place \in FoldKeys(far))
  BY DEF FoldKeys
<1>3. CASE ~Installs(r, AnswerKeys(r))
  BY <1>3 DEF Install, rowVars, Cached, Matches
<1>4. CASE Installs(r, AnswerKeys(r)) /\ reads[r].what \in Grids
  <2>0. PICK h \in Grids : h = reads[r].what
    BY <1>4
  <2>1. StoreGrid(h, reads[r].got, reads[r].list)
    BY <1>4, <2>0, ReadersApart DEF Install
  <2>2. h \notin reads[r].touched /\ (reads[r].got.place = h => "tile" \notin reads[r].touched)
    BY <1>4, <2>0 DEF Installs, AnswerKeys
  <2>3. /\ tile' = (IF reads[r].got.place = h THEN reads[r].got ELSE IF tile.place = h THEN NoRow ELSE tile)
        /\ \A g \in Grids \ {h} : Cached(g)' => Cached(g)
    BY <1>1, <2>1, <2>2 DEF StoreGrid, Cached
  <2>4. \/ reads[r].got = far
        \/ far.place # h /\ reads[r].got.place # h
    BY <1>2, <2>2
  <2>5. NoRow.place = Gone /\ Gone \notin Grids
    BY RowTypes, ReadersApart
  <2>6. Matches(h)'
    BY <2>2, <2>3, <2>4, <2>5 DEF Matches
  <2>7. \A g \in Grids \ {h} : Cached(g)' => Matches(g)'
    BY <2>2, <2>3, <2>4, <2>5 DEF Matches
  <2>8. QED
    BY <2>6, <2>7
<1>5. CASE Installs(r, AnswerKeys(r)) /\ reads[r].what = "tile"
  <2>1. "tile" \notin reads[r].touched /\ UpsertTile(reads[r].got)
    BY <1>5, ReadersApart DEF Installs, AnswerKeys, Install
  <2>2. tile' = far
    BY <1>2, <2>1 DEF UpsertTile
  <2>3. QED
    BY <2>2 DEF Matches
<1>6. CASE Installs(r, AnswerKeys(r)) /\ reads[r].what = "body"
  <2>1. UNCHANGED <<tile, grids>>
    BY <1>6, ReadersApart DEF Install
  <2>2. QED
    BY <2>1 DEF Cached, Matches
<1>7. QED
  BY <1>1, <1>3, <1>4, <1>5, <1>6

\* A fold of the far node's row matches it.
LEMMA FoldMatches ==
    ASSUME Typed, NEW row, FoldRow(row), UNCHANGED far,
           row = far \/ (far.place = Gone /\ row.place = Gone)
    PROVE  \A g \in Grids : Matches(g)'
<1>1. CASE row.place = Gone
  BY <1>1, RowTypes, ReadersApart DEF FoldRow, DeleteTile, Matches
<1>2. CASE row.place # Gone
  BY <1>2 DEF FoldRow, UpsertTile, Matches
<1>3. QED
  BY <1>1, <1>2

\* The reads' steps.
LEMMA ReadStepsOrdered ==
    ASSUME Typed, Ordered, NEW r \in Readers,
           \/ FarAnswers(r) \/ FarRefuses(r) \/ Answered(r) \/ Refused(r) \/ NotHeard(r)
    PROVE  Ordered'
<1>0. UNCHANGED <<tile, grids, far>> =>
          \A g \in Grids : Cached(g)' => Cached(g) /\ (Matches(g) => Matches(g)')
  BY DEF Cached, Matches
<1>1. CASE FarAnswers(r)
  <2>1. reads[r].phase = "asked" /\ reads \in [Readers -> Read] /\ reads[r] \in Read
    BY <1>1 DEF FarAnswers, Typed, ReadsOK
  <2> DEFINE ph == IF reads[r].what \in {"tile", "body"} /\ far.place = Gone THEN "refused" ELSE "answered"
             ls == IF reads[r].what \in Grids THEN farList[reads[r].what] ELSE 0
             new == [reads[r] EXCEPT !.phase = ph, !.got = far, !.list = ls]
  <2>2. reads' = [reads EXCEPT ![r] = new] /\ new.got = far
    BY <1>1, <2>1 DEF FarAnswers, Read
  <2> HIDE DEF new
  <2>3. UNCHANGED <<far, wire, relay, tile, grids, open, excuse>>
    BY <1>1 DEF FarAnswers, farVars, wireVars, rowVars, histVars
  <2>4. AnswersNow => AnswersNow'
    BY <2>1, <2>2, <2>3 DEF AnswersNow, LastOnWire, IsLast
  <2>5. (RelayOrdered => RelayOrdered') /\ (RowsMatch => RowsMatch')
    BY <2>3 DEF RelayOrdered, RowsMatch, LastComing, LastOnWire, IsLast, Matches, Cached
  <2>6. QED
    BY <2>3, <2>4, <2>5 DEF Ordered
<1>2. CASE FarRefuses(r)
  BY <1>0, <1>2, Refusing, OrderKept DEF FarRefuses, rowVars, farVars, wireVars, histVars
<1>3. CASE Answered(r)
  <2>1. /\ reads[r].phase = "answered" /\ Install(r) /\ Ends(r)
        /\ UNCHANGED <<far, wire, relay, open, excuse>>
    BY <1>3 DEF Answered, farVars, wireVars
  <2>2. Reading
    BY <2>1, ReadingSays
  <2>3. (LastOnWire' <=> LastOnWire) /\ (LastComing' <=> LastComing)
    BY <2>1 DEF LastOnWire, LastComing, IsLast
  <2>4. RelayOrdered => RelayOrdered'
    BY <2>1, <2>3 DEF RelayOrdered, IsLast
  <2>5. AnswersNow => AnswersNow'
    BY <2>1, <2>2, <2>3 DEF AnswersNow, Reading
  <2>6. AnswersNow /\ RowsMatch => RowsMatch'
    <3>1. CASE LastComing
      BY <2>3, <3>1 DEF RowsMatch
    <3>2. CASE ~LastComing
      BY <2>1, <3>2, InstallMatches DEF AnswersNow, RowsMatch, LastComing
    <3>3. QED
      BY <3>1, <3>2
  <2>7. QED
    BY <2>1, <2>4, <2>5, <2>6 DEF Ordered
<1>4. CASE Refused(r)
  <2>1. \A g \in Grids : Cached(g)' => Cached(g) /\ (Matches(g) => Matches(g)')
    <3>1. CASE r \in Grids
      <4>1. EvictGrid(r) /\ far' = far /\ grids \in [Grids -> -1..MaxList]
        BY <1>4, <3>1 DEF Refused, farVars, Typed, RowsOK
      <4>2. \A g \in Grids : Cached(g)' => Cached(g) /\ g # r
        BY <3>1, <4>1 DEF EvictGrid, Cached
      <4>3. \A g \in Grids \ {r} : Matches(g) => Matches(g)'
        BY <4>1, RowTypes, ReadersApart DEF EvictGrid, Matches
      <4>4. QED
        BY <4>2, <4>3
    <3>2. CASE r \notin Grids
      BY <1>0, <1>4, <3>2 DEF Refused, rowVars, farVars
    <3>3. QED
      BY <3>1, <3>2
  <2>2. QED
    BY <1>4, <2>1, ReadingSays, OrderKept DEF Refused, farVars, wireVars, histVars
<1>5. CASE NotHeard(r)
  BY <1>0, <1>5, ReadingSays, OrderKept DEF NotHeard, rowVars, farVars, wireVars, histVars
<1>6. QED
  BY <1>1, <1>2, <1>3, <1>4, <1>5

\* An event taken off the wire is the last of them, or the last is still there.
LEMMA TakeOrdered ==
    ASSUME Typed, Ordered, RelayTakes
    PROVE  Ordered'
<1> DEFINE e == Head(wire)
<1>1. /\ wire # <<>> /\ wire' = Tail(wire) /\ relay.phase = "idle"
      /\ relay' = [phase |-> IF e.kind = "grid" THEN "written" ELSE "recorded", ev |-> e]
      /\ IF e.kind = "grid" THEN UNCHANGED reads
         ELSE Record(FoldKeys(IF e.kind = "removed" THEN NoRow ELSE e.row))
      /\ UNCHANGED <<far, tile, grids, excuse, open>>
  BY DEF RelayTakes, farVars, rowVars, histVars
<1>2. wire \in Seq(Event) /\ far \in Row /\ e = wire[1] /\ e \in Event
  BY <1>1, Numbers
<1> HIDE DEF e
<1>3. /\ 1 \in DOMAIN wire
      /\ \A i \in DOMAIN wire' : i + 1 \in DOMAIN wire /\ wire'[i] = wire[i + 1]
      /\ \A i \in DOMAIN wire : i = 1 \/ (i - 1 \in DOMAIN wire' /\ wire'[i - 1] = wire[i])
      /\ InOrder(wire, far) => InOrder(wire', far')
      /\ DOMAIN wire = 1..Len(wire) /\ DOMAIN wire' = 1..(Len(wire) - 1) /\ Len(wire) \in Nat
  BY <1>1, <1>2, TailInOrder
<1>4. relay'.ev = e /\ (relay'.phase = "recorded" <=> e.kind # "grid")
  BY <1>1
<1>5. open'
  BY <1>1 DEF Ordered, Typed, FlagsOK
<1>6. LastOnWire => LastOnWire' \/ (IsLast(e) /\ e.kind # "grid")
  <2>1. IsLast(e) => e.kind # "grid"
    BY DEF IsLast, Says
  <2>2. QED
    BY <1>1, <1>2, <1>3, <2>1 DEF LastOnWire, IsLast
<1>7. InOrder(wire, far) => RelayOrdered'
  <2> SUFFICES ASSUME InOrder(wire, far), e.kind # "grid"
               PROVE  IF Says(e, far) THEN \A i \in DOMAIN wire' : wire'[i].kind = "grid" ELSE LastOnWire'
    BY <1>1, <1>4 DEF RelayOrdered, IsLast
  <2>1. CASE Says(e, far)
    <3>1. \A i \in DOMAIN wire' : 1 < i + 1
      BY <1>3
    <3>2. QED
      BY <1>2, <1>3, <2>1, <3>1 DEF InOrder
  <2>2. CASE ~Says(e, far)
    <3>1. PICK j \in DOMAIN wire : Says(wire[j], far)
      BY <1>2, <1>3 DEF InOrder
    <3>2. QED
      BY <1>1, <1>2, <1>3, <2>2, <3>1 DEF LastOnWire, IsLast
  <2>3. QED
    BY <2>1, <2>2
<1>8. Reading
  BY <1>1, ReadingSays, FoldKeysType
<1>9. AnswersNow => AnswersNow'
  <2> SUFFICES ASSUME AnswersNow, NEW q \in Readers, reads'[q].phase = "answered", ~LastOnWire'
               PROVE  reads'[q].got = far \/ FoldKeys(far) \subseteq reads'[q].touched
    BY <1>1 DEF AnswersNow
  <2>1. /\ reads[q].phase = "answered" /\ reads'[q].got = reads[q].got
        /\ reads[q].touched \subseteq reads'[q].touched
    BY <1>8 DEF Reading
  <2>2. CASE ~LastOnWire
    BY <2>1, <2>2 DEF AnswersNow
  <2>3. CASE LastOnWire
    <3>1. IsLast(e) /\ e.kind # "grid"
      BY <1>6, <2>3
    <3>2. Record(FoldKeys(far))
      <4>1. e.kind = "changed" => e.row = far
        BY <3>1 DEF IsLast, Says
      <4>2. e.kind = "removed" => FoldKeys(NoRow) = FoldKeys(far)
        BY <3>1, FoldKeysType, ReadersApart DEF IsLast, Says, FoldKeys
      <4>3. e.kind = "changed" \/ e.kind = "removed"
        BY <1>2, <3>1, EventTypes
      <4>4. QED
        BY <1>1, <3>1, <4>1, <4>2, <4>3 DEF Record
    <3>3. FoldKeys(far) \subseteq reads'[q].touched
      BY <2>1, <3>2, FoldKeysType, TypedIs, RecordSays
    <3>4. QED
      BY <3>3
  <2>4. QED
    BY <2>2, <2>3
<1>10. RowsMatch => RowsMatch'
  <2>1. LastComing => LastComing'
    BY <1>1, <1>4, <1>6 DEF LastComing, IsLast
  <2>2. QED
    BY <1>1, <2>1 DEF RowsMatch, Cached, Matches
<1>11. QED
  BY <1>1, <1>3, <1>5, <1>7, <1>9, <1>10 DEF Ordered

\* The relay's other steps, and the write's.
LEMMA FoldStepsOrdered ==
    ASSUME Typed, Newer, Ordered,
           \/ RelayTakes \/ RelayWrites \/ RelaySends
           \/ WriteSent \/ WriteTaken \/ WriteFails \/ WriteAnswered
           \/ WriteDropsBody \/ WriteRecords \/ WriteFolds
    PROVE  Ordered'
<1>0. UNCHANGED <<tile, grids, far>> =>
          \A g \in Grids : Cached(g)' => Cached(g) /\ (Matches(g) => Matches(g)')
  BY DEF Cached, Matches
<1>1. CASE RelayTakes
  BY <1>1, TakeOrdered
<1>2. CASE RelayWrites
  <2> DEFINE row == IF relay.ev.kind = "removed" THEN [relay.ev.row EXCEPT !.place = Gone] ELSE relay.ev.row
  <2>1. /\ relay.phase = "recorded" /\ relay' = [relay EXCEPT !.phase = "written"] /\ FoldRow(row)
        /\ UNCHANGED <<far, wire, reads, open, excuse>>
    BY <1>2 DEF RelayWrites, farVars, wireVars
  <2>2. relay'.phase = "written"
    BY <2>1 DEF Typed, RelayOK, Quiet
  <2>3. LastOnWire' <=> LastOnWire
    BY <2>1 DEF LastOnWire, IsLast
  <2>4. RelayOrdered'
    BY <2>2 DEF RelayOrdered
  <2>5. AnswersNow => AnswersNow'
    BY <2>1, <2>3 DEF AnswersNow
  <2>6. RelayOrdered => RowsMatch'
    <3>1. CASE IsLast(relay.ev)
      <4>1. row = far \/ (far.place = Gone /\ row.place = Gone)
        BY <3>1, Numbers DEF IsLast, Says, Row
      <4> HIDE DEF row
      <4>2. QED
        BY <2>1, <4>1, FoldMatches DEF RowsMatch
    <3>2. CASE ~IsLast(relay.ev)
      BY <2>1, <2>3, <3>2 DEF RelayOrdered, RowsMatch, LastComing
    <3>3. QED
      BY <3>1, <3>2
  <2>7. QED
    BY <2>1, <2>4, <2>5, <2>6 DEF Ordered
<1>3. CASE RelaySends
  <2>1. relay.phase # "recorded" /\ relay'.phase # "recorded"
    BY <1>3 DEF RelaySends, Quiet
  <2>2. QED
    BY <1>0, <1>3, <2>1, ReadingSays, OrderKept DEF RelaySends, rowVars, farVars, wireVars, histVars
<1>4. CASE WriteSent
  BY <1>0, <1>4, ReadingSays, OrderKept DEF WriteSent, rowVars, farVars, wireVars, histVars
<1>5. CASE WriteTaken
  <2>1. \E s \in Row : Commit(s)
    BY <1>5, WrittenRows DEF WriteTaken, Typed
  <2>2. QED
    BY <1>5, <2>1, CommitOrdered DEF WriteTaken
<1>6. CASE WriteFails
  BY <1>0, <1>6, ReadingSays, OrderKept DEF WriteFails, rowVars, farVars, wireVars, histVars
<1>7. CASE WriteAnswered
  <2>1. Reading
    BY <1>7, ReadingSays DEF WriteAnswered, Drops, Keys
  <2>2. QED
    BY <1>0, <1>7, <2>1, OrderKept DEF WriteAnswered, rowVars, farVars, wireVars, histVars
<1>8. CASE WriteDropsBody
  BY <1>0, <1>8, ReadingSays, OrderKept DEF WriteDropsBody, farVars, wireVars
<1>9. CASE WriteRecords
  <2>1. Reading
    BY <1>9, ReadingSays, FoldKeysType DEF WriteRecords
  <2>2. QED
    BY <1>0, <1>9, <2>1, OrderKept DEF WriteRecords, rowVars, farVars, wireVars, histVars
<1>10. CASE WriteFolds
  <2>1. /\ write.phase = "recorded" /\ FoldRow(write.row) /\ UNCHANGED <<far, wire, relay, reads, open>>
        /\ excuse' = IF write.row # far /\ (write.row.n < folded \/ ~Coming)
                     THEN excuse \cup {"late answer"} ELSE excuse
    BY <1>10 DEF WriteFolds, farVars, wireVars
  <2>2. (LastOnWire' <=> LastOnWire) /\ (LastComing' <=> LastComing)
    BY <2>1 DEF LastOnWire, LastComing, IsLast
  <2>3. (RelayOrdered => RelayOrdered') /\ (AnswersNow => AnswersNow')
    BY <2>1, <2>2 DEF RelayOrdered, AnswersNow, IsLast
  <2>4. InOrder(wire, far) /\ RelayOrdered /\ excuse' = {} => RowsMatch'
    <3> SUFFICES ASSUME InOrder(wire, far), RelayOrdered, excuse' = {} PROVE RowsMatch'
      OBVIOUS
    <3>1. CASE write.row = far
      BY <2>1, <3>1, FoldMatches DEF RowsMatch
    <3>2. CASE write.row # far
      <4>1. Coming
        BY <2>1, <3>2
      <4>2. far.n \in Nat /\ far.n >= 1
        <5>1. write.row.n \in 1..far.n
          BY <2>1 DEF Newer, Behind, Owing
        <5>2. far.n \in Nat
          BY Numbers
        <5>3. QED
          BY <5>1, <5>2
      <4>3. \A i \in DOMAIN wire : wire[i].row.n = far.n => wire[i].kind # "grid"
        BY <4>2, Numbers, EventTypes, RowTypes
      <4>4. LastComing
        BY <4>1, <4>3 DEF Coming, LastComing, LastOnWire, InOrder, RelayOrdered, IsLast
      <4>5. QED
        BY <2>2, <4>4 DEF RowsMatch
    <3>3. QED
      BY <3>1, <3>2
  <2>5. excuse \subseteq excuse'
    BY <2>1
  <2>6. QED
    BY <2>1, <2>3, <2>4, <2>5 DEF Ordered
<1>11. QED
  BY <1>1, <1>2, <1>3, <1>4, <1>5, <1>6, <1>7, <1>8, <1>9, <1>10

\* It holds throughout.
LEMMA OrderHolds == Spec => [](Typed /\ Newer /\ Ordered)
<1>1. Init => Ordered
  <2> SUFFICES ASSUME Init PROVE Ordered
    OBVIOUS
  <2>1. /\ wire = <<>> /\ open /\ relay.phase = "idle" /\ \A r \in Readers : reads[r].phase = "idle"
        /\ \A g \in Grids : grids[g] = -1
    BY DEF Init, Quiet, Idle
  <2>2. InOrder(wire, far) /\ RelayOrdered /\ AnswersNow
    BY <2>1 DEF InOrder, RelayOrdered, AnswersNow
  <2>3. RowsMatch
    BY <2>1 DEF RowsMatch, Cached
  <2>4. QED
    BY <2>1, <2>2, <2>3 DEF Ordered
<1>2. Typed /\ Newer /\ Ordered /\ [Next]_vars => Ordered'
  <2> SUFFICES ASSUME Typed, Newer, Ordered, [Next]_vars PROVE Ordered'
    OBVIOUS
  <2>1. CASE UNCHANGED vars
    <3>1. UNCHANGED <<far, wire, open, excuse, relay, tile, grids, reads>>
      BY <2>1 DEF vars, farVars, wireVars, rowVars, histVars
    <3>2. \A g \in Grids : Cached(g)' => Cached(g) /\ (Matches(g) => Matches(g)')
      BY <3>1 DEF Cached, Matches
    <3>3. QED
      BY <3>1, <3>2, ReadingSays, OrderKept
  <2>2. CASE Next
    BY <2>2, ReadStepsOrdered, FarStepsOrdered, FoldStepsOrdered DEF Next
  <2>3. QED
    BY <2>1, <2>2
<1>3. QED
  BY <1>1, <1>2, NewerHolds, PTL DEF Spec

\* At rest every cached grid has the tile exactly where and as the far node has
\* it, unless the stream lost an event, a coalesced move was told before its
\* removal, or a write's answer was folded after a newer event.
THEOREM RowsConverge == Spec => []Converged
<1>1. Ordered => Converged
  <2> SUFFICES ASSUME Ordered, Rest, excuse = {}, NEW g \in Grids, Cached(g)
               PROVE  CachedListing(g).text = Listed(far, farList[g], g).text
    BY DEF Converged
  <2>1. ~LastComing
    BY DEF Rest, LastComing, LastOnWire, Quiet
  <2>2. Matches(g)
    BY <2>1 DEF Ordered, RowsMatch
  <2>3. QED
    BY <2>2 DEF Matches, CachedListing, Listed
<1>2. QED
  BY <1>1, OrderHolds, PTL

----------------------------------------------------------------------------
(***************************************************************************)
(* What changes is announced.                                              *)
(***************************************************************************)

\* The user's read is as it was, and what it has been answered is too.
Asking ==
    \A g \in Grids :
        /\ reads'["user"].what = g =>
               /\ reads["user"].what = g
               /\ reads'["user"].phase = "answered" =>
                      /\ reads["user"].phase = "answered"
                      /\ reads'["user"].got = reads["user"].got
                      /\ reads'["user"].list = reads["user"].list
        /\ reads'["user"].what # g /\ served'[g] # Never =>
               reads["user"].what # g /\ served'[g] = served[g]

\* No cue is taken back, and a cached listing that changes has one, or is silent.
LEMMA HeardKept ==
    ASSUME Typed, Announcing, Asking, silent \subseteq silent', excuse \subseteq excuse',
           \A g \in Grids :
               /\ Hears(g) => Hears(g)'
               /\ cued[g] => cued'[g]
               /\ Now(g)' = Now(g) \/ Hears(g)'
               /\ Cached(g)' => Cached(g) \/ cued'[g] \/ g \in silent'
               /\ CachedListing(g)' = CachedListing(g) \/ Hears(g)' \/ g \in silent'
    PROVE  Announcing'
<1> SUFFICES ASSUME excuse' \subseteq {"lost"} PROVE UserReadKnown' /\ ServedKnown'
  BY DEF Announcing
<1>1. UserReadKnown /\ ServedKnown
  BY DEF Announcing
<1>2. UserReadKnown'
  <2> SUFFICES ASSUME NEW g \in Grids, reads'["user"].what = g
               PROVE  /\ Cached(g)' => cued'[g] \/ g \in silent'
                      /\ reads'["user"].phase = "answered" =>
                             \/ Hears(g)'
                             \/ Listed(reads'["user"].got, reads'["user"].list, g) = Now(g)'
    BY DEF UserReadKnown
  <2>1. reads["user"].what = g
    BY DEF Asking
  <2>2. Cached(g)' => cued'[g] \/ g \in silent'
    BY <1>1, <2>1 DEF UserReadKnown
  <2>3. ASSUME reads'["user"].phase = "answered"
        PROVE  Hears(g)' \/ Listed(reads'["user"].got, reads'["user"].list, g) = Now(g)'
    <3>1. /\ reads["user"].phase = "answered" /\ reads'["user"].got = reads["user"].got
          /\ reads'["user"].list = reads["user"].list
      BY <2>3 DEF Asking
    <3>2. QED
      BY <1>1, <2>1, <3>1 DEF UserReadKnown
  <2>4. QED
    BY <2>2, <2>3
<1>3. ServedKnown'
  <2> SUFFICES ASSUME NEW g \in Grids \ silent', reads'["user"].what # g, served'[g] # Never
               PROVE  \/ Hears(g)'
                      \/ served'[g] = CachedListing(g)'
                      \/ ~Cached(g)' /\ (excuse' = {} => served'[g] = Now(g)')
    BY DEF ServedKnown
  <2>1. reads["user"].what # g /\ served'[g] = served[g] /\ g \in Grids \ silent
    BY DEF Asking
  <2>2. \/ Hears(g) \/ served[g] = CachedListing(g)
        \/ ~Cached(g) /\ (excuse = {} => served[g] = Now(g))
    BY <1>1, <2>1 DEF ServedKnown
  <2>3. CachedListing(g)' = CachedListing(g) => (Cached(g)' <=> Cached(g))
    <3>1. CachedListing(g).list = grids[g] /\ CachedListing(g)'.list = grids'[g]
      BY DEF CachedListing, Cached, Never
    <3>2. QED
      BY <3>1 DEF Cached
  <2>4. CASE Hears(g)
    BY <2>4
  <2>5. CASE served[g] = CachedListing(g)
    BY <2>1, <2>5
  <2>6. CASE ~Cached(g) /\ (excuse = {} => served[g] = Now(g))
    <3>1. excuse' = {} => excuse = {}
      OBVIOUS
    <3>2. CASE CachedListing(g)' = CachedListing(g) /\ Now(g)' = Now(g)
      BY <2>1, <2>3, <2>6, <3>1, <3>2
    <3>3. QED
      BY <3>2
  <2>7. QED
    BY <2>2, <2>4, <2>5, <2>6
<1>4. QED
  BY <1>2, <1>3

\* A step that leaves the wire and the relay takes back no cue.
LEMMA CuesGrow ==
    /\ \A gs : Cue(gs) => \A g \in Grids : cued[g] => cued'[g]
    /\ \A gs : Cue(gs) => \A g \in Grids \cap gs : cued'[g]
    /\ \A d : WriteNotices(d) => \A g \in Grids : cued[g] => cued'[g]
    /\ UNCHANGED <<wire, relay, open>> /\ (\A g \in Grids : cued[g] => cued'[g]) =>
           \A g \in Grids : Hears(g) => Hears(g)'
    /\ UNCHANGED <<far, farList>> => \A g \in Grids : Now(g)' = Now(g)
    /\ UNCHANGED grids => \A g \in Grids : Cached(g)' <=> Cached(g)
    /\ UNCHANGED <<tile, grids>> => \A g \in Grids : CachedListing(g)' = CachedListing(g)
<1>1. /\ \A gs : Cue(gs) => \A g \in Grids : cued[g] => cued'[g]
      /\ \A gs : Cue(gs) => \A g \in Grids \cap gs : cued'[g]
  BY DEF Cue
<1>2. \A d : WriteNotices(d) => \A g \in Grids : cued[g] => cued'[g]
  BY <1>1 DEF WriteNotices
<1>3. UNCHANGED <<wire, relay, open>> /\ (\A g \in Grids : cued[g] => cued'[g]) =>
          \A g \in Grids : Hears(g) => Hears(g)'
  BY DEF Hears, CueComing
<1>4. UNCHANGED <<far, farList>> => \A g \in Grids : Now(g)' = Now(g)
  BY DEF Now
<1>5. /\ UNCHANGED grids => \A g \in Grids : Cached(g)' <=> Cached(g)
      /\ UNCHANGED <<tile, grids>> => \A g \in Grids : CachedListing(g)' = CachedListing(g)
  BY DEF Cached, CachedListing
<1>6. QED
  BY <1>1, <1>2, <1>3, <1>4, <1>5

\* Who asks is as it was while only others' reads begin, end or are recorded over.
LEMMA AskingSays ==
    ASSUME Typed, UNCHANGED served
    PROVE  /\ UNCHANGED reads => Asking
           /\ \A r \in Readers \ {"user"} : \A x : reads' = [reads EXCEPT ![r] = x] => Asking
           /\ \A keys \in SUBSET Keys : Record(keys) => Asking
<1>1. reads \in [Readers -> Read] /\ "user" \in Readers
  BY ReadersApart DEF Typed, ReadsOK
<1>2. UNCHANGED reads => Asking
  BY DEF Asking
<1>3. \A r \in Readers \ {"user"} : \A x : reads' = [reads EXCEPT ![r] = x] => Asking
  BY <1>1 DEF Asking
<1>4. \A keys \in SUBSET Keys : Record(keys) => Asking
  BY <1>1, TypedIs, RecordSays DEF Asking
<1>5. QED
  BY <1>2, <1>3, <1>4

\* An event put in a queue is in it, and what it replaces named the same grid,
\* but for a row that may be elsewhere now.
LEMMA PutKeeps ==
    ASSUME NEW q \in Seq(Event), NEW e \in Event, Unique(q)
    PROVE  /\ \E j \in DOMAIN Put(q, e) : Put(q, e)[j] = e
           /\ \A i \in DOMAIN q : q[i].kind # "changed" =>
                  \E j \in DOMAIN Put(q, e) : Put(q, e)[j].grid = q[i].grid
           /\ \A i \in DOMAIN q : q[i].kind = "changed" /\ (e.kind # "changed" \/ q[i].grid = e.grid) =>
                  \E j \in DOMAIN Put(q, e) : Put(q, e)[j].grid = q[i].grid
<1> DEFINE p == Put(q, e)
<1>1. /\ p \in Seq(Event) /\ DOMAIN q = 1..Len(q) /\ DOMAIN p = 1..Len(p) /\ Len(q) \in Nat
      /\ \/ p = Append(q, e)
         \/ \E i \in 1..Len(q) : /\ EventKey(q[i]) = EventKey(e) /\ Len(p) = Len(q) /\ p[i] = e
                                 /\ \A j \in 1..Len(q) : j # i => p[j] = q[j]
  BY PutSays
<1> HIDE DEF p
<1>2. /\ \E j \in DOMAIN p : p[j] = e
      /\ \A i \in DOMAIN q : (\E j \in DOMAIN p : p[j] = q[i]) \/ EventKey(q[i]) = EventKey(e)
  <2>1. CASE p = Append(q, e)
    BY <1>1, <2>1
  <2>2. ASSUME NEW i \in 1..Len(q), EventKey(q[i]) = EventKey(e), Len(p) = Len(q), p[i] = e,
               \A j \in 1..Len(q) : j # i => p[j] = q[j]
        PROVE  /\ \E j \in DOMAIN p : p[j] = e
               /\ \A k \in DOMAIN q : (\E j \in DOMAIN p : p[j] = q[k]) \/ EventKey(q[k]) = EventKey(e)
    BY <1>1, <2>2
  <2>3. QED
    BY <1>1, <2>1, <2>2
<1>3. \A d : EventKey(d) = EventKey(e) => d.kind = e.kind /\ (e.kind # "changed" => d.grid = e.grid)
  BY DEF EventKey
<1>4. \A i \in DOMAIN q : q[i].kind # "changed" => \E j \in DOMAIN p : p[j].grid = q[i].grid
  BY <1>2, <1>3
<1>5. \A i \in DOMAIN q : q[i].kind = "changed" /\ (e.kind # "changed" \/ q[i].grid = e.grid) =>
          \E j \in DOMAIN p : p[j].grid = q[i].grid
  BY <1>2, <1>3
<1>6. QED
  BY <1>2, <1>4, <1>5 DEF p

\* A write of the tile cues the grids whose listings it changes.
LEMMA CommitCues ==
    ASSUME Typed, Newer, Ordered, far.place # Gone, NEW s \in Row, Commit(s), UNCHANGED <<farList, open, relay, cued>>,
           "coalesced" \notin excuse', NEW g \in Grids
    PROVE  /\ Hears(g) => Hears(g)'
           /\ Now(g)' = Now(g) \/ Hears(g)'
<1>1. CASE ~open
  BY <1>1 DEF Hears
<1>2. CASE open
  <2>1. /\ far \in Row /\ far' \in Row /\ wire \in Seq(Event) /\ wire' \in Seq(Event) /\ Unique(wire)
        /\ Leaves(far.place, far') \in Event /\ (far'.place # Gone => Arrives(far') \in Event)
        /\ excuse \subseteq excuse'
    BY TypedIs, Numbers, CommitSays
  <2>2. InOrder(wire, far)
    BY <2>1 DEF Ordered
  <2>3. /\ Arrives(far').kind = "changed" /\ Arrives(far').grid = far'.place
        /\ Leaves(far.place, far').kind = "removed" /\ Leaves(far.place, far').grid = far.place
    BY DEF Arrives, Leaves
  <2>4. \A i \in DOMAIN wire : wire[i].kind = "changed" => wire[i].grid = far.place
    <3> SUFFICES ASSUME NEW i \in DOMAIN wire, wire[i].kind = "changed" PROVE wire[i].grid = far.place
      OBVIOUS
    <3>1. PICK j \in DOMAIN wire : Says(wire[j], far)
      BY <2>2 DEF InOrder
    <3>2. EventKey(wire[i]) = EventKey(wire[j])
      BY <3>1 DEF Says, EventKey
    <3>3. Pending(wire, wire[i]) = {i} /\ j \in Pending(wire, wire[i])
      BY <2>1, <3>2 DEF Unique, Pending
    <3>4. wire[i].row = far
      BY <3>1, <3>3 DEF Says
    <3>5. QED
      BY <3>4 DEF Typed, WireOK
  <2>5. /\ (\E i \in DOMAIN wire : wire[i].grid = g) => \E j \in DOMAIN wire' : wire'[j].grid = g
        /\ (g = far.place \/ g = far'.place) => \E k \in DOMAIN wire' : wire'[k].grid = g
    <3>1. CASE far'.place = far.place
      <4>1. wire' = Put(wire, Arrives(far')) /\ Arrives(far') \in Event
        BY <1>2, <2>1, <3>1, TypedIs, CommitSays
      <4>2. \A i \in DOMAIN wire : wire[i].kind # "changed" =>
                \E j \in DOMAIN wire' : wire'[j].grid = wire[i].grid
        BY <2>1, <4>1, PutKeeps
      <4>3. \E j \in DOMAIN wire' : wire'[j].grid = far.place
        BY <2>1, <2>3, <3>1, <4>1, PutKeeps
      <4>4. QED
        BY <2>4, <3>1, <4>2, <4>3
    <3>2. CASE far'.place = Gone
      <4>1. wire' = Put(wire, Leaves(far.place, far'))
        BY <1>2, <3>2, TypedIs, CommitSays
      <4>2. QED
        BY <2>1, <2>3, <3>2, <4>1, PutKeeps, ReadersApart
    <3>3. CASE far'.place \notin {far.place, Gone}
      <4> DEFINE q == Put(wire, Leaves(far.place, far'))
      <4>1. /\ q \in Seq(Event) /\ Unique(q) /\ wire' = Put(q, Arrives(far')) /\ Arrives(far') \in Event
        BY <1>2, <2>1, <3>3, TypedIs, CommitSays
      <4>2. /\ (\E i \in DOMAIN wire : wire[i].grid = g) => \E j \in DOMAIN q : q[j].grid = g
            /\ \E k \in DOMAIN q : q[k] = Leaves(far.place, far')
        <5>1. /\ \E k \in DOMAIN q : q[k] = Leaves(far.place, far')
              /\ \A i \in DOMAIN wire : wire[i].kind # "changed" =>
                     \E k \in DOMAIN q : q[k].grid = wire[i].grid
              /\ \A i \in DOMAIN wire : wire[i].kind = "changed" =>
                     \E k \in DOMAIN q : q[k].grid = wire[i].grid
          BY <2>1, <2>3, PutKeeps
        <5>2. QED
          BY <5>1
      <4>3. \A j \in DOMAIN q : q[j].kind = "changed" => q[j].grid = far.place
        <5>1. \A j \in DOMAIN q : q[j] = Leaves(far.place, far') \/ \E i \in DOMAIN wire : q[j] = wire[i]
          BY <2>1, PutIn
        <5> HIDE DEF q
        <5>2. QED
          BY <2>3, <2>4, <5>1
      <4> HIDE DEF q
      <4>4. \A k \in DOMAIN q : q[k].kind # "changed" => \E j \in DOMAIN wire' : wire'[j].grid = q[k].grid
        BY <4>1, PutKeeps
      <4>5. \E j \in DOMAIN wire' : wire'[j].grid = far.place
        BY <2>3, <4>2, <4>4
      <4>6. \E j \in DOMAIN wire' : wire'[j].grid = far'.place
        BY <2>3, <4>1, PutKeeps
      <4>7. QED
        BY <4>2, <4>3, <4>4, <4>5, <4>6
    <3>4. QED
      BY <3>1, <3>2, <3>3
  <2>6. Now(g)' = Now(g) \/ g = far.place \/ g = far'.place
    BY DEF Now, Listed
  <2>7. /\ Hears(g) => Hears(g)' \/ \E i \in DOMAIN wire : wire[i].grid = g
        /\ (\E i \in DOMAIN wire' : wire'[i].grid = g) => Hears(g)'
    BY DEF Hears, CueComing
  <2>8. QED
    BY <2>5, <2>6, <2>7
<1>3. QED
  BY <1>1, <1>2 DEF Typed, FlagsOK

\* So it is announced.
LEMMA CommitAnnounced ==
    ASSUME Typed, Newer, Ordered, Announcing, far.place # Gone, NEW s \in Row, Commit(s),
           UNCHANGED <<farList, open, relay, reads, tile, grids, served, cued, silent>>,
           excuse \subseteq excuse'
    PROVE  Announcing'
<1>1. CASE "coalesced" \in excuse'
  BY <1>1 DEF Announcing
<1>2. CASE "coalesced" \notin excuse'
  <2>1. \A g \in Grids : (Hears(g) => Hears(g)') /\ (Now(g)' = Now(g) \/ Hears(g)')
    BY <1>2, CommitCues
  <2>2. Asking
    BY AskingSays
  <2>3. \A g \in Grids : (Cached(g)' <=> Cached(g)) /\ CachedListing(g)' = CachedListing(g)
    BY CuesGrow
  <2>4. QED
    BY <2>1, <2>2, <2>3, HeardKept
<1>3. QED
  BY <1>1, <1>2

\* The far node's steps, and the reads that begin.
LEMMA FarStepsAnnounced ==
    ASSUME Typed, Newer, Ordered, Announcing,
           \/ FarWrites \/ (\E g \in Grids : FarRelists(g)) \/ Break
           \/ (\E g \in Grids : Serve(g) \/ Miss(g) \/ Revalidate(g) \/ Walks(g))
           \/ (\E what \in {"tile", "body"} : UserReads(what)) \/ Reopen
    PROVE  Announcing'
<1>0. reads \in [Readers -> Read] /\ "user" \in Readers /\ Grids \subseteq Readers \ {"user"}
      /\ "walk" \in Readers \ {"user"}
  BY ReadersApart DEF Typed, ReadsOK
<1>1. CASE FarWrites
  <2>1. PICK s \in Row : Commit(s)
    BY <1>1, WrittenRows DEF FarWrites, Typed
  <2>2. /\ UNCHANGED <<farList, open, relay, reads, tile, grids, served, cued, silent>>
        /\ excuse \subseteq excuse' /\ far.place # Gone
    BY <1>1, <2>1, TypedIs, CommitSays DEF FarWrites, rowVars, cueVars
  <2>3. QED
    BY <2>1, <2>2, CommitAnnounced
<1>2. ASSUME NEW h \in Grids, FarRelists(h) PROVE Announcing'
  <2> DEFINE e == [kind |-> "grid", grid |-> h, row |-> NoRow]
  <2>1. /\ e \in Event /\ e.kind = "grid" /\ e.grid = h /\ wire \in Seq(Event) /\ Unique(wire)
        /\ ~open => wire' = wire
        /\ open => wire' = Put(wire, e)
        /\ excuse \subseteq excuse' /\ farList' = [farList EXCEPT ![h] = @ + 1]
        /\ farList \in [Grids -> 0..MaxList]
        /\ UNCHANGED <<far, open, relay, reads, tile, grids, served, cued, silent>>
    BY <1>2, TypedIs, RelistSays, Numbers DEF FarRelists, rowVars, cueVars, Typed, FarOK
  <2> HIDE DEF e
  <2>2. ASSUME NEW g \in Grids, open
        PROVE  /\ (\E i \in DOMAIN wire : wire[i].grid = g) => \E j \in DOMAIN wire' : wire'[j].grid = g
               /\ g = h => \E j \in DOMAIN wire' : wire'[j].grid = g
    <3>1. \A i \in DOMAIN wire : wire[i].kind # "changed" =>
              \E j \in DOMAIN wire' : wire'[j].grid = wire[i].grid
      BY <2>1, <2>2, PutKeeps
    <3>2. \A i \in DOMAIN wire : wire[i].kind = "changed" =>
              \E j \in DOMAIN wire' : wire'[j].grid = wire[i].grid
      BY <2>1, <2>2, PutKeeps
    <3>3. \E j \in DOMAIN wire' : wire'[j] = e
      BY <2>1, <2>2, PutKeeps
    <3>4. QED
      BY <2>1, <3>1, <3>2, <3>3
  <2>3. \A g \in Grids : Hears(g) => Hears(g)'
    BY <2>1, <2>2 DEF Hears, CueComing
  <2>4. \A g \in Grids : Now(g)' = Now(g) \/ Hears(g)'
    <3>1. Hears(h)'
      BY <2>1, <2>2 DEF Hears, CueComing
    <3>2. \A g \in Grids \ {h} : Now(g)' = Now(g)
      BY <2>1 DEF Now
    <3>3. QED
      BY <3>1, <3>2
  <2>5. Asking
    BY <2>1, AskingSays
  <2>6. \A g \in Grids : (Cached(g)' <=> Cached(g)) /\ CachedListing(g)' = CachedListing(g)
    BY <2>1, CuesGrow
  <2>7. QED
    BY <2>1, <2>3, <2>4, <2>5, <2>6, HeardKept
<1>3. CASE Break
  <2>1. /\ ~open' /\ excuse \subseteq excuse'
        /\ UNCHANGED <<far, farList, reads, tile, grids, served, cued, silent>>
    BY <1>3 DEF Break, farVars, rowVars, cueVars
  <2>2. \A g \in Grids : Hears(g)'
    BY <2>1 DEF Hears
  <2>3. Asking
    BY <2>1, AskingSays
  <2>4. \A g \in Grids : (Cached(g)' <=> Cached(g)) /\ CachedListing(g)' = CachedListing(g)
    BY <2>1, CuesGrow
  <2>5. QED
    BY <2>1, <2>2, <2>3, <2>4, HeardKept
<1>4. ASSUME NEW h \in Grids, Serve(h) PROVE Announcing'
  <2>1. /\ reads["user"].what # h /\ Cached(h) /\ reads'["user"] = reads["user"]
        /\ served' = [served EXCEPT ![h] = CachedListing(h)]
        /\ cued' = [cued EXCEPT ![h] = FALSE]
        /\ silent' = silent \ {h}
        /\ UNCHANGED <<far, farList, wire, open, tile, grids, relay, excuse>>
    BY <1>0, <1>4 DEF Serve, farVars, wireVars, rowVars
  <2>2. served \in [Grids -> Listing \cup {Never}] /\ cued \in [Grids -> BOOLEAN]
    BY DEF Typed, CuesOK
  <2>3. \A g \in Grids \ {h} : served'[g] = served[g] /\ cued'[g] = cued[g] /\ (g \in silent' <=> g \in silent)
    BY <2>1, <2>2
  <2>4. \A g \in Grids : /\ Now(g)' = Now(g) /\ (Cached(g)' <=> Cached(g))
                         /\ CachedListing(g)' = CachedListing(g)
    BY <2>1, CuesGrow
  <2>5. \A g \in Grids \ {h} : Hears(g)' <=> Hears(g)
    BY <2>1, <2>3 DEF Hears, CueComing
  <2>6. served'[h] = CachedListing(h)'
    BY <2>1, <2>2, <2>4
  <2>7. UserReadKnown => UserReadKnown'
    <3> SUFFICES ASSUME UserReadKnown, NEW g \in Grids, reads'["user"].what = g
                 PROVE  /\ Cached(g)' => cued'[g] \/ g \in silent'
                        /\ reads'["user"].phase = "answered" =>
                               \/ Hears(g)'
                               \/ Listed(reads'["user"].got, reads'["user"].list, g) = Now(g)'
      BY DEF UserReadKnown
    <3>1. g \in Grids \ {h} /\ reads["user"].what = g
      BY <2>1
    <3>2. QED
      BY <2>1, <2>3, <2>4, <2>5, <3>1 DEF UserReadKnown
  <2>8. ServedKnown => ServedKnown'
    <3> SUFFICES ASSUME ServedKnown, NEW g \in Grids \ silent', reads'["user"].what # g, served'[g] # Never
                 PROVE  \/ Hears(g)'
                        \/ served'[g] = CachedListing(g)'
                        \/ ~Cached(g)' /\ (excuse' = {} => served'[g] = Now(g)')
      BY DEF ServedKnown
    <3>1. CASE g = h
      BY <2>6, <3>1
    <3>2. CASE g # h
      BY <2>1, <2>3, <2>4, <2>5, <3>2 DEF ServedKnown
    <3>3. QED
      BY <3>1, <3>2
  <2>9. QED
    BY <2>1, <2>7, <2>8 DEF Announcing
<1>5. ASSUME NEW h \in Grids, Miss(h) PROVE Announcing'
  <2>1. /\ ~Cached(h) /\ reads["user"].phase = "idle" /\ reads' = Begins("user", h)
        /\ cued' = [cued EXCEPT ![h] = FALSE]
        /\ UNCHANGED <<far, farList, wire, open, tile, grids, relay, excuse, served, silent>>
    BY <1>5 DEF Miss, farVars, wireVars, rowVars, histVars
  <2>2. /\ reads["user"].what = NoRead
        /\ reads'["user"].what = h /\ reads'["user"].phase = "asked"
    BY <1>0, <2>1 DEF Begins, Idle, Typed, ReadsOK
  <2>3. cued \in [Grids -> BOOLEAN]
    BY DEF Typed, CuesOK
  <2>4. \A g \in Grids : /\ Now(g)' = Now(g) /\ (Cached(g)' <=> Cached(g))
                         /\ CachedListing(g)' = CachedListing(g)
    BY <2>1, CuesGrow
  <2>5. \A g \in Grids \ {h} : Hears(g)' <=> Hears(g)
    BY <2>1, <2>3 DEF Hears, CueComing
  <2>6. UserReadKnown'
    BY <2>1, <2>2, <2>4 DEF UserReadKnown
  <2>7. ServedKnown => ServedKnown'
    <3> SUFFICES ASSUME ServedKnown, NEW g \in Grids \ silent', reads'["user"].what # g, served'[g] # Never
                 PROVE  \/ Hears(g)'
                        \/ served'[g] = CachedListing(g)'
                        \/ ~Cached(g)' /\ (excuse' = {} => served'[g] = Now(g)')
      BY DEF ServedKnown
    <3>1. g # h /\ reads["user"].what # g
      BY <2>2, ReadersApart
    <3>2. QED
      BY <2>1, <2>4, <2>5, <3>1 DEF ServedKnown
  <2>8. QED
    BY <2>1, <2>6, <2>7 DEF Announcing
<1>6. ASSUME NEW h \in Grids, Revalidate(h) PROVE Announcing'
  <2>1. /\ \E x : reads' = [reads EXCEPT ![h] = x]
        /\ UNCHANGED <<far, farList, wire, open, tile, grids, relay, excuse, served, cued, silent>>
    <3> DEFINE new == [Begins(h, h)[h] EXCEPT !.old = CachedListing(h)]
    <3>1. reads' = [reads EXCEPT ![h] = new]
      BY <1>0, <1>6 DEF Revalidate, Begins
    <3>2. QED
      BY <1>6, <3>1 DEF Revalidate, farVars, wireVars, rowVars, histVars, cueVars
  <2>2. Asking
    BY <1>0, <2>1, AskingSays
  <2>3. QED
    BY <2>1, <2>2, CuesGrow, HeardKept
<1>7. ASSUME NEW h \in Grids, Walks(h) PROVE Announcing'
  <2>1. /\ \E x : reads' = [reads EXCEPT !["walk"] = x]
        /\ UNCHANGED <<far, farList, wire, open, tile, grids, relay, excuse, served, cued, silent>>
    BY <1>7 DEF Walks, Begins, farVars, wireVars, rowVars, histVars, cueVars
  <2>2. Asking
    BY <1>0, <2>1, AskingSays
  <2>3. QED
    BY <2>1, <2>2, CuesGrow, HeardKept
<1>8. ASSUME NEW what \in {"tile", "body"}, UserReads(what) PROVE Announcing'
  <2>1. /\ reads["user"].phase = "idle" /\ reads' = Begins("user", what)
        /\ UNCHANGED <<far, farList, wire, open, tile, grids, relay, excuse, served, cued, silent>>
    BY <1>8 DEF UserReads, farVars, wireVars, rowVars, histVars, cueVars
  <2>2. /\ reads["user"].what = NoRead
        /\ reads'["user"].what = what /\ reads'["user"].phase = "asked"
    BY <1>0, <2>1 DEF Begins, Idle, Typed, ReadsOK
  <2>3. Asking
    BY <2>1, <2>2, ReadersApart DEF Asking
  <2>4. QED
    BY <2>1, <2>3, CuesGrow, HeardKept
<1>9. CASE Reopen
  <2>1. /\ \A g \in Grids : cued'[g]
        /\ UNCHANGED <<far, farList, tile, grids, excuse, served, silent, reads>>
    BY <1>9 DEF Reopen, farVars, rowVars, histVars
  <2>2. Asking /\ \A g \in Grids : Hears(g)'
    BY <2>1, AskingSays DEF Hears
  <2>3. QED
    BY <2>1, <2>2, CuesGrow, HeardKept
<1>10. QED
  BY <1>1, <1>2, <1>3, <1>4, <1>5, <1>6, <1>7, <1>8, <1>9

\* What a grid's answer, installed, makes the cache list; other listings change
\* only as Changed says.
LEMMA InstallLists ==
    ASSUME Typed, NEW r \in Readers, reads[r].phase = "answered", Install(r)
    PROVE  /\ ~Installs(r, AnswerKeys(r)) => UNCHANGED <<tile, grids>>
           /\ \A g \in Grids : reads[r].what = g /\ Installs(r, AnswerKeys(r)) =>
                  CachedListing(g)' = Listed(reads[r].got, reads[r].list, g)
           /\ \A g \in Grids : reads[r].what # g => (Cached(g)' <=> Cached(g))
<1>1. reads[r].what \in Grids \cup {"tile", "body"} /\ reads[r].list \in 0..MaxList
      /\ grids \in [Grids -> -1..MaxList]
  BY ReadFields DEF Typed, ReadsOK, RowsOK, Assigned
<1>2. CASE ~Installs(r, AnswerKeys(r))
  BY <1>2 DEF Install, rowVars, Cached
<1>3. CASE Installs(r, AnswerKeys(r)) /\ reads[r].what \in Grids
  <2>0. PICK h \in Grids : h = reads[r].what
    BY <1>3
  <2>1. StoreGrid(h, reads[r].got, reads[r].list)
    BY <1>3, <2>0, ReadersApart DEF Install
  <2>2. grids'[h] = reads[r].list /\ \A g \in Grids \ {h} : grids'[g] = grids[g]
    BY <1>1, <2>1 DEF StoreGrid
  <2>3. reads[r].list # -1
    BY <1>1
  <2>4. IF reads[r].got.place = h THEN tile' = reads[r].got ELSE tile'.place # h
    BY <2>1, RowTypes, ReadersApart DEF StoreGrid
  <2>5. CachedListing(h)' = Listed(reads[r].got, reads[r].list, h)
    BY <2>2, <2>3, <2>4 DEF CachedListing, Cached, Listed
  <2>6. QED
    BY <1>3, <2>0, <2>2, <2>5 DEF Cached
<1>4. CASE Installs(r, AnswerKeys(r)) /\ reads[r].what \notin Grids
  <2>1. UNCHANGED grids
    BY <1>1, <1>4, ReadersApart DEF Install, UpsertTile
  <2>2. QED
    BY <1>4, <2>1 DEF Cached
<1>5. QED
  BY <1>2, <1>3, <1>4

\* An answer that ends a read.
LEMMA AnswerAnnounced ==
    ASSUME Typed, Announcing, NEW r \in Readers, Answered(r)
    PROVE  Announcing'
<1> DEFINE told == Announced(r) \cup Noticed(r, FALSE)
           seen == IF r = "user" /\ Installs(r, AnswerKeys(r)) THEN {reads[r].what} ELSE {}
<1>1. /\ reads[r].phase = "answered" /\ Install(r) /\ Ends(r) /\ Hands(r) /\ Cue(told)
      /\ silent' = (silent \ seen) \cup {g \in Changed \ (told \cup seen) :
                       g = r => reads[r].old = CachedListing(g)'}
      /\ UNCHANGED <<far, farList, wire, open, relay, excuse>>
  BY DEF Answered, farVars, wireVars
<1>2. /\ reads \in [Readers -> Read] /\ "user" \in Readers
      /\ \A g \in Grids : reads[g].phase # "idle" => reads[g].what = g
      /\ served \in [Grids -> Listing \cup {Never}]
  BY ReadersApart DEF Typed, ReadsOK, Assigned, CuesOK
<1>3. \A g \in Grids \cap Announced(r) : cued'[g]
  BY <1>1, CuesGrow
<1>4. \A g \in Grids \cap told : cued'[g]
  BY <1>1, CuesGrow
<1>5. \A g \in Grids : cued[g] => cued'[g]
  BY <1>1, CuesGrow
<1>6. \A g \in Grids : /\ Hears(g) => Hears(g)'
                       /\ cued'[g] => Hears(g)'
                       /\ Now(g)' = Now(g)
  BY <1>1, <1>5, CuesGrow DEF Hears
<1>7. \A g \in Grids : reads[r].what = g /\ Installs(r, AnswerKeys(r)) =>
          CachedListing(g)' = Listed(reads[r].got, reads[r].list, g)
  BY <1>1, InstallLists
<1>8. \A g \in Grids : (Cached(g)' <=> Cached(g)) \/ reads[r].what = g
  BY <1>1, InstallLists
<1>9. \A g \in Grids : CachedListing(g)' = CachedListing(g) => (Cached(g)' <=> Cached(g))
  BY DEF CachedListing, Cached, Never
<1>10. \A g \in Grids : CachedListing(g)' # CachedListing(g) => Installs(r, AnswerKeys(r))
  BY <1>1, InstallLists, CuesGrow
\* A grid whose listing changes is told, seen or silent.
<1>11. ASSUME NEW g \in Grids, g \notin silent', g \notin seen, CachedListing(g)' # CachedListing(g)
       PROVE  cued'[g]
  <2>1. g \in Changed
    BY <1>11 DEF Changed
  <2>2. CASE g \in told
    BY <1>4, <2>2
  <2>3. CASE g \notin told
    <3>1. g = r /\ reads[r].old # CachedListing(g)'
      BY <1>1, <1>11, <2>1, <2>3
    <3>2. Installs(r, AnswerKeys(r)) /\ reads[r].what = g
      BY <1>1, <1>2, <1>10, <1>11, <3>1
    <3>3. reads[r].old # Listed(reads[r].got, reads[r].list, r)
      BY <1>7, <3>1, <3>2
    <3>4. g \in Announced(r)
      BY <3>1, <3>2, <3>3 DEF Announced
    <3>5. QED
      BY <1>3, <3>4
  <2>4. QED
    BY <2>2, <2>3
<1>12. \A g \in Grids : g \notin silent' /\ g \notin seen => g \notin silent
  BY <1>1
<1> HIDE DEF told, seen
<1>13. CASE r = "user" /\ reads[r].what \in Grids
  <2>1. PICK h \in Grids : h = reads["user"].what
    BY <1>13
  <2>2. /\ served' = [served EXCEPT ![h] = Listed(reads["user"].got, reads["user"].list, h)]
        /\ reads'["user"].what = NoRead
    BY <1>1, <1>2, <1>13, <2>1 DEF Hands, Ends, Idle
  <2>3. UserReadKnown'
    BY <2>2, ReadersApart DEF UserReadKnown
  <2>4. UserReadKnown /\ ServedKnown => ServedKnown'
    <3> SUFFICES ASSUME UserReadKnown, ServedKnown, NEW g \in Grids \ silent', served'[g] # Never
                 PROVE  \/ Hears(g)'
                        \/ served'[g] = CachedListing(g)'
                        \/ ~Cached(g)' /\ (excuse' = {} => served'[g] = Now(g)')
      BY DEF ServedKnown
    <3>1. CASE g = h /\ Installs(r, AnswerKeys(r))
      BY <1>2, <1>7, <1>13, <2>1, <2>2, <3>1
    <3>2. CASE g = h /\ ~Installs(r, AnswerKeys(r))
      <4>1. g \notin silent
        BY <1>12, <3>2 DEF seen
      <4>2. Cached(g)' <=> Cached(g)
        BY <1>9, <1>10, <3>2
      <4>3. Cached(g) => cued[g]
        BY <2>1, <3>2, <4>1 DEF UserReadKnown
      <4>4. \/ Hears(g)
            \/ Listed(reads["user"].got, reads["user"].list, g) = Now(g)
        BY <1>1, <1>13, <2>1, <3>2 DEF UserReadKnown
      <4>5. served'[g] = Listed(reads["user"].got, reads["user"].list, g)
        BY <1>2, <2>2, <3>2
      <4>6. QED
        BY <1>5, <1>6, <4>2, <4>3, <4>4, <4>5
    <3>3. CASE g # h
      <4>1. g \notin seen
        BY <1>13, <2>1, <3>3 DEF seen
      <4>2. /\ g \notin silent /\ served'[g] = served[g] /\ reads["user"].what # g
        BY <1>2, <1>12, <2>1, <2>2, <3>3, <4>1
      <4>3. CASE CachedListing(g)' = CachedListing(g)
        BY <1>1, <1>6, <1>9, <4>2, <4>3 DEF ServedKnown
      <4>4. CASE CachedListing(g)' # CachedListing(g)
        BY <1>6, <1>11, <4>1, <4>4
      <4>5. QED
        BY <4>3, <4>4
    <3>4. QED
      BY <3>1, <3>2, <3>3
  <2>5. QED
    BY <1>1, <2>3, <2>4 DEF Announcing
<1>14. CASE ~(r = "user" /\ reads[r].what \in Grids)
  <2>1. served' = served /\ \A g \in Grids : g \notin seen
    BY <1>1, <1>14 DEF Hands, seen
  <2>2. Asking
    <3>1. CASE r = "user"
      BY <1>1, <1>2, <1>14, <2>1, <3>1, ReadersApart DEF Ends, Asking, Idle
    <3>2. CASE r # "user"
      BY <1>1, <2>1, <3>2, AskingSays DEF Ends
    <3>3. QED
      BY <3>1, <3>2
  <2>3. \A g \in Grids : CachedListing(g)' = CachedListing(g) \/ Hears(g)' \/ g \in silent'
    BY <1>6, <1>11, <2>1
  <2>4. \A g \in Grids : Cached(g)' => Cached(g) \/ cued'[g] \/ g \in silent'
    BY <1>9, <1>11, <2>1
  <2>5. silent \cap Grids \subseteq silent'
    BY <1>12, <2>1
  <2>6. silent \subseteq silent'
    BY <2>5 DEF Typed, PastOK
  <2>7. QED
    BY <1>1, <1>5, <1>6, <2>2, <2>3, <2>4, <2>6, HeardKept
<1>15. QED
  BY <1>13, <1>14

\* The reads' steps.
LEMMA ReadStepsAnnounced ==
    ASSUME Typed, Announcing, NEW r \in Readers,
           \/ FarAnswers(r) \/ FarRefuses(r) \/ Answered(r) \/ Refused(r) \/ NotHeard(r)
    PROVE  Announcing'
<1>0. reads \in [Readers -> Read] /\ "user" \in Readers /\ served \in [Grids -> Listing \cup {Never}]
  BY ReadersApart DEF Typed, ReadsOK, CuesOK
<1>1. CASE FarAnswers(r)
  <2>0. reads[r].phase = "asked" /\ reads[r] \in Read
    BY <1>0, <1>1 DEF FarAnswers
  <2> DEFINE ph == IF reads[r].what \in {"tile", "body"} /\ far.place = Gone THEN "refused" ELSE "answered"
             ls == IF reads[r].what \in Grids THEN farList[reads[r].what] ELSE 0
             new == [reads[r] EXCEPT !.phase = ph, !.got = far, !.list = ls]
  <2>1. reads' = [reads EXCEPT ![r] = new]
    BY <1>1 DEF FarAnswers
  <2>2. new.got = far /\ new.what = reads[r].what /\ new.list = ls
    BY <2>0 DEF Read
  <2> HIDE DEF new
  <2>3. UNCHANGED <<far, farList, wire, open, tile, grids, relay, excuse, served, cued, silent>>
    BY <1>1 DEF FarAnswers, farVars, wireVars, rowVars, histVars, cueVars
  <2>4. CASE r # "user"
    <3>1. Asking
      BY <2>1, <2>3, <2>4, AskingSays
    <3>2. QED
      BY <2>3, <3>1, CuesGrow, HeardKept
  <2>5. CASE r = "user"
    <3>1. /\ reads'["user"].got = far /\ reads'["user"].what = reads["user"].what /\ reads'["user"].list = ls
      BY <1>0, <2>1, <2>2, <2>5
    <3>2. \A g \in Grids : /\ Now(g)' = Now(g) /\ (Cached(g)' <=> Cached(g))
                           /\ CachedListing(g)' = CachedListing(g) /\ (Hears(g)' <=> Hears(g))
      BY <2>3, CuesGrow DEF Hears, CueComing
    <3>3. UserReadKnown => UserReadKnown'
      <4> SUFFICES ASSUME UserReadKnown, NEW g \in Grids, reads'["user"].what = g
                   PROVE  /\ Cached(g)' => cued'[g] \/ g \in silent'
                          /\ reads'["user"].phase = "answered" =>
                                 \/ Hears(g)'
                                 \/ Listed(reads'["user"].got, reads'["user"].list, g) = Now(g)'
        BY DEF UserReadKnown
      <4>1. ls = farList[g]
        BY <2>5, <3>1
      <4>2. Listed(reads'["user"].got, reads'["user"].list, g) = Now(g)'
        BY <2>3, <3>1, <4>1 DEF Now
      <4>3. QED
        BY <2>3, <3>1, <3>2, <4>2 DEF UserReadKnown
    <3>4. ServedKnown => ServedKnown'
      <4> SUFFICES ASSUME ServedKnown, NEW g \in Grids \ silent', reads'["user"].what # g, served'[g] # Never
                   PROVE  \/ Hears(g)'
                          \/ served'[g] = CachedListing(g)'
                          \/ ~Cached(g)' /\ (excuse' = {} => served'[g] = Now(g)')
        BY DEF ServedKnown
      <4>1. QED
        BY <2>3, <3>1, <3>2 DEF ServedKnown
    <3>5. QED
      BY <2>3, <3>3, <3>4 DEF Announcing
  <2>6. QED
    BY <2>4, <2>5
<1>2. CASE FarRefuses(r)
  <2> DEFINE new == [reads[r] EXCEPT !.phase = "refused"]
  <2>1. reads' = [reads EXCEPT ![r] = new] /\ reads[r] \in Read
    BY <1>0, <1>2 DEF FarRefuses
  <2>2. new.phase = "refused" /\ new.what = reads[r].what
    BY <2>1 DEF Read
  <2> HIDE DEF new
  <2>3. UNCHANGED <<far, farList, wire, open, tile, grids, relay, excuse, served, cued, silent>>
    BY <1>2 DEF FarRefuses, farVars, wireVars, rowVars, histVars, cueVars
  <2>4. Asking
    <3>1. reads'["user"].what = reads["user"].what
          /\ (reads'["user"].phase = "answered" => reads'["user"] = reads["user"])
      BY <1>0, <2>1, <2>2
    <3>2. QED
      BY <2>3, <3>1 DEF Asking
  <2>5. QED
    BY <2>3, <2>4, CuesGrow, HeardKept
<1>3. CASE Answered(r)
  BY <1>3, AnswerAnnounced
<1>4. ASSUME Refused(r) \/ NotHeard(r) PROVE Asking
  <2>1. Ends(r) /\ Fails(r)
    BY <1>4 DEF Refused, NotHeard
  <2>2. CASE r # "user"
    <3>1. served' = served
      BY <2>1, <2>2 DEF Fails
    <3>2. QED
      BY <2>1, <2>2, <3>1, AskingSays DEF Ends
  <2>3. CASE r = "user"
    <3>1. reads'["user"].what = NoRead
      BY <1>0, <2>1, <2>3 DEF Ends, Idle
    <3>2. \A g \in Grids : served'[g] # Never => reads["user"].what # g /\ served'[g] = served[g]
      BY <1>0, <2>1, <2>3 DEF Fails
    <3>3. QED
      BY <3>1, <3>2, ReadersApart DEF Asking
  <2>4. QED
    BY <2>2, <2>3
<1>5. CASE Refused(r)
  <2>1. /\ IF r \in Grids THEN EvictGrid(r) ELSE UNCHANGED rowVars
        /\ Cue(Noticed(r, FALSE) \cup ({r} \cap Grids))
        /\ UNCHANGED <<far, farList, wire, open, relay, excuse, silent>>
    BY <1>5 DEF Refused, farVars, wireVars, histVars
  <2>2. \A g \in Grids : (cued[g] => cued'[g]) /\ (g = r => cued'[g])
    BY <2>1, CuesGrow
  <2>3. \A g \in Grids : (Hears(g) => Hears(g)') /\ (cued'[g] => Hears(g)') /\ Now(g)' = Now(g)
    BY <2>1, <2>2, CuesGrow DEF Hears
  <2>4. \A g \in Grids : g # r => (Cached(g)' <=> Cached(g)) /\ CachedListing(g)' = CachedListing(g)
    <3>1. CASE r \in Grids
      <4>1. \A g \in Grids : g # r => grids'[g] = grids[g]
        BY <2>1, <3>1 DEF EvictGrid, Typed, RowsOK
      <4>2. \A g \in Grids : g # r =>
                (IF tile'.place = g THEN tile'.text ELSE 0) = (IF tile.place = g THEN tile.text ELSE 0)
        BY <2>1, <3>1, RowTypes, ReadersApart DEF EvictGrid
      <4>3. QED
        BY <4>1, <4>2 DEF Cached, CachedListing
    <3>2. CASE r \notin Grids
      BY <2>1, <3>2, CuesGrow DEF rowVars
    <3>3. QED
      BY <3>1, <3>2
  <2>5. QED
    BY <1>4, <1>5, <2>1, <2>2, <2>3, <2>4, HeardKept
<1>6. CASE NotHeard(r)
  <2>1. /\ Cue(Noticed(r, TRUE))
        /\ UNCHANGED <<far, farList, wire, open, tile, grids, relay, excuse, silent>>
    BY <1>6 DEF NotHeard, farVars, wireVars, rowVars, histVars
  <2>2. QED
    BY <1>4, <1>6, <2>1, CuesGrow, HeardKept
<1>7. QED
  BY <1>1, <1>2, <1>3, <1>5, <1>6

\* A fold changes no listing but the one its event, or the cue it gives, is about.
LEMMA FoldStepsAnnounced ==
    ASSUME Typed, Newer, Ordered, Announcing,
           \/ RelayTakes \/ RelayWrites \/ RelaySends
           \/ WriteSent \/ WriteTaken \/ WriteFails \/ WriteAnswered
           \/ WriteDropsBody \/ WriteRecords \/ WriteFolds
    PROVE  Announcing'
<1>1. CASE RelayTakes
  <2> DEFINE e == Head(wire)
  <2>1. /\ wire # <<>> /\ wire' = Tail(wire) /\ relay.phase = "idle"
        /\ relay' = [phase |-> IF e.kind = "grid" THEN "written" ELSE "recorded", ev |-> e]
        /\ IF e.kind = "grid" THEN UNCHANGED reads
           ELSE Record(FoldKeys(IF e.kind = "removed" THEN NoRow ELSE e.row))
        /\ UNCHANGED <<far, farList, tile, grids, excuse, open, served, cued, silent>>
    BY <1>1 DEF RelayTakes, farVars, rowVars, histVars, cueVars
  <2>2. wire \in Seq(Event) /\ far \in Row /\ e = wire[1] /\ relay.ev.grid = Gone
    BY <2>1, Numbers DEF Typed, RelayOK, Quiet
  <2> HIDE DEF e
  <2>3. \A i \in DOMAIN wire : i = 1 \/ (i - 1 \in DOMAIN wire' /\ wire'[i - 1] = wire[i])
    BY <2>1, <2>2, TailInOrder
  <2>4. relay'.ev = e
    BY <2>1
  <2>5. \A g \in Grids : Hears(g) => Hears(g)'
    BY <2>1, <2>2, <2>3, <2>4, ReadersApart DEF Hears, CueComing
  <2>6. Asking
    BY <2>1, AskingSays, FoldKeysType
  <2>7. QED
    BY <2>1, <2>5, <2>6, CuesGrow, HeardKept
<1>2. CASE RelayWrites
  <2>1. /\ relay.phase = "recorded" /\ relay' = [relay EXCEPT !.phase = "written"]
        /\ silent' = silent \cup (Changed \ {relay.ev.grid})
        /\ UNCHANGED <<far, farList, grids, wire, reads, open, excuse, served, cued>>
    BY <1>2 DEF RelayWrites, farVars, wireVars, cueVars, FoldRow, DeleteTile, UpsertTile
  <2>2. relay'.ev = relay.ev
    BY <2>1 DEF Typed, RelayOK, Quiet
  <2>3. \A g \in Grids : (Hears(g) => Hears(g)') /\ (g = relay.ev.grid => Hears(g)')
    BY <2>1, <2>2 DEF Hears, CueComing
  <2>4. \A g \in Grids : CachedListing(g)' = CachedListing(g) \/ Hears(g)' \/ g \in silent'
    BY <2>1, <2>3 DEF Changed
  <2>5. Asking
    BY <2>1, AskingSays
  <2>6. QED
    BY <2>1, <2>3, <2>4, <2>5, CuesGrow, HeardKept
<1>3. CASE RelaySends
  <2>1. /\ Cue({relay.ev.grid}) /\ relay' = Quiet
        /\ UNCHANGED <<far, farList, tile, grids, wire, reads, open, excuse, served, silent>>
    BY <1>3 DEF RelaySends, farVars, wireVars, rowVars, histVars
  <2>2. \A g \in Grids : (cued[g] => cued'[g]) /\ (g = relay.ev.grid => cued'[g])
    BY <2>1, CuesGrow
  <2>3. \A g \in Grids : Hears(g) => Hears(g)'
    BY <2>1, <2>2 DEF Hears, CueComing
  <2>4. Asking
    BY <2>1, AskingSays
  <2>5. QED
    BY <2>1, <2>2, <2>3, <2>4, CuesGrow, HeardKept
<1>4. CASE WriteSent
  <2>1. UNCHANGED <<far, farList, wire, open, tile, grids, relay, reads, excuse, served, cued, silent>>
    BY <1>4 DEF WriteSent, farVars, wireVars, rowVars, histVars, cueVars
  <2>2. QED
    BY <2>1, AskingSays, CuesGrow, HeardKept
<1>5. CASE WriteTaken
  <2>1. PICK s \in Row : Commit(s)
    BY <1>5, WrittenRows DEF WriteTaken, Typed
  <2>2. /\ UNCHANGED <<farList, open, relay, reads, tile, grids, served, cued, silent>>
        /\ excuse \subseteq excuse' /\ far.place # Gone
    BY <1>5, <2>1, TypedIs, CommitSays DEF WriteTaken, rowVars, cueVars
  <2>3. QED
    BY <2>1, <2>2, CommitAnnounced
<1>6. CASE WriteFails
  <2>1. /\ \E d : WriteNotices(d)
        /\ UNCHANGED <<far, farList, wire, open, tile, grids, relay, reads, excuse, served, silent>>
    BY <1>6 DEF WriteFails, farVars, wireVars, rowVars, histVars
  <2>2. QED
    BY <2>1, AskingSays, CuesGrow, HeardKept
<1>7. CASE WriteAnswered
  <2>1. /\ WriteNotices(FALSE) /\ Record({"tile"}) /\ {"tile"} \in SUBSET Keys
        /\ UNCHANGED <<far, farList, wire, open, tile, grids, relay, excuse, served, silent>>
    BY <1>7 DEF WriteAnswered, Drops, farVars, wireVars, rowVars, histVars, Keys
  <2>2. Asking
    BY <2>1, AskingSays
  <2>3. QED
    BY <2>1, <2>2, CuesGrow, HeardKept
<1>8. CASE WriteDropsBody
  <2>1. UNCHANGED <<far, farList, wire, open, tile, grids, relay, reads, excuse, served, cued, silent>>
    BY <1>8 DEF WriteDropsBody, farVars, wireVars, cueVars
  <2>2. QED
    BY <2>1, AskingSays, CuesGrow, HeardKept
<1>9. CASE WriteRecords
  <2>1. /\ WriteNotices(FALSE) \/ UNCHANGED cued
        /\ Record(FoldKeys(write.row))
        /\ UNCHANGED <<far, farList, wire, open, tile, grids, relay, excuse, served, silent>>
    BY <1>9 DEF WriteRecords, farVars, wireVars, rowVars, histVars
  <2>2. Asking
    BY <2>1, AskingSays, FoldKeysType
  <2>3. \A g \in Grids : cued[g] => cued'[g]
    BY <2>1, CuesGrow
  <2>4. QED
    BY <2>1, <2>2, <2>3, CuesGrow, HeardKept
<1>10. CASE WriteFolds
  <2>1. /\ Cue(Changed) /\ excuse \subseteq excuse'
        /\ UNCHANGED <<far, farList, wire, open, grids, relay, reads, served, silent>>
    BY <1>10 DEF WriteFolds, farVars, wireVars, FoldRow, DeleteTile, UpsertTile
  <2>2. \A g \in Grids : (cued[g] => cued'[g]) /\ (g \in Changed => cued'[g])
    BY <2>1, CuesGrow
  <2>3. \A g \in Grids : (Hears(g) => Hears(g)') /\ (cued'[g] => Hears(g)')
    BY <2>1, <2>2, CuesGrow DEF Hears
  <2>4. \A g \in Grids : CachedListing(g)' = CachedListing(g) \/ Hears(g)'
    BY <2>2, <2>3 DEF Changed
  <2>5. Asking
    BY <2>1, AskingSays
  <2>6. QED
    BY <2>1, <2>2, <2>3, <2>4, <2>5, CuesGrow, HeardKept
<1>11. QED
  BY <1>1, <1>2, <1>3, <1>4, <1>5, <1>6, <1>7, <1>8, <1>9, <1>10

\* A cached grid corrects itself (docs/freshness.md, trace a): whatever the cache
\* has come to hold instead of what it served, by an event, a revalidation or an
\* eviction, it has told the client to read again.
THEOREM EveryChangeIsAnnounced == Spec => []ChangesAreAnnounced
<1>1. Init => Announcing
  <2> SUFFICES ASSUME Init PROVE Announcing
    OBVIOUS
  <2>1. reads["user"].what = NoRead /\ \A g \in Grids : served[g] = Never
    BY ReadersApart DEF Init, Idle
  <2>2. QED
    BY <2>1, ReadersApart DEF Announcing, UserReadKnown, ServedKnown
<1>2. Typed /\ Newer /\ Ordered /\ Announcing /\ [Next]_vars => Announcing'
  <2> SUFFICES ASSUME Typed, Newer, Ordered, Announcing, [Next]_vars PROVE Announcing'
    OBVIOUS
  <2>1. CASE UNCHANGED vars
    <3>1. UNCHANGED <<far, farList, wire, open, tile, grids, relay, reads, excuse, served, cued, silent>>
      BY <2>1 DEF vars, farVars, wireVars, rowVars, histVars, cueVars
    <3>2. QED
      BY <3>1, AskingSays, CuesGrow, HeardKept
  <2>2. CASE Next
    BY <2>2, ReadStepsAnnounced, FarStepsAnnounced, FoldStepsAnnounced DEF Next
  <2>3. QED
    BY <2>1, <2>2
<1>3. Typed /\ Announcing => ChangesAreAnnounced
  <2> SUFFICES ASSUME Typed, Announcing, Rest, excuse \subseteq {"lost"}, NEW g \in Grids \ silent, served[g] # Never
               PROVE  \/ cued[g]
                      \/ served[g] = CachedListing(g)
                      \/ ~Cached(g) /\ (excuse = {} => served[g] = Listed(far, farList[g], g))
    BY DEF ChangesAreAnnounced
  <2>1. reads["user"].what # g /\ ~CueComing(g) /\ open
    BY ReadersApart DEF Rest, Typed, ReadsOK, Idle, CueComing, Quiet
  <2>2. QED
    BY <2>1 DEF Announcing, ServedKnown, Hears, Now
<1>4. QED
  BY <1>1, <1>2, <1>3, OrderHolds, PTL DEF Spec

(***************************************************************************)
(* The fold order itself: stamps and counts implement the touched keys,    *)
(* for any number of reads, of keys and of folds.                          *)
(***************************************************************************)

OrderInv == OrderTypeOK /\ Counted

(* The reads that began at a number are finitely many, so they are counted. *)
LEMMA BeganFinite ==
    ASSUME FoldOrderAssumption, NEW s \in Seqs
    PROVE  IsFiniteSet(Began(s)) /\ Cardinality(Began(s)) \in Nat
BY FS_Subset, FS_CardinalityType DEF FoldOrderAssumption, Began

(* "With none in flight": the counts are all zero exactly then (end's test *)
(* of len(o.open), and fold's).                                            *)
LEMMA NoneInFlight ==
    ASSUME FoldOrderAssumption, OrderInv
    PROVE  (\A s \in Seqs : begun[s] = 0) <=> OpenReads = {}
<1>1. ASSUME \A s \in Seqs : begun[s] = 0 PROVE OpenReads = {}
  <2>1. \A s \in Seqs : Began(s) = {}
    BY <1>1, BeganFinite, FS_EmptySet DEF OrderInv, Counted
  <2>2. QED
    BY <2>1 DEF OpenReads, Began, OrderInv, OrderTypeOK
<1>2. ASSUME OpenReads = {} PROVE \A s \in Seqs : begun[s] = 0
  <2>1. \A s \in Seqs : Began(s) = {}
    BY <1>2 DEF OpenReads, Began, OrderInv, OrderTypeOK, Seqs
  <2>2. QED
    BY <2>1, FS_EmptySet DEF OrderInv, Counted
<1>3. QED
  BY <1>1, <1>2

\* No read is open at the start.
LEMMA InitHolds == FoldOrderAssumption /\ OrderInit => OrderInv
<1> SUFFICES ASSUME FoldOrderAssumption, OrderInit PROVE OrderInv
  OBVIOUS
<1>1. \A s \in Seqs : Began(s) = {}
  BY DEF OrderInit, Began, Seqs
<1>2. \A s \in Seqs : begun[s] = Cardinality(Began(s))
  BY <1>1, FS_EmptySet DEF OrderInit
<1>3. QED
  BY <1>2 DEF OrderInit, OrderInv, OrderTypeOK, Counted, Seqs, FoldOrderAssumption

\* A read that begins is counted under its sequence.
LEMMA BeginKeeps ==
    ASSUME FoldOrderAssumption, OrderInv, NEW r \in Reads, OrderBegin(r)
    PROVE  OrderInv'
<1> USE DEF OrderInv, OrderTypeOK, OrderBegin
<1>1. OrderTypeOK'
  BY DEF Seqs, FoldOrderAssumption
<1>2. ASSUME NEW s \in Seqs PROVE begun'[s] = Cardinality(Began(s)')
  <2>1. CASE s = seq
    <3>1. Began(s)' = Began(s) \cup {r} /\ r \notin Began(s)
      BY <2>1 DEF Began, Seqs
    <3>2. Cardinality(Began(s) \cup {r}) = Cardinality(Began(s)) + 1
      BY <3>1, BeganFinite, FS_AddElement
    <3>3. QED
      BY <2>1, <3>1, <3>2 DEF Counted
  <2>2. CASE s # seq
    <3>1. Began(s)' = Began(s)
      BY <2>2 DEF Began, Seqs
    <3>2. QED
      BY <2>2, <3>1 DEF Counted
  <2>3. QED
    BY <2>1, <2>2
<1>3. QED
  BY <1>1, <1>2 DEF Counted, Seqs

\* A read that ends is counted no more, and what no open read needs goes.
LEMMA EndKeeps ==
    ASSUME FoldOrderAssumption, OrderInv, NEW r \in Reads, OrderEnd(r)
    PROVE  OrderInv'
<1> USE DEF OrderInv, OrderTypeOK, OrderEnd
<1>0. at[r] \in Seqs /\ r \in Began(at[r])
  BY DEF Began
<1>a. begun[at[r]] \in Nat \ {0}
  <2>1. Cardinality(Began(at[r])) # 0
    BY <1>0, BeganFinite, FS_EmptySet
  <2>2. QED
    BY <1>0, <2>1 DEF Counted
<1>1. OrderTypeOK'
  <2>1. last' \in [Names -> Seqs]
    BY DEF Seqs, FoldOrderAssumption
  <2>2. begun' \in [Seqs -> Nat]
    BY <1>0, <1>a
  <2>3. QED
    BY <2>1, <2>2
<1>2. ASSUME NEW s \in Seqs PROVE begun'[s] = Cardinality(Began(s)')
  <2>1. CASE s = at[r]
    <3>1. Began(s)' = Began(s) \ {r} /\ r \in Began(s)
      BY <2>1, <1>0 DEF Began, Seqs
    <3>2. Cardinality(Began(s) \ {r}) = Cardinality(Began(s)) - 1
      BY <3>1, BeganFinite, FS_RemoveElement
    <3>3. QED
      BY <2>1, <3>1, <3>2 DEF Counted
  <2>2. CASE s # at[r]
    <3>1. Began(s)' = Began(s)
      BY <2>2 DEF Began, Seqs
    <3>2. QED
      BY <2>2, <3>1 DEF Counted
  <2>3. QED
    BY <2>1, <2>2
<1>3. (\A k \in Names : last'[k] <= seq') /\ (\A q \in Reads : at'[q] <= seq')
  BY DEF Counted, Seqs
<1>4. QED
  BY <1>1, <1>2, <1>3 DEF Counted

\* A fold records its keys while reads are open.
LEMMA FoldKeeps ==
    ASSUME FoldOrderAssumption, OrderInv, NEW ks \in SUBSET Names, OrderFold(ks)
    PROVE  OrderInv'
<1> USE DEF OrderInv, OrderTypeOK, OrderFold
<1>1. OrderTypeOK'
  <2>1. CASE \E s \in Seqs : begun[s] > 0
    <3>1. seq' = seq + 1 /\ seq' \in Seqs
      BY <2>1 DEF Seqs, FoldOrderAssumption
    <3>2. last' = [k \in Names |-> IF k \in ks THEN seq' ELSE last[k]]
      BY <2>1
    <3>3. last' \in [Names -> Seqs]
      BY <3>1, <3>2
    <3>4. QED
      BY <3>1, <3>3
  <2>2. CASE ~\E s \in Seqs : begun[s] > 0
    BY <2>2
  <2>3. QED
    BY <2>1, <2>2
<1>2. \A s \in Seqs : Began(s)' = Began(s)
  BY DEF Began
<1>3. (\A k \in Names : last'[k] <= seq') /\ (\A q \in Reads : at'[q] <= seq')
  BY SMTT(30) DEF Counted, Seqs
<1>4. QED
  BY <1>1, <1>2, <1>3 DEF Counted

\* Every step keeps the invariant.
LEMMA StepKeeps ==
    ASSUME FoldOrderAssumption, OrderInv, [OrderNext]_orderVars
    PROVE  OrderInv'
<1>1. ASSUME NEW r \in Reads, NEW ks \in SUBSET Names, OrderInstall(r, ks) PROVE OrderInv'
  <2>1. OrderTypeOK'
    BY <1>1 DEF OrderInstall, OrderInv, OrderTypeOK
  <2>2. QED
    BY <1>1, <2>1 DEF OrderInstall, OrderInv, Counted, Began
<1>2. CASE UNCHANGED orderVars
  BY <1>2 DEF orderVars, OrderInv, OrderTypeOK, Counted, Began
<1>3. QED
  BY <1>1, <1>2, BeginKeeps, EndKeeps, FoldKeeps DEF OrderNext

(* The counts are the reads in flight, and nothing is ahead of seq.        *)
THEOREM CountsHold == FoldOrderAssumption => (OrderSpec => [](OrderTypeOK /\ Counted))
<1>1. ASSUME FoldOrderAssumption PROVE OrderSpec => []OrderInv
  <2>1. OrderInit => OrderInv
    BY <1>1, InitHolds
  <2>2. OrderInv /\ [OrderNext]_orderVars => OrderInv'
    BY <1>1, StepKeeps
  <2>3. QED
    BY <2>1, <2>2, PTL DEF OrderSpec
<1>2. QED
  BY <1>1 DEF OrderInv

----------------------------------------------------------------------------
(* begin stamps nothing: the read starts with no key touched. *)
LEMMA BeginRefines ==
    ASSUME FoldOrderAssumption, OrderInv, NEW r \in Reads, OrderBegin(r)
    PROVE  Promised!Begin(r)
<1> USE DEF OrderInv, OrderTypeOK, OrderBegin
<1>1. r \notin OpenReads /\ OpenReads' = OpenReads \cup {r}
  BY DEF OpenReads, Seqs
<1>2. Touched' = Touched
  <2>1. {k \in Names : last[k] > seq} = {}
    BY DEF Counted, Seqs
  <2>2. QED
    BY <2>1 DEF Touched, Seqs
<1>3. QED
  BY <1>1, <1>2 DEF Promised!Begin

(* end forgets the read, and dropping the stamps touches no other: the     *)
(* stamps go only with the last read in flight.                            *)
LEMMA EndRefines ==
    ASSUME FoldOrderAssumption, OrderInv, OrderInv', NEW r \in Reads, OrderEnd(r)
    PROVE  Promised!End(r)
<1> USE DEF OrderEnd
<1>1. r \in OpenReads /\ OpenReads' = OpenReads \ {r}
  BY DEF OpenReads, OrderInv, OrderTypeOK, Seqs
<1>2. Touched' = [Touched EXCEPT ![r] = {}]
  <2>1. CASE \A s \in Seqs : begun'[s] = 0
    <3>1. OpenReads' = {}
      <4>1. \A s \in Seqs : Began(s)' = {}
        <5>1. \A s \in Seqs : Cardinality(Began(s)') = 0
          BY <2>1 DEF OrderInv, Counted
        <5>2. \A s \in Seqs : IsFiniteSet(Began(s)')
          BY FS_Subset DEF FoldOrderAssumption, Began
        <5>3. QED
          BY <5>1, <5>2, FS_EmptySet
      <4>2. QED
        BY <4>1 DEF OpenReads, Began, OrderInv, OrderTypeOK
    <3>2. \A q \in Reads : at'[q] = -1
      BY <3>1 DEF OpenReads
    <3>3. \A q \in Reads : q # r => at[q] = -1
      BY <3>2 DEF OrderInv, OrderTypeOK
    <3>4. QED
      BY <3>2, <3>3 DEF Touched
  <2>2. CASE ~ \A s \in Seqs : begun'[s] = 0
    <3>1. last' = last
      BY <2>2
    <3>2. QED
      BY <3>1 DEF Touched, OrderInv, OrderTypeOK
  <2>3. QED
    BY <2>1, <2>2
<1>3. QED
  BY <1>1, <1>2 DEF Promised!End

(* install refuses exactly the answers whose keys were touched. *)
LEMMA InstallRefines ==
    ASSUME OrderInv, NEW r \in Reads, NEW ks \in SUBSET Names, OrderInstall(r, ks)
    PROVE  Promised!Install(r, ks)
<1> USE DEF OrderInstall
<1>1. r \in OpenReads /\ OpenReads' = OpenReads /\ Touched' = Touched
  BY DEF OpenReads, Touched
<1>2. (~ \E k \in ks : last[k] > at[r]) <=> (ks \cap Touched[r] = {})
  BY DEF Touched
<1>3. QED
  BY <1>1, <1>2 DEF Promised!Install

(* A fold stamps ahead of every read in flight, and there is nobody to     *)
(* stamp for when there is none.                                           *)
LEMMA FoldRefines ==
    ASSUME FoldOrderAssumption, OrderInv, NEW ks \in SUBSET Names, OrderFold(ks)
    PROVE  Promised!Fold(ks)
<1> USE DEF OrderFold
<1>1. OpenReads' = OpenReads
  BY DEF OpenReads
<1>2. Touched' = [q \in Reads |-> IF q \in OpenReads THEN Touched[q] \cup ks ELSE Touched[q]]
  <2>1. CASE \E s \in Seqs : begun[s] > 0
    <3>1. ASSUME NEW q \in Reads, at[q] # -1
          PROVE  {k \in Names : last'[k] > at'[q]} = {k \in Names : last[k] > at[q]} \cup ks
      <4>1. seq \in Nat /\ at[q] \in Nat /\ at[q] <= seq /\ at' = at
        BY <3>1 DEF OrderInv, OrderTypeOK, Counted, Seqs
      <4>2. last' = [k \in Names |-> IF k \in ks THEN seq + 1 ELSE last[k]]
        BY <2>1
      <4>3. QED
        BY <4>1, <4>2 DEF OrderInv, OrderTypeOK, Seqs
    <3>2. QED
      BY <3>1 DEF Touched, OpenReads
  <2>2. CASE ~ \E s \in Seqs : begun[s] > 0
    <3>1. \A s \in Seqs : begun[s] = 0
      BY <2>2 DEF OrderInv, OrderTypeOK
    <3>2. OpenReads = {}
      BY <3>1, NoneInFlight
    <3>3. QED
      BY <2>2, <3>2 DEF Touched
  <2>3. QED
    BY <2>1, <2>2
<1>3. QED
  BY <1>1, <1>2 DEF Promised!Fold

(***************************************************************************)
(* "An answer the source gave before a fold the layer applied since is     *)
(* older than the rows it would replace, so it is not installed": the      *)
(* stamped keys, the dropped stamps and the counts implement the touched   *)
(* keys SourceCache is written over.                                       *)
(***************************************************************************)
THEOREM KeepsItsPromise == FoldOrderAssumption => (OrderSpec => Promises)
<1> SUFFICES ASSUME FoldOrderAssumption PROVE OrderSpec => Promised!Spec
  BY DEF Promises
<1>1. OrderInit => Promised!Init
  <2>1. ASSUME OrderInit PROVE Promised!Init
    <3>1. OpenReads = {}
      BY <2>1 DEF OrderInit, OpenReads
    <3>2. Touched = [r \in Reads |-> {}]
      BY <2>1 DEF OrderInit, Touched
    <3>3. QED
      BY <2>1, <3>1, <3>2 DEF OrderInit, Promised!Init
  <2>2. QED
    BY <2>1
<1>2. OrderInv /\ OrderInv' /\ [OrderNext]_orderVars => [Promised!Next]_(Promised!vars)
  <2> SUFFICES ASSUME OrderInv, OrderInv', [OrderNext]_orderVars PROVE [Promised!Next]_(Promised!vars)
    OBVIOUS
  <2>1. CASE UNCHANGED orderVars
    BY <2>1 DEF orderVars, Promised!vars, OpenReads, Touched
  <2>2. ASSUME NEW r \in Reads, OrderBegin(r) PROVE Promised!Next
    BY <2>2, BeginRefines DEF Promised!Next
  <2>3. ASSUME NEW r \in Reads, OrderEnd(r) PROVE Promised!Next
    BY <2>3, EndRefines DEF Promised!Next
  <2>4. ASSUME NEW r \in Reads, NEW ks \in SUBSET Names, OrderInstall(r, ks) PROVE Promised!Next
    BY <2>4, InstallRefines DEF Promised!Next
  <2>5. ASSUME NEW ks \in SUBSET Names, OrderFold(ks) PROVE Promised!Next
    BY <2>5, FoldRefines DEF Promised!Next
  <2>6. QED
    BY <2>1, <2>2, <2>3, <2>4, <2>5 DEF OrderNext
<1>3. OrderSpec => []OrderInv
  BY CountsHold, PTL DEF OrderInv
<1>4. QED
  BY <1>1, <1>2, <1>3, PTL DEF OrderSpec, Promised!Spec

=============================================================================
