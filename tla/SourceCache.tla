----------------------------- MODULE SourceCache -----------------------------
(***************************************************************************)
(* The node's cache of what one connection last answered                   *)
(* (internal/sourcecache): one tile of the far node, the grids it may be   *)
(* in, and its body.                                                       *)
(*                                                                         *)
(* A grid read serves the cached listing and refreshes it behind; events   *)
(* and the answers of writes are folded into the rows.  What orders the    *)
(* two is foldOrder: a fold is recorded under its lock and written after,  *)
(* and an answer is installed under the lock unless a fold recorded since  *)
(* the read began has touched one of its keys.                             *)
(*                                                                         *)
(* An event is folded, and only then relayed to the client.  What the      *)
(* client does with it is TileFeed's and InflightReads' subject: here it   *)
(* is cued to read again.                                                  *)
(***************************************************************************)
EXTENDS Integers, Sequences, FiniteSets, Functions

CONSTANTS
    Grids,
    Gone,         \* the place of a tile the far node has destroyed
    NoRead,
    MaxCommits,   \* bound on what the far node writes and lists anew, and the faults
    MaxText,      \* bound on the tile's content version
    MaxList,      \* bound on the changes told by a GridChanged alone
    MaxFaults,    \* bound on breaks, outages and refusals together
    MaxReads,     \* bound on misses, walks, tile and body reads and the user's writes
    MaxBusy       \* bound on the live reads under way at once

ASSUME CacheAssumption ==
    /\ Gone \notin Grids /\ NoRead \notin Grids
    /\ \A word \in {"tile", "body", "walk", "user"} : word \notin Grids /\ word # NoRead
    /\ MaxCommits \in Nat /\ MaxText \in Nat \ {0} /\ MaxList \in Nat
    /\ MaxFaults \in Nat /\ MaxReads \in Nat /\ MaxBusy \in Nat \ {0}

VARIABLES
    \* the far node
    far,       \* the tile's row
    farList,   \* each grid's other entries, as a revision
    wire,      \* the events told and not yet taken off the stream
    open,      \* the stream is up
    \* the cache
    tile,      \* the cached row of the tile
    grids,     \* the cached grid rows: the other entries, -1 for a grid not cached
    body,      \* the version of the cached body, 0 for none
    dark,      \* the source is known to be unreachable
    \* who is at work
    reads,     \* the live reads: a revalidation per grid, the walk's, the user's
    relay,     \* the event being folded and relayed
    write,     \* the user's write
    \* the client
    served,    \* what each grid's last read was answered
    cued,      \* it has been told to read the grid again since
    \* bounds and history
    faults, spent, own, folded, silent, excuse

farVars   == <<far, farList>>
wireVars  == <<wire, open>>
rowVars   == <<tile, grids, body>>
cueVars   == <<served, cued>>
histVars  == <<own, folded, silent, excuse>>
vars == <<farVars, wireVars, rowVars, dark, reads, relay, write,
          cueVars, faults, spent, histVars>>

Keys    == Grids \cup {"tile"}
Readers == Grids \cup {"walk", "user"}

\* n is the commit that made the row, which the cache cannot see.
Row   == [place : Grids \cup {Gone}, text : 1..MaxText, n : Nat]
NoRow == [place |-> Gone, text |-> 0, n |-> 0]

\* What a grid answers: its other entries, and the tile's version if it is in it.
Listed(r, list, g) == [list |-> list, text |-> IF r.place = g THEN r.text ELSE 0]
Listing == [list : 0..MaxList, text : 0..MaxText]
Never   == [list |-> -1, text |-> 0]

Event == [kind : {"changed", "removed"}, grid : Grids, row : Row]
         \cup [kind : {"grid"}, grid : Grids, row : {NoRow}]
EventKey(e) == <<e.kind, IF e.kind = "changed" THEN Gone ELSE e.grid>>

Read == [phase : {"idle", "spawned", "asked", "answered", "refused"},
         what : Grids \cup {"tile", "body", NoRead}, touched : SUBSET Keys,
         got : Row \cup {NoRow}, list : 0..MaxList, old : Listing \cup {Never}]
Idle == [phase |-> "idle", what |-> NoRead, touched |-> {}, got |-> NoRow,
         list |-> 0, old |-> Never]

Quiet == [phase |-> "idle", ev |-> [kind |-> "none", grid |-> Gone, row |-> NoRow]]

Init ==
    /\ far \in [place : Grids, text : {1}, n : {0}]
    /\ farList = [g \in Grids |-> 0]
    /\ wire = <<>> /\ open = TRUE
    /\ tile = NoRow
    /\ grids = [g \in Grids |-> -1]
    /\ body = 0 /\ dark = FALSE
    /\ reads = [r \in Readers |-> Idle]
    /\ relay = Quiet
    /\ write = [phase |-> "idle", row |-> NoRow, edit |-> FALSE]
    /\ served = [g \in Grids |-> Never]
    /\ cued = [g \in Grids |-> FALSE]
    /\ faults = 0 /\ spent = 0 /\ own = 0 /\ folded = 0 /\ silent = {} /\ excuse = {}

Cached(g)  == grids[g] # -1
CachedListing(g) == IF Cached(g) THEN [list |-> grids[g],
                                       text |-> IF tile.place = g THEN tile.text ELSE 0]
                    ELSE Never

\* One bound on all that the far node and the network do.
Left == far.n + FoldFunction(+, 0, farList) + faults < MaxCommits

FaultLeft == faults < MaxFaults /\ Left

----------------------------------------------------------------------------
(***************************************************************************)
(* The far node and its stream.  Each hub on the way keeps one event per   *)
(* key and replaces it in place.                                           *)
(***************************************************************************)

Pending(q, e) == {i \in DOMAIN q : EventKey(q[i]) = EventKey(e)}

Put(q, e) == IF Pending(q, e) = {} THEN Append(q, e)
             ELSE [i \in DOMAIN q |-> IF i \in Pending(q, e) THEN e ELSE q[i]]

\* A row that replaces an older one is ahead of a removal told between them.
Overtakes(q, e) == \E i \in Pending(q, e) : \E j \in DOMAIN q : j > i /\ q[j].kind = "removed"

Told(r, s) ==
    LET left == [kind |-> "removed", grid |-> r.place, row |-> s]
        here == [kind |-> "changed", grid |-> s.place, row |-> s]
    IN IF s.place = r.place THEN <<here>> ELSE IF s.place = Gone THEN <<left>> ELSE <<left, here>>

\* Events told to a stream that is down are lost.
Tell(evs) ==
    LET q == IF Len(evs) = 2 THEN Put(wire, evs[1]) ELSE wire
        e == evs[Len(evs)]
    IN IF open
       THEN /\ wire' = Put(q, e)
            /\ excuse' = IF Overtakes(q, e) THEN excuse \cup {"coalesced"} ELSE excuse
       ELSE /\ excuse' = excuse \cup {"lost"}
            /\ UNCHANGED wire

Commit(r) ==
    /\ Left
    /\ far' = [r EXCEPT !.n = far.n + 1]
    /\ Tell(Told(far, far'))

\* Another client of the far node edits or moves the tile, into the trash or
\* out of it as well (which is a grid), or destroys it, which is for good.
FarWrites ==
    /\ far.place # Gone
    /\ \/ \E p \in (Grids \cup {Gone}) \ {far.place} : Commit([far EXCEPT !.place = p])
       \/ far.text < MaxText /\ Commit([far EXCEPT !.text = @ + 1])
    /\ UNCHANGED <<farList, open, rowVars, dark, reads, relay, write,
                   cueVars, faults, spent, own, folded, silent>>

\* A listing of the far node's own plugin changes, and only its grid is named.
FarRelists(g) ==
    /\ farList[g] < MaxList /\ Left
    /\ farList' = [farList EXCEPT ![g] = @ + 1]
    /\ Tell(<<[kind |-> "grid", grid |-> g, row |-> NoRow]>>)
    /\ UNCHANGED <<far, open, rowVars, dark, reads, relay, write,
                   cueVars, faults, spent, own, folded, silent>>

\* The stream breaks, and with it what it held.
Break ==
    /\ open /\ FaultLeft
    /\ faults' = faults + 1
    /\ open' = FALSE /\ wire' = <<>>
    /\ excuse' = IF wire # <<>> THEN excuse \cup {"lost"} ELSE excuse
    /\ UNCHANGED <<farVars, rowVars, dark, reads, relay, write,
                   cueVars, spent, own, folded, silent>>

----------------------------------------------------------------------------
(***************************************************************************)
(* foldOrder, as FoldOrder's abstract specification has it: a read in      *)
(* flight is touched by every key recorded since it began.                 *)
(***************************************************************************)

InFlight == {r \in Readers : reads[r].phase \in {"asked", "answered", "refused"}}

Free == Cardinality(InFlight) < MaxBusy

Begins(r, what) == [reads EXCEPT ![r] = [Idle EXCEPT !.phase = "asked", !.what = what]]

Ends(r) == reads' = [reads EXCEPT ![r] = Idle]

Record(keys) ==
    reads' = [r \in Readers |-> IF r \in InFlight THEN [reads[r] EXCEPT !.touched = @ \cup keys]
                                ELSE reads[r]]

\* Mutant: a fold of a row records the row and not its grid.
FoldKeysOfRow(row) == {"tile"}

\* What a fold of a row touches; a deletion names no grid.
FoldKeys(row) == {"tile"} \cup ({row.place} \cap Grids)

Installs(r, keys) == keys \cap reads[r].touched = {}

\* What an answer touches: its grid and every tile in it.
AnswerKeys(r) ==
    IF reads[r].what \in Grids
    THEN {reads[r].what} \cup (IF reads[r].got.place = reads[r].what THEN {"tile"} ELSE {})
    ELSE {"tile"}

----------------------------------------------------------------------------
(***************************************************************************)
(* The rows.                                                               *)
(***************************************************************************)

\* What is kept under the tile's id goes with its row.
Kept(t) == IF tile # NoRow /\ t = NoRow THEN 0 ELSE body

\* A listing is complete: it replaces the grid's rows.
StoreGrid(g, row, list) ==
    /\ tile' = IF row.place = g THEN row ELSE IF tile.place = g THEN NoRow ELSE tile
    /\ grids' = [grids EXCEPT ![g] = list]
    /\ body' = Kept(tile')

EvictGrid(g) ==
    /\ tile' = IF tile.place = g THEN NoRow ELSE tile
    /\ grids' = [grids EXCEPT ![g] = -1]
    /\ body' = Kept(tile')

UpsertTile(row) == tile' = row /\ UNCHANGED <<grids, body>>

DeleteTile == tile' = NoRow /\ body' = Kept(NoRow) /\ UNCHANGED grids

\* A fold writes outside the lock its record took.
FoldRow(row) ==
    /\ IF row.place = Gone THEN DeleteTile ELSE UpsertTile(row)
    /\ folded' = row.n

----------------------------------------------------------------------------
(***************************************************************************)
(* Reads.                                                                  *)
(***************************************************************************)

\* The grid a call was about, to be announced when the call found the source
\* dark or light.
GridAtHand(r) == IF reads[r].what \in Grids THEN {reads[r].what} ELSE {tile.place} \cap Grids
Noticed(r, d) == IF d # dark THEN GridAtHand(r) ELSE {}

Cue(gs) == cued' = [g \in Grids |-> cued[g] \/ g \in gs]

WriteNotices(d) == dark' = d /\ Cue(IF d # dark THEN {tile.place} \cap Grids ELSE {})

\* A cached grid is served as it is; past its window (at any time after it
\* was fetched), or with the source dark, one revalidation of it is started.
Serve(g) ==
    /\ Cached(g) /\ reads["user"].what # g
    /\ served' = [served EXCEPT ![g] = CachedListing(g)]
    /\ cued' = [cued EXCEPT ![g] = FALSE]
    /\ silent' = silent \ {g}
    /\ \/ ~dark /\ UNCHANGED reads
       \/ reads' = IF reads[g].phase # "idle" THEN reads
                   ELSE [reads EXCEPT ![g] = [Idle EXCEPT !.phase = "spawned", !.what = g]]
    /\ UNCHANGED <<farVars, wireVars, rowVars, dark, relay, write,
                   faults, spent, own, folded, excuse>>

Miss(g) ==
    /\ ~Cached(g) /\ reads["user"].phase = "idle" /\ Free /\ spent < MaxReads
    /\ spent' = spent + 1
    /\ reads' = Begins("user", g)
    /\ cued' = [cued EXCEPT ![g] = FALSE]
    /\ UNCHANGED <<farVars, wireVars, rowVars, dark, relay, write,
                   served, faults, histVars>>

\* GetTile and ReadContent ask the source first.
UserReads(what) ==
    /\ reads["user"].phase = "idle" /\ spent < MaxReads /\ Free
    /\ spent' = spent + 1
    /\ reads' = Begins("user", what)
    /\ UNCHANGED <<farVars, wireVars, rowVars, dark, relay, write,
                   cueVars, faults, histVars>>

\* The revalidation's goroutine loads what it will compare with, and asks.
Revalidate(g) ==
    /\ reads[g].phase = "spawned" /\ Free
    /\ reads' = [Begins(g, g) EXCEPT ![g].old = CachedListing(g)]
    /\ UNCHANGED <<farVars, wireVars, rowVars, dark, relay, write,
                   cueVars, faults, spent, histVars>>

\* The prefetch walk, whenever it has been kicked (Warming), reads live.
Walks(g) ==
    /\ reads["walk"].phase = "idle" /\ Free /\ spent < MaxReads
    /\ spent' = spent + 1
    /\ reads' = Begins("walk", g)
    /\ UNCHANGED <<farVars, wireVars, rowVars, dark, relay, write, cueVars, faults, histVars>>

FarAnswers(r) ==
    /\ reads[r].phase = "asked"
    /\ reads' = [reads EXCEPT
          ![r].phase = IF reads[r].what \in {"tile", "body"} /\ far.place = Gone
                       THEN "refused" ELSE "answered",
          ![r].got = far, ![r].list = IF reads[r].what \in Grids THEN farList[reads[r].what] ELSE 0]
    /\ UNCHANGED <<farVars, wireVars, rowVars, dark, relay, write,
                   cueVars, faults, spent, histVars>>

\* The far node answers that the grid is not there, or not now.
FarRefuses(r) ==
    /\ reads[r].phase = "asked" /\ reads[r].what \in Grids /\ FaultLeft
    /\ faults' = faults + 1
    /\ reads' = [reads EXCEPT ![r].phase = "refused"]
    /\ UNCHANGED <<farVars, wireVars, rowVars, dark, relay, write,
                   cueVars, spent, histVars>>

\* Grids whose cached listing this step changes.
Changed == {g \in Grids : CachedListing(g) # CachedListing(g)'}

\* Mutant: an answer is installed whatever was folded since it was asked.
InstallAlways(r) ==
    CASE reads[r].what \in Grids -> StoreGrid(reads[r].what, reads[r].got, reads[r].list)
      [] reads[r].what = "tile" -> UpsertTile(reads[r].got)
      [] reads[r].what = "body" -> body' = reads[r].got.text /\ UNCHANGED <<tile, grids>>

\* An answer is installed unless a fold overtook it.
Install(r) ==
    IF ~Installs(r, AnswerKeys(r)) THEN UNCHANGED rowVars
    ELSE CASE reads[r].what \in Grids -> StoreGrid(reads[r].what, reads[r].got, reads[r].list)
           [] reads[r].what = "tile" -> UpsertTile(reads[r].got)
           [] reads[r].what = "body" -> body' = reads[r].got.text /\ UNCHANGED <<tile, grids>>

\* Mutant: a revalidation compares with what it has just stored.
AnnouncedNever(r) == {}

\* A revalidation that changed the listing announces it.
Announced(r) ==
    IF r \in Grids /\ Installs(r, AnswerKeys(r)) /\ reads[r].old # Listed(reads[r].got, reads[r].list, r)
    THEN {r} ELSE {}

\* A miss hands the source's answer to the client, installed or not.
Hands(r) ==
    served' = IF r = "user" /\ reads[r].what \in Grids
              THEN [served EXCEPT ![reads[r].what] = Listed(reads[r].got, reads[r].list, reads[r].what)]
              ELSE served

Answered(r) ==
    LET told == Announced(r) \cup Noticed(r, FALSE)
        seen == IF r = "user" /\ Installs(r, AnswerKeys(r)) THEN {reads[r].what} ELSE {}
    IN
    /\ reads[r].phase = "answered"
    /\ Install(r) /\ Ends(r) /\ Hands(r)
    /\ dark' = FALSE
    /\ Cue(told)
    /\ silent' = (silent \ seen) \cup {g \in Changed \ (told \cup seen) :
                     g = r => reads[r].old = CachedListing(g)'}
    /\ folded' = IF tile' = tile THEN folded ELSE 0
    /\ UNCHANGED <<farVars, wireVars, relay, write, faults, spent, own, excuse>>

\* A miss that fails leaves the client without an answer, and told so.
Fails(r) ==
    served' = IF r = "user" /\ reads[r].what \in Grids
              THEN [served EXCEPT ![reads[r].what] = Never] ELSE served

\* An error the source answered is an answer: a revalidation drops the grid.
Refused(r) ==
    /\ reads[r].phase = "refused"
    /\ IF r \in Grids THEN EvictGrid(r) ELSE UNCHANGED rowVars
    /\ Ends(r) /\ Fails(r)
    /\ dark' = FALSE
    /\ Cue(Noticed(r, FALSE) \cup ({r} \cap Grids))
    /\ UNCHANGED <<farVars, wireVars, relay, write, faults, spent, histVars>>

\* A call goes unheard, not answered or its answer lost: nothing is stored.
NotHeard(r) ==
    /\ reads[r].phase \in {"asked", "answered"} /\ FaultLeft
    /\ faults' = faults + 1
    /\ Ends(r) /\ Fails(r)
    /\ dark' = TRUE
    /\ Cue(Noticed(r, TRUE))
    /\ UNCHANGED <<farVars, wireVars, rowVars, relay, write, spent, histVars>>

----------------------------------------------------------------------------
(***************************************************************************)
(* The relay: an event is recorded, written, and only then sent on.        *)
(***************************************************************************)

Reopen ==
    /\ ~open /\ relay = Quiet
    /\ open' = TRUE
    /\ cued' = [g \in Grids |-> TRUE]   \* the client reads again what it holds
    /\ UNCHANGED <<farVars, wire, rowVars, dark, reads, relay, write,
                   served, faults, spent, histVars>>

RelayTakes ==
    LET e == Head(wire) IN
    /\ relay.phase = "idle" /\ wire # <<>>
    /\ wire' = Tail(wire)
    /\ relay' = [phase |-> IF e.kind = "grid" THEN "written" ELSE "recorded", ev |-> e]
    /\ IF e.kind = "grid" THEN UNCHANGED reads
       ELSE Record(FoldKeys(IF e.kind = "removed" THEN NoRow ELSE e.row))
    /\ UNCHANGED <<farVars, open, rowVars, dark, write, cueVars,
                   faults, spent, histVars>>

RelayWrites ==
    LET e == relay.ev IN
    /\ relay.phase = "recorded"
    /\ FoldRow(IF e.kind = "removed" THEN [e.row EXCEPT !.place = Gone] ELSE e.row)
    /\ relay' = [relay EXCEPT !.phase = "written"]
    /\ silent' = silent \cup (Changed \ {e.grid})
    /\ UNCHANGED <<farVars, wireVars, dark, reads, write, cueVars,
                   faults, spent, own, excuse>>

RelaySends ==
    /\ relay.phase = "written"
    /\ Cue({relay.ev.grid})
    /\ relay' = Quiet
    /\ UNCHANGED <<farVars, wireVars, rowVars, dark, reads, write,
                   served, faults, spent, histVars>>

----------------------------------------------------------------------------
(***************************************************************************)
(* The user's writes pass through, and their answers are folded as events  *)
(* are.                                                                    *)
(***************************************************************************)

WriteSent ==
    /\ write.phase = "idle" /\ spent < MaxReads
    /\ spent' = spent + 1
    /\ write' = [write EXCEPT !.phase = "sent"]
    /\ UNCHANGED <<farVars, wireVars, rowVars, dark, reads, relay,
                   cueVars, faults, histVars>>

\* The far node takes it: a move, a deletion, or an edit of the body.  A tile
\* is deleted into the trash, or out of it, and its answer names no row.
WriteTaken ==
    /\ write.phase = "sent" /\ far.place # Gone
    /\ \/ /\ \E p \in (Grids \cup {Gone}) \ {far.place} : Commit([far EXCEPT !.place = p])
          /\ \E row \in {far', [far' EXCEPT !.place = Gone]} :
                 write' = [phase |-> "answered", row |-> row, edit |-> FALSE]
       \/ /\ far.text < MaxText /\ Commit([far EXCEPT !.text = @ + 1])
          /\ write' = [phase |-> "answered", row |-> far', edit |-> TRUE]
    /\ UNCHANGED <<farList, open, rowVars, dark, reads, relay,
                   cueVars, faults, spent, own, folded, silent>>

\* Refused or unheard, it is folded nowhere.
WriteFails ==
    /\ write.phase \in {"sent", "answered"} /\ FaultLeft
    /\ faults' = faults + 1
    /\ WriteNotices(TRUE) \/ (write.phase = "sent" /\ WriteNotices(FALSE))
    /\ write' = [phase |-> "idle", row |-> NoRow, edit |-> FALSE]
    /\ UNCHANGED <<farVars, wireVars, rowVars, reads, relay, served, spent, histVars>>

\* Mutant: the record is left out when a body is dropped.
DropsUnrecorded ==
    /\ write.phase = "answered" /\ write.edit
    /\ write' = [write EXCEPT !.phase = "dropping"]
    /\ UNCHANGED reads

\* An edit's answer has arrived: the body is dropped rather than guessed at.
Drops ==
    /\ write.phase = "answered" /\ write.edit
    /\ write' = [write EXCEPT !.phase = "dropping"]
    /\ Record({"tile"})

WriteAnswered ==
    /\ Drops
    /\ WriteNotices(FALSE)
    /\ UNCHANGED <<farVars, wireVars, rowVars, relay, served, faults, spent, histVars>>

WriteDropsBody ==
    /\ write.phase = "dropping"
    /\ body' = 0
    /\ own' = write.row.text
    /\ write' = [write EXCEPT !.phase = "dropped"]
    /\ UNCHANGED <<farVars, wireVars, tile, grids, dark, reads, relay,
                   cueVars, faults, spent, folded, silent, excuse>>

WriteRecords ==
    /\ write.phase = "dropped" \/ (write.phase = "answered" /\ ~write.edit)
    /\ Record(FoldKeys(write.row))
    /\ write' = [write EXCEPT !.phase = "recorded"]
    /\ IF write.phase = "answered" THEN WriteNotices(FALSE) ELSE UNCHANGED <<dark, cued>>
    /\ UNCHANGED <<farVars, wireVars, rowVars, relay, served, faults, spent, histVars>>

\* The far node's latest write is still to be folded.
Coming == \/ \E i \in DOMAIN wire : wire[i].row.n = far.n
          \/ relay.phase = "recorded" /\ relay.ev.row.n = far.n

\* The client that wrote has the answer itself.
WriteFolds ==
    /\ write.phase = "recorded"
    /\ excuse' = IF write.row # far /\ (write.row.n < folded \/ ~Coming)
                 THEN excuse \cup {"late answer"} ELSE excuse
    /\ FoldRow(write.row)
    /\ Cue(Changed)
    /\ write' = [phase |-> "idle", row |-> NoRow, edit |-> FALSE]
    /\ UNCHANGED <<farVars, wireVars, dark, reads, relay, served,
                   faults, spent, own, silent>>

----------------------------------------------------------------------------
Next ==
    \/ FarWrites
    \/ \E g \in Grids : FarRelists(g)
    \/ Break
    \/ \E g \in Grids : Serve(g)
    \/ \E g \in Grids : Miss(g)
    \/ \E what \in {"tile", "body"} : UserReads(what)
    \/ \E g \in Grids : Revalidate(g)
    \/ \E g \in Grids : Walks(g)
    \/ \E r \in Readers : FarAnswers(r)
    \/ \E r \in Readers : FarRefuses(r)
    \/ \E r \in Readers : Answered(r)
    \/ \E r \in Readers : Refused(r)
    \/ \E r \in Readers : NotHeard(r)
    \/ Reopen
    \/ RelayTakes
    \/ RelayWrites
    \/ RelaySends
    \/ WriteSent
    \/ WriteTaken
    \/ WriteFails
    \/ WriteAnswered
    \/ WriteDropsBody
    \/ WriteRecords
    \/ WriteFolds

Spec == Init /\ [][Next]_vars

----------------------------------------------------------------------------
(* Type correctness of every variable. *)
TypeOK ==
    /\ far \in Row /\ farList \in [Grids -> 0..MaxList]
    /\ wire \in Seq(Event) /\ open \in BOOLEAN
    /\ tile \in Row \cup {NoRow}
    /\ grids \in [Grids -> -1..MaxList]
    /\ body \in 0..MaxText /\ dark \in BOOLEAN
    /\ reads \in [Readers -> Read]
    /\ relay \in {Quiet} \cup [phase : {"recorded", "written"}, ev : Event]
    /\ write \in [phase : {"idle", "sent", "answered", "dropping", "dropped", "recorded"},
                  row : Row \cup {NoRow}, edit : BOOLEAN]
    /\ served \in [Grids -> Listing \cup {Never}] /\ cued \in [Grids -> BOOLEAN]
    /\ faults \in 0..MaxFaults /\ spent \in 0..MaxReads
    /\ own \in 0..MaxText /\ folded \in Nat /\ silent \subseteq Grids
    /\ excuse \subseteq {"lost", "coalesced", "late answer"}
    /\ \A i \in DOMAIN wire : Pending(wire, wire[i]) = {i}
    /\ \A r \in Readers : reads[r].phase = "idle" => reads[r] = Idle

(***************************************************************************)
(* "An answer the source gave before a fold the layer applied since is     *)
(* older than the rows it would replace, so it is not installed"           *)
(* (foldorder.go): whatever read lands, of either grid or of the tile, it  *)
(* never takes the row back behind the write that was folded into it last. *)
(***************************************************************************)
InstallsNeverUndoFolds ==
    [][\A r \in Readers :
          reads[r].phase = "answered" /\ reads'[r].phase = "idle" /\ tile' # tile
             => reads[r].got.n >= folded]_vars

\* Nothing is told, folded, read or written any more.
Rest ==
    /\ open /\ wire = <<>> /\ relay = Quiet /\ write.phase = "idle"
    /\ \A r \in Readers : reads[r].phase = "idle"

(***************************************************************************)
(* At rest every cached grid has the tile exactly where and as the far     *)
(* node has it, unless the stream lost an event, a coalesced move was told *)
(* before its removal, or a write's answer was folded after a newer event  *)
(* (README, findings).                                                     *)
(***************************************************************************)
Converged ==
    Rest /\ excuse = {} =>
        \A g \in Grids : Cached(g) => CachedListing(g).text = Listed(far, farList[g], g).text

(***************************************************************************)
(* A cached grid corrects itself (docs/freshness.md, trace a): whatever    *)
(* the cache has come to hold instead of what it served, by an event, a    *)
(* revalidation or an eviction, it has told the client to read again.  A   *)
(* read that nobody announces is left out: silent.                         *)
(***************************************************************************)
ChangesAreAnnounced ==
    Rest /\ excuse \subseteq {"lost"} =>
        \A g \in Grids \ silent :
            served[g] # Never =>
                \/ cued[g]
                \/ served[g] = CachedListing(g)
                \/ ~Cached(g) /\ (excuse = {} => served[g] = Listed(far, farList[g], g))

(***************************************************************************)
(* "A cached body must be one the source vouched for whole"                *)
(* (Layer.WriteContent): once the user's edit is answered, no body from    *)
(* before it is found in the cache, though a read of it was in flight.     *)
(***************************************************************************)
NoBodyFromBeforeTheEdit == body # 0 => body >= own

(***************************************************************************)
(* What is kept under a tile's id, and no row names, is dropped when the   *)
(* row leaves (forgetUnnamed): a restart of the row never finds the body   *)
(* of an older one.                                                        *)
(***************************************************************************)
BodyLeavesWithRow == [][tile # NoRow /\ tile' = NoRow => body' = 0]_vars

(***************************************************************************)
(* "GridChanged carries only an id, so there is nothing to apply and the   *)
(* next GetGrid refreshes" (Layer.applyEvent): at rest, with no event      *)
(* lost and none withheld, what a client was last answered is what the far *)
(* node lists, unless it has been told to read again.                      *)
(***************************************************************************)
CuesRefresh ==
    Rest /\ excuse = {} =>
        \A g \in Grids \ silent :
            served[g] # Never /\ Cached(g) => cued[g] \/ served[g] = Listed(far, farList[g], g)
=============================================================================
