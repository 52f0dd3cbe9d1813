------------------------------ MODULE TileFeed ------------------------------
(***************************************************************************)
(* Where one tile of the home namespace is: on the node, on the event      *)
(* stream of one client, in that client's cache, and under its user's      *)
(* hand.                                                                   *)
(*                                                                         *)
(* A placement write claims the placement the user saw, not a version      *)
(* (store.ClaimPlacement), so no version orders two of them.  The store    *)
(* publishes a write's events once it has committed, outside any lock; the *)
(* hub queues them in the subscriber's mailbox; and the cache shows the    *)
(* user's own placement ahead of its echo by holding it against every row  *)
(* that is not that echo (client/cache/placement.go).                      *)
(*                                                                         *)
(* Both grids are on the user's screen: the client has read them.          *)
(***************************************************************************)
EXTENDS Integers, Sequences, FiniteSets

CONSTANTS
    Places,      \* a place is a grid and a footprint in it
    Grids,
    GridOf,      \* the grid of each place
    Moves,       \* the user's placement writes, in the order they are made
    Writers,     \* requests of other clients
    NoPlace,
    NoMove,
    MaxCommits,  \* bound on the node's commits
    MaxVersion,  \* bound on the row's content version
    MaxLine,     \* bound on the events sent and not applied
    MaxResyncs   \* bound on the breaks of the stream and the reads on their own

ASSUME FeedAssumption ==
    /\ GridOf \in [Places -> Grids]
    /\ NoPlace \notin Places /\ NoMove \notin Moves /\ Moves \cap Writers = {}
    /\ "row" \notin Grids \* a removal's key is never a row's
    /\ MaxCommits \in Nat /\ MaxLine \in Nat \ {0} /\ MaxResyncs \in Nat
    /\ MaxVersion \in Nat \ {0}

VARIABLES
    \* the node
    row,       \* the tile's row
    commits,   \* history: the writes committed
    telling,   \* each request's events, committed and not yet published
    \* the stream
    open,      \* the client is subscribed
    box,       \* the subscriber's queue in the hub
    arriving,  \* the events sent and not yet applied
    told,      \* history: the newest commit the stream has carried
    \* the client
    press,     \* the placement the drag began at, and claims
    moves,     \* the user's writes
    shown,     \* each cached grid's row of the tile
    hold,      \* the held placement
    reads,     \* each grid's read
    \* bounds and history
    resyncs,   \* breaks of the stream, and reads on their own
    excuse     \* what has gone wrong that the findings describe

nodeVars   == <<row, commits, telling>>
streamVars == <<open, box, arriving, told>>
cacheVars  == <<shown, hold>>
feedVars == <<nodeVars, streamVars, press, moves, cacheVars, reads, resyncs, excuse>>

Slots == Moves \cup Writers

Row   == [place : Places, version : 1..MaxVersion]
NoRow == [place |-> NoPlace, version |-> 0]

\* n is the commit the event tells of: what the client cannot see.
FeedEvent == [kind : {"changed", "removed"}, grid : Grids, row : Row, n : 1..MaxCommits]
Changed(r, n)    == [kind |-> "changed", grid |-> GridOf[r.place], row |-> r, n |-> n]
Removed(g, r, n) == [kind |-> "removed", grid |-> g, row |-> r, n |-> n]

\* A removal is keyed by its grid, apart from the row.
EventKey(e) == IF e.kind = "removed" THEN e.grid ELSE "row"
EventKeys   == Grids \cup {"row"}

Move == [phase : {"unmade", "sent", "landed", "refused"}, waiting : BOOLEAN,
         to : Places \cup {NoPlace}, claim : Places \cup {NoPlace},
         origin : Places \cup {NoPlace}, answer : Row \cup {NoRow}, n : 0..MaxCommits]
Unmade == [phase |-> "unmade", waiting |-> FALSE, to |-> NoPlace, claim |-> NoPlace,
           origin |-> NoPlace, answer |-> NoRow, n |-> 0]

\* "covered" is history: where the rows the hold covered say the tile is.
Hold   == [move : Moves, place : Places, landed : BOOLEAN, covered : SUBSET Places]
NoHold == [move |-> NoMove, place |-> NoPlace, landed |-> FALSE, covered |-> {}]

Read   == [phase : {"none", "asked", "answered"}, row : Row \cup {NoRow}, n : 0..MaxCommits,
           owed : BOOLEAN]
NoRead == [phase |-> "none", row |-> NoRow, n |-> 0, owed |-> FALSE]
Asking == [NoRead EXCEPT !.phase = "asked"]

FeedInit ==
    /\ row \in [place : Places, version : {1}]
    /\ commits = 0
    /\ telling = [s \in Slots |-> <<>>]
    /\ open = TRUE /\ box = <<>> /\ arriving = <<>> /\ told = 0
    /\ press = NoPlace
    /\ moves = [m \in Moves |-> Unmade]
    /\ shown = [g \in Grids |-> IF g = GridOf[row.place] THEN row ELSE NoRow]
    /\ hold = NoHold
    /\ reads = [g \in Grids |-> NoRead]
    /\ resyncs = 0
    /\ excuse = {}

Feed == INSTANCE Mailbox WITH Entity <- EventKeys, Event <- FeedEvent, line <- arriving, stopped <- ~open

----------------------------------------------------------------------------
(***************************************************************************)
(* The node.                                                               *)
(***************************************************************************)

\* A row write commits, and owes its events: the grid it left first.
Commit(s, r) ==
    LET n == commits + 1 IN
    /\ commits < MaxCommits
    /\ commits' = n
    /\ row' = r
    /\ telling' = [telling EXCEPT ![s] =
          IF GridOf[r.place] = GridOf[row.place]
          THEN <<Changed(r, n)>>
          ELSE <<Removed(GridOf[row.place], row, n), Changed(r, n)>>]

ClaimPlacement(c) == row.place = c

\* The node takes the user's write; it refuses a claim that is gone, and an
\* overlap with another tile.  One that changes nothing tells nobody.
NodeMoves(m, overlap) ==
    /\ moves[m].phase = "sent"
    /\ IF row.place = moves[m].to
       THEN /\ moves' = [moves EXCEPT ![m].phase = "landed", ![m].answer = row,
                                      ![m].n = commits]
            /\ UNCHANGED nodeVars
       ELSE IF ClaimPlacement(moves[m].claim) /\ ~overlap
       THEN /\ Commit(m, [row EXCEPT !.place = moves[m].to])
            /\ moves' = [moves EXCEPT ![m].phase = "landed", ![m].answer = row',
                                      ![m].n = commits + 1]
       ELSE /\ moves' = [moves EXCEPT ![m].phase = "refused"]
            /\ UNCHANGED nodeVars
    /\ UNCHANGED <<streamVars, press, cacheVars, reads, resyncs, excuse>>

OtherMoves(w, p) ==
    /\ telling[w] = <<>> /\ p # row.place
    /\ Commit(w, [row EXCEPT !.place = p])
    /\ UNCHANGED <<streamVars, press, moves, cacheVars, reads, resyncs, excuse>>

OtherEdits(w) ==
    /\ telling[w] = <<>> /\ row.version < MaxVersion
    /\ Commit(w, [row EXCEPT !.version = @ + 1])
    /\ UNCHANGED <<streamVars, press, moves, cacheVars, reads, resyncs, excuse>>

\* An older commit's events are still to be published.
Overtakes(s) ==
    \E t \in Slots : telling[t] # <<>> /\ Head(telling[t]).n < Head(telling[s]).n

\* A request publishes its events after the commit, one at a time.
Publishes(s) ==
    /\ telling[s] # <<>>
    /\ excuse' = IF Overtakes(s) THEN excuse \cup {"order"} ELSE excuse
    /\ telling' = [telling EXCEPT ![s] = Tail(@)]
    /\ UNCHANGED open
    /\ IF open THEN Feed!Put(EventKey(Head(telling[s])), Head(telling[s]))
               ELSE UNCHANGED <<box, arriving>>
    /\ UNCHANGED <<row, commits, told, press, moves, cacheVars, reads, resyncs>>

----------------------------------------------------------------------------
(***************************************************************************)
(* The cache.  What it shows is a function of the rows and the hold.       *)
(***************************************************************************)

Held == {g \in Grids : shown[g] # NoRow}

\* A row for a held tile takes the held layout, unless it ends the hold.
Admit(h, r, stream) ==
    IF h = NoHold \/ (stream /\ r.place = h.place) \/ (~stream /\ h.landed)
    THEN [row |-> r, hold |-> NoHold]
    ELSE [row  |-> [r EXCEPT !.place = h.place], hold |-> [h EXCEPT !.covered = @ \cup {r.place}]]

\* Mutant: a row stored in one grid stays in the other.
StoredBeside(rows, r) ==
    IF r.version < rows[GridOf[r.place]].version THEN rows ELSE [rows EXCEPT ![GridOf[r.place]] = r]

\* A row goes where its grid is, unless that grid has a newer version of it,
\* and leaves every other.
Stored(rows, r) ==
    IF r.version < rows[GridOf[r.place]].version
    THEN rows
    ELSE [g \in Grids |-> IF g = GridOf[r.place] THEN r ELSE NoRow]

\* Mutant: a read replaces the grid it read, hold or no hold.
PutGridWhole(h, g, r) ==
    /\ hold' = h
    /\ shown' = IF r = NoRow THEN [shown EXCEPT ![g] = NoRow]
                ELSE [x \in Grids |-> IF x = g THEN r ELSE NoRow]

\* A read of g answered the tile's row there, or none.
PutGrid(h, g, r) ==
    LET a == Admit(h, r, FALSE) IN
    CASE r = NoRow /\ h # NoHold /\ GridOf[h.place] = g /\ h.landed ->
            hold' = NoHold /\ shown' = [shown EXCEPT ![g] = NoRow]
      [] r = NoRow /\ h # NoHold /\ GridOf[h.place] = g /\ ~h.landed ->
            UNCHANGED <<hold, shown>>
      [] r = NoRow /\ (h = NoHold \/ GridOf[h.place] # g) ->
            hold' = h /\ shown' = [shown EXCEPT ![g] = NoRow]
      [] r # NoRow /\ GridOf[a.row.place] = g ->
            hold' = a.hold /\ shown' = [x \in Grids |-> IF x = g THEN a.row ELSE NoRow]
      [] r # NoRow /\ GridOf[a.row.place] # g ->
            hold' = a.hold /\ shown' = Stored([shown EXCEPT ![g] = NoRow], a.row)

----------------------------------------------------------------------------
(***************************************************************************)
(* The stream.                                                             *)
(***************************************************************************)

Take ==
    /\ Len(arriving) < MaxLine
    /\ UNCHANGED open /\ Feed!Take
    /\ UNCHANGED <<nodeVars, told, press, moves, cacheVars, reads, resyncs, excuse>>

\* Mutant: an event owes the read in flight nothing.
OwedNothing(g) == UNCHANGED reads

\* The read of a changed grid in flight is asked again.
Owed(g) == reads' = [reads EXCEPT ![g].owed = reads[g].phase # "none"]

\* The stream's order is not the order of the commits.
OutOfOrder(e) == IF e.n < told THEN {"order"} ELSE {}

Tell(e) ==
    /\ told' = IF e.n > told THEN e.n ELSE told
    /\ excuse' = excuse \cup OutOfOrder(e)

ApplyChanged ==
    LET e == Head(arriving)
        a == Admit(hold, e.row, TRUE)
    IN
    /\ arriving # <<>> /\ e.kind = "changed"
    /\ arriving' = Tail(arriving)
    /\ hold' = a.hold
    /\ shown' = Stored(shown, a.row)
    /\ Owed(e.grid)
    /\ Tell(e)
    /\ UNCHANGED <<nodeVars, open, box, press, moves, resyncs>>

\* A removal from the grid a placement is held in came before the placement.
ApplyRemoved ==
    LET e == Head(arriving) IN
    /\ arriving # <<>> /\ e.kind = "removed"
    /\ arriving' = Tail(arriving)
    /\ shown' = IF hold # NoHold /\ GridOf[hold.place] = e.grid
                THEN shown ELSE [shown EXCEPT ![e.grid] = NoRow]
    /\ Owed(e.grid)
    /\ Tell(e)
    /\ UNCHANGED <<nodeVars, open, box, press, moves, hold, resyncs>>

Break ==
    /\ open /\ resyncs < MaxResyncs
    /\ open' = FALSE /\ box' = <<>> /\ arriving' = <<>>
    /\ resyncs' = resyncs + 1
    /\ UNCHANGED <<nodeVars, told, press, moves, cacheVars, reads, excuse>>

\* The client is subscribed again, and reads every grid it holds anew.
Reopen ==
    /\ ~open
    /\ open' = TRUE
    /\ reads' = [g \in Grids |-> Asking]
    /\ UNCHANGED <<nodeVars, box, arriving, told, press, moves, cacheVars, resyncs, excuse>>

----------------------------------------------------------------------------
(***************************************************************************)
(* Reads.                                                                  *)
(***************************************************************************)

Refetched(g) == [reads EXCEPT ![g] = IF @.phase = "none" THEN Asking ELSE [@ EXCEPT !.owed = TRUE]]

Ask(g) ==
    /\ reads[g].phase = "none" /\ resyncs < MaxResyncs
    /\ resyncs' = resyncs + 1
    /\ reads' = [reads EXCEPT ![g] = Asking]
    /\ UNCHANGED <<nodeVars, streamVars, press, moves, cacheVars, excuse>>

Answer(g) ==
    /\ reads[g].phase = "asked"
    /\ reads' = [reads EXCEPT ![g].phase = "answered", ![g].n = commits,
                              ![g].row = IF GridOf[row.place] = g THEN row ELSE NoRow]
    /\ UNCHANGED <<nodeVars, streamVars, press, moves, cacheVars, resyncs, excuse>>

\* The read is older than an event, and the tile has been put elsewhere.
Stale(g) ==
    reads[g].row # NoRow /\ reads[g].n < told /\ (hold # NoHold \/ Held \ {g} # {})

\* The read ends the hold, and the hold had covered the other grid's row.
Uncovers(g) ==
    /\ reads[g].row = NoRow /\ hold.landed /\ GridOf[hold.place] = g
    /\ \E p \in hold.covered : GridOf[p] # g

Land(g) ==
    /\ reads[g].phase = "answered"
    /\ PutGrid(hold, g, reads[g].row)
    /\ reads' = [reads EXCEPT ![g] = IF @.owed THEN Asking ELSE NoRead]
    /\ excuse' = IF Stale(g) THEN excuse \cup {"stale read"}
                 ELSE IF Uncovers(g) THEN excuse \cup {"covered"} ELSE excuse
    /\ UNCHANGED <<nodeVars, streamVars, press, moves, resyncs>>

----------------------------------------------------------------------------
(***************************************************************************)
(* The user.                                                               *)
(***************************************************************************)

\* A drag begins on a row that is shown, and keeps the placement it saw.
Press(g) ==
    /\ press = NoPlace /\ g \in Held
    /\ \E m \in Moves : moves[m].phase = "unmade"
    /\ press' = shown[g].place
    /\ UNCHANGED <<nodeVars, streamVars, moves, cacheVars, reads, resyncs, excuse>>

\* The drop: the cache holds the placement, and the write is sent.
Release(m, p) ==
    /\ press # NoPlace /\ p # press /\ moves[m].phase = "unmade"
    /\ press' = NoPlace
    /\ IF Held = {}
       THEN /\ moves' = [moves EXCEPT ![m] = [Unmade EXCEPT !.phase = "sent", !.waiting = TRUE,
                                                           !.to = p, !.claim = press]]
            /\ UNCHANGED cacheVars
       ELSE LET cur == shown[CHOOSE g \in Held : TRUE] IN
            /\ moves' = [moves EXCEPT ![m] = [Unmade EXCEPT !.phase = "sent", !.waiting = TRUE,
                                                           !.to = p, !.claim = press,
                                                           !.origin = cur.place]]
            /\ hold' = [move |-> m, place |-> p, landed |-> FALSE,
                        covered |-> hold.covered \cup
                                    (IF hold = NoHold \/ hold.landed THEN {}
                                     ELSE {moves[hold.move].origin})]
            /\ shown' = Stored(shown, [cur EXCEPT !.place = p])
    /\ UNCHANGED <<nodeVars, streamVars, reads, resyncs, excuse>>

\* The answer is folded into the row it names, where that row is cached.
WriteResponse(h, r) ==
    LET g == GridOf[r.place]
        a == Admit(h, [shown[g] EXCEPT !.place = r.place], FALSE)
    IN IF shown[g] = NoRow
       THEN [rows |-> shown, hold |-> h]
       ELSE [rows |-> Stored(shown, a.row),
             hold |-> IF a.hold = NoHold THEN NoHold ELSE h]

\* A newer row than commit n left is still on its way.
Newer(e, n) == e.kind = "changed" /\ e.n > n
Coming(n) ==
    \/ \E s \in Slots : \E i \in DOMAIN telling[s] : Newer(telling[s][i], n)
    \/ \E i \in DOMAIN box : Newer(box[i].event, n)
    \/ \E i \in DOMAIN arriving : Newer(arriving[i], n)

\* Once the write has landed, a read is the node's word too.  Its answer may be
\* older than rows already applied: if it then puts its own row back, or passes
\* for the echo of a landed hold's, nothing is left to put it right.
MoveLands(m) ==
    LET w == WriteResponse(hold, moves[m].answer) IN
    /\ moves[m].waiting /\ moves[m].phase = "landed" /\ telling[m] = <<>>
    /\ moves' = [moves EXCEPT ![m].waiting = FALSE]
    /\ IF moves[m].origin = NoPlace
       THEN UNCHANGED <<cacheVars, excuse>>
       ELSE /\ shown' = w.rows
            /\ hold' = IF w.hold.move = m THEN [w.hold EXCEPT !.landed = TRUE] ELSE w.hold
            /\ excuse' = IF <<w.rows, w.hold>> # <<shown, hold>> /\ moves[m].n < commits /\ ~Coming(moves[m].n)
                         THEN excuse \cup {"late answer"} ELSE excuse
    /\ UNCHANGED <<nodeVars, streamVars, press, reads, resyncs>>

\* The row goes back where it was, unless a later placement superseded this
\* one or the stream carried it.
Failed(m) ==
    IF hold.move = m
    THEN /\ hold' = NoHold
         /\ shown' = IF Held = {} THEN shown
                     ELSE Stored(shown, [shown[CHOOSE g \in Held : TRUE] EXCEPT !.place = moves[m].origin])
    ELSE UNCHANGED cacheVars

\* Where the hold covered rows that Failed does not put back.
Covered(m) == IF hold.move = m THEN hold.covered \ {moves[m].origin} ELSE {}

\* A verdict reads the grid the drag began in again, and puts the row back.
MoveRefused(m) ==
    /\ moves[m].waiting /\ moves[m].phase = "refused"
    /\ moves' = [moves EXCEPT ![m].waiting = FALSE]
    /\ reads' = Refetched(GridOf[moves[m].claim])
    /\ Failed(m)
    /\ excuse' = IF \E p \in Covered(m) : GridOf[p] # GridOf[moves[m].claim]
                 THEN excuse \cup {"refused"} ELSE excuse
    /\ UNCHANGED <<nodeVars, streamVars, press, resyncs>>

\* The client gives up waiting: the row goes back, and nothing is read.  The
\* request is still on its way, or is lost and changes nothing.
MoveUnheard(m) ==
    /\ moves[m].waiting
    /\ \/ moves' = [moves EXCEPT ![m].waiting = FALSE]
       \/ /\ moves[m].phase = "sent"
          /\ moves' = [moves EXCEPT ![m].waiting = FALSE, ![m].phase = "refused"]
    /\ Failed(m)
    /\ excuse' = IF Covered(m) # {} THEN excuse \cup {"unheard"} ELSE excuse
    /\ UNCHANGED <<nodeVars, streamVars, press, reads, resyncs>>

----------------------------------------------------------------------------
FeedNext ==
    \/ \E m \in Moves, overlap \in BOOLEAN : NodeMoves(m, overlap)
    \/ \E w \in Writers, p \in Places : OtherMoves(w, p)
    \/ \E w \in Writers : OtherEdits(w)
    \/ \E s \in Slots : Publishes(s)
    \/ Take
    \/ ApplyChanged
    \/ ApplyRemoved
    \/ Break
    \/ Reopen
    \/ \E g \in Grids : Ask(g)
    \/ \E g \in Grids : Answer(g)
    \/ \E g \in Grids : Land(g)
    \/ \E g \in Grids : Press(g)
    \/ \E m \in Moves, p \in Places : Release(m, p)
    \/ \E m \in Moves : MoveLands(m)
    \/ \E m \in Moves : MoveRefused(m)
    \/ \E m \in Moves : MoveUnheard(m)

FeedSpec == FeedInit /\ [][FeedNext]_feedVars

----------------------------------------------------------------------------
(* Type correctness of every variable. *)
FeedTypeOK ==
    /\ row \in Row
    /\ commits \in 0..MaxCommits
    /\ telling \in [Slots -> Seq(FeedEvent)]
    /\ open \in BOOLEAN
    /\ box \in Seq([entity : EventKeys, event : FeedEvent])
    /\ arriving \in Seq(FeedEvent)
    /\ told \in 0..MaxCommits
    /\ press \in Places \cup {NoPlace}
    /\ moves \in [Moves -> Move]
    /\ shown \in [Grids -> Row \cup {NoRow}]
    /\ hold \in Hold \cup {NoHold}
    /\ reads \in [Grids -> Read]
    /\ resyncs \in 0..MaxResyncs
    /\ excuse \subseteq {"order", "late answer", "stale read", "covered", "refused", "unheard"}

(***************************************************************************)
(* The tile has one home on the screen, in the grid its row names, however *)
(* reads, events and answers interleave.                                   *)
(***************************************************************************)
OneHome ==
    /\ Cardinality(Held) <= 1
    /\ \A g \in Held : GridOf[shown[g].place] = g

(***************************************************************************)
(* The user's placement stays under the user's hand: no row that is not    *)
(* its echo, of either grid, old or new, moves the tile while it is held.  *)
(***************************************************************************)
HeldShown == hold # NoHold => \A g \in Held : shown[g].place = hold.place

Rest ==
    /\ open /\ box = <<>> /\ arriving = <<>>
    /\ \A s \in Slots : telling[s] = <<>>
    /\ \A m \in Moves : moves[m].phase # "sent" /\ ~moves[m].waiting
    /\ \A g \in Grids : reads[g] = NoRead

Agree == shown = [g \in Grids |-> IF g = GridOf[row.place] THEN row ELSE NoRow]

ReconciledBut(s) == Rest /\ hold = NoHold /\ excuse \subseteq s => Agree

(***************************************************************************)
(* "The event it caused reconciles every open view, this one included"     *)
(* (client/wasm/mutate.go): once nothing travels, the screen shows the     *)
(* tile where the node has it, unless a hold outlived its echo or one of   *)
(* the README's findings happened on the way.                              *)
(***************************************************************************)
Reconciled == ReconciledBut({})

(***************************************************************************)
(* "A row has one home: the grid that last answered for it" (cache): a     *)
(* read answered before a move and landing after it must not cost the tile *)
(* the home the move gave it.                                              *)
(***************************************************************************)
ReconciledAfterStaleReads == ReconciledBut({"stale read"})

(***************************************************************************)
(* "A conflict also re-reads the grid, so the tile lands where the node    *)
(* holds it" (client/wasm/drop_commit.go).                                 *)
(***************************************************************************)
ReconciledAfterConflicts == ReconciledBut({"refused"})
=============================================================================
