--------------------------- MODULE InflightReads ---------------------------
(***************************************************************************)
(* One grid the client shows, and the reads it asks of it.                 *)
(*                                                                         *)
(* The renderer asks for a grid on every draw that misses it, so the       *)
(* client keeps per key one claim and one failure latch (client/inflight). *)
(* Events say what changed (client/events), a gap in the stream or a       *)
(* settled health transition resyncs (client/wasm retryKick), and a slow   *)
(* tick re-asks what was unreachable.  The node answers a read with the    *)
(* listing and the row of that moment, or refuses it.                      *)
(*                                                                         *)
(* A listing is a version of the grid's set of tiles, a row is a version   *)
(* of one tile in it: GridChanged says the first moved and carries         *)
(* nothing, TileChanged carries the second.                                *)
(***************************************************************************)
EXTENDS Integers, Sequences, FiniteSets

CONSTANTS
    Fetches,      \* identities of reads: a claim is known by its pointer
    None,         \* no fetch
    MaxListing,   \* bound on the listings the node goes through
    MaxRow,       \* bound on the versions of the row
    MaxFaults     \* bound on stream breaks, settled health moves and lost calls

ASSUME ReadsAssumption ==
    /\ MaxListing \in Nat \ {0}
    /\ MaxRow \in Nat \ {0}
    /\ MaxFaults \in Nat
    /\ None \notin Fetches

VARIABLES
    \* the node
    listing,   \* the listing's version
    gone,      \* the listings at which the node refuses the key
    row,       \* the row's version
    stream,    \* events published and not delivered, oldest first
    \* the client
    open,      \* the event stream is open
    claim,     \* the fetch holding the key, or None
    fetch,     \* every fetch's state
    latch,     \* the failure latch
    cache,     \* the cached grid
    \* history
    told,      \* the listing and the row the client has been told of
    verdict,   \* the listing the latched refusal was about
    astray,    \* the key went unasked though the last answer is not the answer
    faults     \* breaks, health moves and lost calls so far

node == <<listing, gone, row>>
vars == <<listing, gone, row, stream, open, claim, fetch, latch, cache, told, verdict,
          astray, faults>>

Listing == 1..MaxListing
Row     == 1..MaxRow

Fetch == [phase : {"free", "asked", "answered", "failed"}, listing : 0..MaxListing,
          row : 0..MaxRow, owed : BOOLEAN, cancelled : BOOLEAN, back : BOOLEAN]
Free  == [phase |-> "free", listing |-> 0, row |-> 0, owed |-> FALSE, cancelled |-> FALSE,
          back |-> FALSE]
Asked == [Free EXCEPT !.phase = "asked"]

Event == [kind : {"GridChanged", "TileChanged"}, version : Nat]
GridChanged(l) == [kind |-> "GridChanged", version |-> l]
TileChanged(r) == [kind |-> "TileChanged", version |-> r]

Grid   == [held : BOOLEAN, listing : 0..MaxListing, row : 0..MaxRow]
NoGrid == [held |-> FALSE, listing |-> 0, row |-> 0]

Init ==
    /\ listing = 1 /\ row = 1
    /\ gone \in SUBSET {1}
    /\ stream = <<>>
    /\ open = TRUE
    /\ claim = None
    /\ fetch = [f \in Fetches |-> Free]
    /\ latch = "none"
    /\ cache = NoGrid
    /\ told = [listing |-> 0, row |-> 0]
    /\ verdict = 0
    /\ astray = FALSE
    /\ faults = 0

----------------------------------------------------------------------------
(***************************************************************************)
(* The node.                                                               *)
(***************************************************************************)

\* An event reaches a client whose stream is open, and is lost to another.
Publish(e) == stream' = IF open THEN Append(stream, e) ELSE stream

\* The listing moves: a tile comes or goes, or the grid does.
NodeRelists(isGone) ==
    /\ listing < MaxListing
    /\ listing' = listing + 1
    /\ gone' = IF isGone THEN gone \cup {listing + 1} ELSE gone
    /\ Publish(GridChanged(listing + 1))
    /\ UNCHANGED <<row, open, claim, fetch, latch, cache, told, verdict, astray, faults>>

NodeMovesRow ==
    /\ row < MaxRow /\ listing \notin gone
    /\ row' = row + 1
    /\ Publish(TileChanged(row + 1))
    /\ UNCHANGED <<listing, gone, open, claim, fetch, latch, cache, told, verdict, astray, faults>>

----------------------------------------------------------------------------
(***************************************************************************)
(* Claims (client/inflight).                                               *)
(***************************************************************************)

Spare(fs) == CHOOSE f \in Fetches : fs[f].phase = "free"

\* A fetch is refused while the key is claimed or latched.
FetchGrid(fs, c, l) ==
    IF c = None /\ l = "none"
    THEN /\ \E f \in Fetches : fs[f].phase = "free"
         /\ claim' = Spare(fs)
         /\ fetch' = [fs EXCEPT ![Spare(fs)] = Asked]
    ELSE claim' = c /\ fetch' = fs

Asks == claim' # None /\ (claim' # claim \/ fetch[claim'].phase = "free")

\* Mutant: a change owes the read in flight nothing.
OwedNothing(fs) == fs

\* A change owes the read in flight a re-ask.
Owed(fs) == IF claim = None THEN fs ELSE [fs EXCEPT ![claim].owed = TRUE]

\* A call that was back before its read was cancelled may still be heard.  The
\* client has one thread, so that is before another call comes back.
Back       == {f \in Fetches : fetch[f].back}
MayBeBack  == claim # None /\ fetch[claim].phase \in {"answered", "failed"} /\ Back = {}

\* The reads once a resync has asked for the key, if it was latched, and then
\* cancelled the read in flight, be it that one.
Cancelled(isBack) ==
    IF claim # None
    THEN [fetch EXCEPT ![claim].cancelled = TRUE, ![claim].back = isBack]
    ELSE IF latch # "none"
    THEN [fetch EXCEPT ![Spare(fetch)] = [Asked EXCEPT !.cancelled = TRUE]]
    ELSE fetch

\* Mutant: a late release frees whatever claim it finds.
ReleasedAny(f) == None

\* The claim f leaves behind: its own goes, a successor's stays.
Released(f) == IF claim = f THEN None ELSE claim

\* What a read that has ended says: nothing when the cancel ended it.
Outcome(r) ==
    IF r.cancelled /\ ~r.back THEN "abandoned"
    ELSE IF r.phase = "failed" THEN "unreachable"
    ELSE IF r.listing \in gone THEN "refused"
    ELSE "answered"

Settled(o) ==
    CASE o = "abandoned" -> latch
      [] o = "answered"  -> "none"
      [] OTHER           -> o

----------------------------------------------------------------------------
(***************************************************************************)
(* The client asks.                                                        *)
(***************************************************************************)

\* A draw that misses the grid asks for it.
Draw ==
    /\ ~cache.held /\ claim = None /\ latch = "none"
    /\ FetchGrid(fetch, claim, latch)
    /\ astray' = FALSE
    /\ UNCHANGED <<node, stream, open, latch, cache, told, verdict, faults>>

\* Arriving somewhere clears every latch and asks only on a miss.
Arrive ==
    /\ latch # "none"
    /\ latch' = "none"
    /\ IF cache.held THEN UNCHANGED <<claim, fetch>> ELSE FetchGrid(fetch, claim, "none")
    /\ astray' = (~Asks /\ (astray \/ (cache.held /\ claim = None)))
    /\ UNCHANGED <<node, stream, open, cache, told, verdict, faults>>

\* Mutant: the tick clears the latch and leaves the asking to the draw.
BackstopDraws ==
    /\ latch = "unreachable"
    /\ latch' = "none"
    /\ UNCHANGED <<node, stream, open, claim, fetch, cache, told, verdict, astray, faults>>

\* The tick asks once more for what was unreachable.
Backstop ==
    /\ latch = "unreachable"
    /\ latch' = "none"
    /\ FetchGrid(fetch, claim, "none")
    /\ astray' = (~Asks /\ astray)
    /\ UNCHANGED <<node, stream, open, cache, told, verdict, faults>>

\* The resync of a source: its latches go and are asked for, every read in
\* flight is cancelled, those just asked too, and every grid named by a latch, a
\* cancelled read or the cache is asked again.
Resync ==
    /\ latch' = "none"
    /\ latch # "none" => \E f \in Fetches : fetch[f].phase = "free"
    /\ \E isBack \in BOOLEAN :
        /\ isBack => MayBeBack
        /\ IF cache.held \/ claim # None \/ latch # "none"
           THEN FetchGrid(Cancelled(isBack), None, "none")
           ELSE UNCHANGED <<claim, fetch>>
    /\ astray' = (~Asks /\ astray)

----------------------------------------------------------------------------
(***************************************************************************)
(* The stream.                                                             *)
(***************************************************************************)

\* A changed listing is asked for whether or not the cache holds it.
DeliverGridChanged ==
    /\ stream # <<>> /\ Head(stream).kind = "GridChanged"
    /\ stream' = Tail(stream)
    /\ told' = [told EXCEPT !.listing = Head(stream).version]
    /\ latch' = "none"
    /\ FetchGrid(Owed(fetch), claim, "none")
    /\ astray' = (~Asks /\ astray)
    /\ UNCHANGED <<node, open, cache, verdict, faults>>

\* A changed row is folded into the grid that holds it, and asks for nothing.
DeliverTileChanged ==
    /\ stream # <<>> /\ Head(stream).kind = "TileChanged"
    /\ stream' = Tail(stream)
    /\ told' = [told EXCEPT !.row = Head(stream).version]
    /\ cache' = IF cache.held /\ Head(stream).version >= cache.row
                THEN [cache EXCEPT !.row = Head(stream).version]
                ELSE cache
    /\ latch' = "none"
    /\ fetch' = Owed(fetch)
    /\ astray' = (astray \/ (latch # "none" /\ cache.held /\ claim = None))
    /\ UNCHANGED <<node, open, claim, verdict, faults>>

Break ==
    /\ open /\ faults < MaxFaults
    /\ open' = FALSE
    /\ stream' = <<>>
    /\ faults' = faults + 1
    /\ UNCHANGED <<node, claim, fetch, latch, cache, told, verdict, astray>>

\* The stream opens again after a gap.
Reopen ==
    /\ ~open
    /\ open' = TRUE
    /\ told' = [listing |-> listing, row |-> row]
    /\ Resync
    /\ UNCHANGED <<node, stream, cache, verdict, faults>>

\* A source's health has moved and held.
HealthSettles ==
    /\ open /\ faults < MaxFaults
    /\ faults' = faults + 1
    /\ Resync
    /\ UNCHANGED <<node, stream, open, cache, told, verdict>>

----------------------------------------------------------------------------
(***************************************************************************)
(* A read.                                                                 *)
(***************************************************************************)

Answer(f) ==
    /\ fetch[f].phase = "asked" /\ ~fetch[f].cancelled
    /\ fetch' = [fetch EXCEPT ![f].phase = "answered", ![f].listing = listing, ![f].row = row]
    /\ UNCHANGED <<node, stream, open, claim, latch, cache, told, verdict, astray, faults>>

\* The call fails, or its deadline passes.
Unheard(f) ==
    /\ fetch[f].phase \in {"asked", "answered"} /\ ~fetch[f].cancelled
    /\ faults < MaxFaults
    /\ faults' = faults + 1
    /\ fetch' = [fetch EXCEPT ![f].phase = "failed"]
    /\ UNCHANGED <<node, stream, open, claim, latch, cache, told, verdict, astray>>

\* The fetch returns: its outcome settles the latch, an answer is stored, the
\* claim is released, and a read owed is asked again.
Land(f) ==
    LET r == fetch[f]
        o == Outcome(r)
        freed == [fetch EXCEPT ![f] = Free]
    IN
    /\ r.phase \in {"answered", "failed"} \/ r.cancelled
    /\ o # "abandoned" => Back \subseteq {f}
    /\ latch' = Settled(o)
    /\ cache' = IF o = "answered"
                THEN [held |-> TRUE, listing |-> r.listing, row |-> r.row]
                ELSE cache
    /\ verdict' = IF o = "refused" THEN r.listing ELSE verdict
    /\ IF r.owed
       THEN FetchGrid(freed, Released(f), latch')
       ELSE claim' = Released(f) /\ fetch' = freed
    /\ astray' = (~(r.owed /\ claim' # None) /\ (astray \/ (o = "refused" /\ r.owed)))
    /\ UNCHANGED <<node, stream, open, told, faults>>

----------------------------------------------------------------------------
Next ==
    \/ \E isGone \in BOOLEAN : NodeRelists(isGone)
    \/ NodeMovesRow
    \/ Draw
    \/ Arrive
    \/ Backstop
    \/ DeliverGridChanged
    \/ DeliverTileChanged
    \/ Break
    \/ Reopen
    \/ HealthSettles
    \/ \E f \in Fetches : Answer(f)
    \/ \E f \in Fetches : Unheard(f)
    \/ \E f \in Fetches : Land(f)

Spec == Init /\ [][Next]_vars

(***************************************************************************)
(* Fairness.  The retry loop re-opens the stream, delivered events are     *)
(* handled, the node answers, a fetch that has ended returns, every        *)
(* landing draws, and the tick ticks.  Nothing has to change or to fail,   *)
(* and nobody has to navigate.                                             *)
(***************************************************************************)
Fairness ==
    /\ WF_vars(Draw) /\ WF_vars(Backstop)
    /\ WF_vars(DeliverGridChanged) /\ WF_vars(DeliverTileChanged)
    /\ WF_vars(Reopen)
    /\ \A f \in Fetches : WF_vars(Answer(f)) /\ WF_vars(Land(f))

FairSpec == Spec /\ Fairness

----------------------------------------------------------------------------
(* Type correctness of every variable. *)
TypeOK ==
    /\ listing \in Listing /\ row \in Row
    /\ gone \subseteq 1..listing
    /\ stream \in Seq(Event)
    /\ open \in BOOLEAN
    /\ claim \in Fetches \cup {None}
    /\ fetch \in [Fetches -> Fetch]
    /\ latch \in {"none", "refused", "unreachable"}
    /\ cache \in Grid
    /\ told \in [listing : 0..MaxListing, row : 0..MaxRow]
    /\ verdict \in 0..MaxListing
    /\ astray \in BOOLEAN
    /\ faults \in 0..MaxFaults

(***************************************************************************)
(* The key has at most one read the client waits for, and it holds the     *)
(* claim: a cancelled read that returns late must not free its successor,  *)
(* or a third is asked beside it and the answers can land in either order. *)
(***************************************************************************)
OneRead == \A f \in Fetches : fetch[f].phase # "free" /\ ~fetch[f].cancelled <=> f = claim

(* A listing once shown is never replaced by an older one. *)
ListingAdvances == [][cache'.listing >= cache.listing]_vars

(***************************************************************************)
(* What the cache holds may be served, but is labelled: with nothing in    *)
(* flight an unlatched grid is as new as every change the client was told  *)
(* of.  The code keeps this until a latch is cleared on a held grid nobody *)
(* asks for again; see the README's findings.                              *)
(***************************************************************************)
Current(c) == c.listing >= told.listing /\ c.row >= told.row
StaleIsLabelled == cache.held /\ claim = None /\ latch = "none" => astray \/ Current(cache)

(***************************************************************************)
(* A refusal that stands was given at or after every change the client has *)
(* been told of: "the answer in flight was taken before the change, so it  *)
(* is not the answer" (client/inflight).                                   *)
(***************************************************************************)
RefusalIsCurrent == latch = "refused" /\ claim = None => verdict >= told.listing

(***************************************************************************)
(* Once the node rests and nothing more fails, the client comes to show    *)
(* the node's listing and row for good.  Where the node refuses the key,   *)
(* it comes back to showing the refusal the node gives now however often   *)
(* the user arrives and has it asked again.  Neither is promised of a key  *)
(* left astray.                                                            *)
(***************************************************************************)
ShowsListing == listing \notin gone => cache = [held |-> TRUE, listing |-> listing, row |-> row]
ShowsRefusal == listing \in gone => latch = "refused" /\ verdict = listing
Converges == <>[](ShowsListing \/ astray) /\ []<>(ShowsRefusal \/ astray)
=============================================================================
