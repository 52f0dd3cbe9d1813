------------------------------- MODULE Watch -------------------------------
(***************************************************************************)
(* A plugin whose listings change on their own, and the host that tells    *)
(* the clients (internal/pluginhost/watch.go).                             *)
(*                                                                         *)
(* The host follows a Watch stream over the grids some client shows and    *)
(* lists again whatever the stream names.  It announces a grid only when   *)
(* the listing is not the one clients were served, so it keeps, per grid,  *)
(* what they may hold (settle).  A change made while no stream covers its  *)
(* grid is caught by listing each grid an open adds.                       *)
(***************************************************************************)
EXTENDS FiniteSets, Integers

CONSTANTS
    Viewers, Grids,
    Listings,     \* what the plugin may list, one of them unreachable
    Dark,         \* the answer made up for a listing that could not be had
    Unread,
    NoGrid,       \* no grid
    MaxChanges,   \* bound on the changes the source makes
    MaxViews,     \* bound on the changes of what is shown
    MaxReads,     \* bound on the clients' reads
    MaxFaults,    \* bound on broken streams and failed listings
    MaxEvents     \* bound on the changes, the views and the faults together

ASSUME WatchAssumption ==
    /\ Viewers \cap Grids = {}
    /\ Dark \notin Listings /\ NoGrid \notin Grids /\ Unread \notin Listings \cup {Dark}
    /\ MaxChanges \in Nat /\ MaxViews \in Nat /\ MaxReads \in Nat /\ MaxFaults \in Nat
    /\ MaxEvents \in Nat

VARIABLES
    list,     \* the source's listing of each grid
    shown,    \* the grids the node's clients show, as the host was told
    loop,     \* followScope: where it is, the scope it took, the grids it adds
    watched,  \* the grids the last open covered
    cur,      \* the stream followed, and the one being opened: the grids it
    next,     \* covers and the changes it carries
    jobs,     \* the listings under way, by client and by checked grid
    moved,    \* the grids the check under way found moved
    served,   \* what clients may hold of each grid
    sourceDark, \* the source's last listing could not be had
    writing,  \* a grid a write through the host has moved, not yet announced
    holds,    \* what each client was last served of each grid
    cued,     \* the grids each client has been told to read again
    changes, views, reads, faults,
    missed    \* history: grids whose change no stream will tell

watchVars == <<list, shown, loop, watched, cur, next, jobs, moved, served, sourceDark,
          writing, holds, cued, changes, views, reads, faults, missed>>

Sums    == Listings \cup {Dark}
Workers == Viewers \cup Grids

NoStream == [covers |-> {}, open |-> FALSE, told |-> {}]
Stream   == [covers : SUBSET Grids, open : BOOLEAN, told : SUBSET Grids]
NoJob    == [at |-> "idle", of |-> NoGrid, sum |-> Unread, raced |-> FALSE]
Job      == [at : {"idle", "asked", "listed"}, of : Grids \cup {NoGrid},
             sum : Sums \cup {Unread}, raced : BOOLEAN]

WatchInit ==
    /\ list \in [Grids -> Listings]
    /\ shown = {}
    /\ loop = [at |-> "idle", scope |-> {}, added |-> {}]
    /\ watched = {} /\ cur = NoStream /\ next = NoStream
    /\ jobs = [w \in Workers |-> NoJob]
    /\ moved = {}
    /\ served = [g \in Grids |-> [sums |-> {}, last |-> Unread]]
    /\ sourceDark = FALSE /\ writing = NoGrid
    /\ holds = [c \in Viewers |-> [g \in Grids |-> Unread]]
    /\ cued = [c \in Viewers |-> {}]
    /\ changes = 0 /\ views = 0 /\ reads = 0 /\ faults = 0 /\ missed = {}

Left == changes + views + faults < MaxEvents

----------------------------------------------------------------------------
(***************************************************************************)
(* The source and its streams.                                             *)
(***************************************************************************)

Tell(s, g) == IF s.open /\ g \in s.covers THEN [s EXCEPT !.told = @ \cup {g}] ELSE s

Untold(g) == ~(cur.open /\ g \in cur.covers) /\ ~(next.open /\ g \in next.covers)

Relist(g) ==
    /\ changes < MaxChanges /\ Left
    /\ changes' = changes + 1
    /\ \E l \in Listings \ {list[g]} : list' = [list EXCEPT ![g] = l]
    /\ cur' = Tell(cur, g) /\ next' = Tell(next, g)
    /\ missed' = IF Untold(g) /\ g \in watched THEN missed \cup {g} ELSE missed

SourceChanges(g) ==
    /\ Relist(g)
    /\ UNCHANGED <<shown, loop, watched, jobs, moved, served, sourceDark, writing,
                   holds, cued, views, reads, faults>>

\* A write through the host moves the listing, which is announced after.
Writes(g) ==
    /\ writing = NoGrid
    /\ Relist(g)
    /\ writing' = g
    /\ UNCHANGED <<shown, loop, watched, jobs, moved, served, sourceDark, holds, cued,
                   views, reads, faults>>

Cue(gs) == cued' = [c \in Viewers |-> cued[c] \cup gs]

\* What clients held is forgotten with the announcement.
WriteAnnounces ==
    /\ writing # NoGrid
    /\ served' = [served EXCEPT ![writing].sums = {}]
    /\ Cue({writing})
    /\ writing' = NoGrid
    /\ UNCHANGED <<list, shown, loop, watched, cur, next, jobs, moved, sourceDark,
                   holds, changes, views, reads, faults, missed>>

SetView(gs) ==
    /\ views < MaxViews /\ Left /\ gs # shown
    /\ views' = views + 1
    /\ shown' = gs
    /\ UNCHANGED <<list, loop, watched, cur, next, jobs, moved, served, sourceDark,
                   writing, holds, cued, changes, reads, faults, missed>>

----------------------------------------------------------------------------
(***************************************************************************)
(* settle: one listing noted, and whether its grid must be announced.      *)
(***************************************************************************)

\* Mutant: a read is compared with nothing.
RacedNever(j) == FALSE

Raced(j) == j.raced /\ served[j.of].last # j.sum

Differs(j) == served[j.of].sums # {} /\ served[j.of].sums # {j.sum}

\* A dark check of a grid nobody read is not even noted.
Unnoted(j, check) == check /\ j.sum = Dark /\ served[j.of].sums = {}

Moved(j, check) == ~Unnoted(j, check) /\ (Raced(j) \/ (check /\ Differs(j)))

Note(j, check) ==
    IF Unnoted(j, check) THEN served
    ELSE [served EXCEPT ![j.of] =
            [sums |-> IF Moved(j, check) THEN {j.sum} ELSE @.sums \cup {j.sum}, last |-> j.sum]]

\* Every listing of the grid under way has been raced by a note.
Races(w, check) ==
    jobs' = [v \in Workers |->
                IF v = w THEN NoJob
                ELSE IF jobs[v].of = jobs[w].of /\ ~Unnoted(jobs[w], check)
                     THEN [jobs[v] EXCEPT !.raced = TRUE] ELSE jobs[v]]

Settle(w, check) == served' = Note(jobs[w], check) /\ Races(w, check)

Start(w, g) == [NoJob EXCEPT !.at = "asked", !.of = g]

\* Mutant: a source that answers again is announced to nobody.
ReturnsUnsaid == UNCHANGED cued

\* A source that answers again has every grid of it read again.
Returns == IF sourceDark THEN Cue(Grids) ELSE UNCHANGED cued

\* The plugin answers, or does not: then the node's own rows are served, and
\* the clients told which.
Answers(w) ==
    /\ jobs[w].at = "asked"
    /\ \/ /\ jobs' = [jobs EXCEPT ![w].at = "listed", ![w].sum = list[jobs[w].of]]
          /\ sourceDark' = FALSE
          /\ Returns
          /\ UNCHANGED faults
       \/ /\ faults < MaxFaults /\ Left /\ faults' = faults + 1
          /\ jobs' = [jobs EXCEPT ![w].at = "listed", ![w].sum = Dark]
          /\ sourceDark' = TRUE
          /\ UNCHANGED cued
    /\ UNCHANGED <<list, shown, loop, watched, cur, next, moved, served, writing,
                   holds, changes, views, reads, missed>>

----------------------------------------------------------------------------
(***************************************************************************)
(* A client reads a grid, because it shows it or because it was told to.   *)
(***************************************************************************)

Reads(c, g) ==
    /\ jobs[c].at = "idle" /\ reads < MaxReads /\ (g \in cued[c] \/ holds[c][g] = Unread)
    /\ jobs' = [jobs EXCEPT ![c] = Start(c, g)]
    /\ cued' = [cued EXCEPT ![c] = @ \ {g}]
    /\ reads' = reads + 1
    /\ UNCHANGED <<list, shown, loop, watched, cur, next, moved, served, sourceDark,
                   writing, holds, changes, views, faults, missed>>

ReadSettles(c) ==
    /\ jobs[c].at = "listed"
    /\ Settle(c, FALSE)
    /\ holds' = [holds EXCEPT ![c][jobs[c].of] = jobs[c].sum]
    /\ IF Moved(jobs[c], FALSE) THEN Cue({jobs[c].of}) ELSE UNCHANGED cued
    /\ UNCHANGED <<list, shown, loop, watched, cur, next, moved, sourceDark, writing,
                   changes, views, reads, faults, missed>>

----------------------------------------------------------------------------
(***************************************************************************)
(* followScope: the scope taken, opened, checked and followed.             *)
(***************************************************************************)

Applying == loop.at # "checking" /\ \E g \in Grids : jobs[g].at # "idle"

\* The scope has moved, or there is none.  A stream being opened is given up
\* with what it was told, which the old one, if it has ended, was not.
TakesScope ==
    /\ loop.at \in {"idle", "opening", "following"} /\ shown # loop.scope
    /\ shown # {} \/ ~Applying
    /\ IF shown = {}
       THEN /\ loop' = [at |-> "idle", scope |-> {}, added |-> {}]
            /\ cur' = NoStream /\ next' = NoStream /\ watched' = {} /\ missed' = {}
       ELSE /\ loop' = [at |-> "opening", scope |-> shown, added |-> {}]
            /\ next' = [NoStream EXCEPT !.covers = shown]
            /\ missed' = IF cur.open THEN missed ELSE missed \cup next.told
            /\ UNCHANGED <<cur, watched>>
    /\ UNCHANGED <<list, shown, jobs, moved, served, sourceDark, writing, holds, cued,
                   changes, views, reads, faults>>

Opens ==
    /\ loop.at = "opening" /\ ~next.open
    /\ next' = [next EXCEPT !.open = TRUE]
    /\ UNCHANGED <<list, shown, loop, watched, cur, jobs, moved, served, sourceDark,
                   writing, holds, cued, changes, views, reads, faults, missed>>

Added == loop.scope \ watched

\* The old stream is stopped, once the change it is applying is applied, and
\* what it had not yet read, and the new one was not told, goes with it.
Swap ==
    /\ loop.at = "opening" /\ next.open /\ ~Applying
    /\ cur' = next /\ next' = NoStream
    /\ loop' = [loop EXCEPT !.at = "checking", !.added = Added]
    /\ jobs' = [w \in Workers |-> IF w \in Added THEN Start(w, w) ELSE jobs[w]]
    /\ moved' = {}
    /\ missed' = (missed \cup (cur.told \ next.told)) \ Added
    /\ UNCHANGED <<list, shown, watched, served, sourceDark, writing, holds, cued,
                   changes, views, reads, faults>>

\* What a check found moved is announced: at once for a change of the stream,
\* together with the rest for an open.
Found(g) ==
    IF loop.at = "checking" THEN moved' = moved \cup {g} /\ UNCHANGED cued
    ELSE Cue({g}) /\ UNCHANGED moved

\* A grid the source refuses to list has moved.
CheckSettles(g) ==
    /\ \/ /\ jobs[g].at = "listed" /\ Settle(g, TRUE)
          /\ IF Moved(jobs[g], TRUE) THEN Found(g) ELSE UNCHANGED <<moved, cued>>
          /\ UNCHANGED faults
       \/ /\ jobs[g].at = "asked" /\ faults < MaxFaults /\ Left /\ faults' = faults + 1
          /\ jobs' = [jobs EXCEPT ![g] = NoJob]
          /\ Found(g)
          /\ UNCHANGED served
    /\ missed' = missed \ {g}
    /\ UNCHANGED <<list, shown, loop, watched, cur, next, sourceDark, writing, holds,
                   changes, views, reads>>

\* The grids found moved are announced together, and the stream is read on.
CheckEnds ==
    /\ loop.at = "checking" /\ \A g \in Grids : jobs[g].at = "idle"
    /\ Cue(moved) /\ moved' = {}
    /\ watched' = loop.scope
    /\ loop' = [loop EXCEPT !.at = "following", !.added = {}]
    /\ UNCHANGED <<list, shown, cur, next, jobs, served, sourceDark, writing, holds,
                   changes, views, reads, faults, missed>>

\* The stream's next change is taken: its grid is checked.
Takes(g) ==
    /\ loop.at \in {"opening", "following"} /\ g \in cur.told
    /\ ~Applying
    /\ cur' = [cur EXCEPT !.told = @ \ {g}]
    /\ jobs' = [jobs EXCEPT ![g] = Start(g, g)]
    /\ UNCHANGED <<list, shown, loop, watched, next, moved, served, sourceDark, writing,
                   holds, cued, changes, views, reads, faults, missed>>

\* The stream followed breaks.  While another is being opened nobody looks.
StreamBreaks ==
    /\ cur.open /\ ~Applying /\ faults < MaxFaults /\ Left
    /\ loop.at \in {"opening", "following"}
    /\ faults' = faults + 1
    /\ cur' = NoStream
    /\ IF loop.at = "following"
       THEN /\ loop' = [at |-> "idle", scope |-> {}, added |-> {}]
            /\ watched' = {} /\ missed' = {}
       ELSE /\ missed' = missed \cup (cur.told \ next.told)
            /\ UNCHANGED <<loop, watched>>
    /\ UNCHANGED <<list, shown, next, jobs, moved, served, sourceDark, writing, holds,
                   cued, changes, views, reads>>

\* The stream being opened fails, and with it the attempt.
OpenFails ==
    /\ loop.at = "opening" /\ ~Applying /\ faults < MaxFaults /\ Left
    /\ faults' = faults + 1
    /\ cur' = NoStream /\ next' = NoStream
    /\ loop' = [at |-> "idle", scope |-> {}, added |-> {}]
    /\ watched' = {} /\ missed' = {}
    /\ UNCHANGED <<list, shown, jobs, moved, served, sourceDark, writing, holds, cued,
                   changes, views, reads>>

----------------------------------------------------------------------------
WatchNext ==
    \/ \E g \in Grids : SourceChanges(g)
    \/ \E g \in Grids : Writes(g)
    \/ WriteAnnounces
    \/ \E gs \in SUBSET Grids : SetView(gs)
    \/ \E w \in Workers : Answers(w)
    \/ \E c \in Viewers, g \in Grids : Reads(c, g)
    \/ \E c \in Viewers : ReadSettles(c)
    \/ TakesScope
    \/ Opens
    \/ Swap
    \/ \E g \in Grids : CheckSettles(g)
    \/ CheckEnds
    \/ \E g \in Grids : Takes(g)
    \/ StreamBreaks
    \/ OpenFails

WatchSpec == WatchInit /\ [][WatchNext]_watchVars

----------------------------------------------------------------------------
(* Type correctness of every variable: a stream is being opened, and moved
   grids are collected, only in the step of followScope that does it. *)
WatchTypeOK ==
    /\ list \in [Grids -> Listings] /\ shown \subseteq Grids
    /\ loop \in [at : {"idle", "opening", "checking", "following"},
                 scope : SUBSET Grids, added : SUBSET Grids]
    /\ watched \subseteq Grids /\ cur \in Stream /\ next \in Stream
    /\ jobs \in [Workers -> Job] /\ moved \subseteq Grids
    /\ served \in [Grids -> [sums : SUBSET Sums, last : Sums \cup {Unread}]]
    /\ sourceDark \in BOOLEAN /\ writing \in Grids \cup {NoGrid}
    /\ holds \in [Viewers -> [Grids -> Sums \cup {Unread}]]
    /\ cued \in [Viewers -> SUBSET Grids]
    /\ changes \in 0..MaxChanges /\ views \in 0..MaxViews /\ reads \in 0..MaxReads /\ faults \in 0..MaxFaults
    /\ missed \subseteq Grids
    /\ loop.at # "checking" => moved = {}
    /\ loop.at # "opening" => next = NoStream

\* Nothing more is listed, announced, opened or told.
Rest ==
    /\ loop.scope = shown /\ loop.at \in {"idle", "following"}
    /\ cur.told = {} /\ moved = {} /\ writing = NoGrid
    /\ \A w \in Workers : jobs[w].at = "idle"

Current(c, g) == holds[c][g] \in {Unread, list[g]} \/ g \in cued[c]

(***************************************************************************)
(* "Each grid the open adds is then checked, since a change between the    *)
(* client's listing and the open is otherwise announced by nothing"        *)
(* (followScope): at rest every client showing a grid has what the source  *)
(* lists, or has been told to read it again, whatever order its read, the  *)
(* check and the changes came in; but for a change no stream told.         *)
(***************************************************************************)
ShownIsCurrent ==
    Rest /\ ~sourceDark => \A c \in Viewers, g \in shown \ missed :
                holds[c][g] # Dark => Current(c, g)

(***************************************************************************)
(* "The zero sum is a dark listing: noted when read, so the grid is        *)
(* announced when it lists again" (sumOf): a client left with the rows     *)
(* made up for an outage hears of its end.                                 *)
(***************************************************************************)
DarkEnds ==
    \A c \in Viewers, g \in Grids :
        holds[c][g] = Dark /\ ~sourceDark /\ jobs[c].of # g => g \in cued[c]

(***************************************************************************)
(* What clients may hold is kept: a client not told to read a grid again   *)
(* holds a listing that a later check will compare with.                   *)
(***************************************************************************)
HeldIsServed ==
    \A c \in Viewers, g \in Grids :
        holds[c][g] # Unread /\ g \notin cued[c] \cup moved /\ g # writing
            => holds[c][g] \in served[g].sums \/ jobs[c].of = g

(***************************************************************************)
(* "A stream replaces the one before only once it is open, so a grid in    *)
(* both scopes is watched throughout" (followScope): a change of scope     *)
(* loses no change.                                                        *)
(***************************************************************************)
ScopeChangeLosesNoChange ==
    Rest /\ ~sourceDark => \A c \in Viewers, g \in shown :
                holds[c][g] # Dark => Current(c, g)
=============================================================================
