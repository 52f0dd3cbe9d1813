------------------------------- MODULE Store -------------------------------
(***************************************************************************)
(* The node's own grids and tiles (internal/local/store).                  *)
(*                                                                         *)
(* Every write is one SQLite transaction on the store's only connection,   *)
(* so an action here is a whole write; it is refused, and then changes     *)
(* nothing, where its guard fails.  A door owns the grid behind it; a text *)
(* or a frozen preview is a blob shared by content and counted; a deleted  *)
(* tile goes to the trash and only there, or on the scratch grid, does it  *)
(* go for good; a grid's selection names tiles on it.  After a write the   *)
(* store tells what changed, and clients keep the grids they hold by that  *)
(* alone.                                                                  *)
(*                                                                         *)
(* The claim a move, a delete or a content write carries is left out here: *)
(* an action is a write whose claim holds, and versions are not kept.      *)
(***************************************************************************)
EXTENDS Integers, FiniteSets

CONSTANTS
    TileIds, GridIds,      \* 1 .. n: row ids are handed out in order, never again
    Root, Scratch, Trash,  \* the three grids no door owns
    Blobs, NoBlob,         \* what a text or a preview may hold, and nothing
    Month, Plain,          \* a door's name: this month's, or another
    DoorNames, Made,       \* the names users give doors, the kinds they place
    UserCells,             \* the cells users put tiles in
    Picked,                \* the tiles users select
    LastMade, LastCopied,  \* bounds: the last ids users' new tiles and copies get,
    LastChosen             \* and the last next id under which a selection changes

Kinds == {"door", "farDoor", "text", "shell"}

ASSUME StoreAssumption ==
    /\ TileIds \subseteq Nat /\ 0 \notin TileIds /\ GridIds \subseteq Nat /\ 0 \notin GridIds
    /\ IsFiniteSet(TileIds) /\ IsFiniteSet(GridIds)
    /\ {Root, Scratch, Trash} \subseteq GridIds \cap 1..3  \* made before any other
    /\ Root # Scratch /\ Root # Trash /\ Scratch # Trash
    /\ NoBlob \notin Blobs /\ Month # Plain /\ DoorNames \subseteq {Month, Plain}
    /\ UserCells \subseteq Nat /\ Picked \subseteq TileIds /\ Made \subseteq Kinds
    /\ LastMade \in Nat /\ LastCopied \in Nat /\ LastChosen \in Nat

VARIABLES
    tiles,  \* the row of each tile id, NoRow for one not handed out or gone
    grids,  \* the grid rows
    sel,    \* each grid's selection
    refs,   \* each blob's reference count, 0 for one that is not there
    nextTile, nextGrid,  \* the ids the next rows get
    untold  \* what clients hold otherwise than it is, having heard every event

vars == <<tiles, grids, sel, refs, nextTile, nextGrid, untold>>

Roots   == {Root, Scratch, Trash}
Nowhere == 0
NoRow   == [grid |-> Nowhere, cell |-> 0, kind |-> "text", child |-> Nowhere,
            blob |-> NoBlob, name |-> Plain]
Rows    == [grid : GridIds \cup {Nowhere}, cell : Nat, kind : Kinds,
            child : GridIds \cup {Nowhere}, blob : Blobs \cup {NoBlob},
            name : {Month, Plain}]

Live     == {t \in TileIds : tiles[t].grid # Nowhere}
On(g)    == {t \in Live : tiles[t].grid = g}
Doors    == {t \in Live : tiles[t].kind = "door"}
Naming(b)  == {t \in Live : tiles[t].blob = b}

Init ==
    /\ tiles = [t \in TileIds |-> NoRow]
    /\ grids = Roots
    /\ sel = [g \in GridIds |-> {}]
    /\ refs = [b \in Blobs |-> 0]
    /\ nextTile = 1
    /\ nextGrid = 4
    /\ untold = {}

-----------------------------------------------------------------------------
(* The tree of grids.                                                      *)

\* A grid and everything owned through its doors: the least set the doors on
\* its grids do not lead out of.  No door leads to a root.
Under(top) ==
    LET doors == Doors
        owns  == {S \in SUBSET (grids \ Roots) :
                    \A d \in doors : tiles[d].grid \in S \cup {top} => tiles[d].child \in S}
    IN  {g \in grids : \A S \in owns : g \in S \cup {top}}

\* The door-parent walk asks this from g up, which is the same, a grid having
\* one door; it stops at ancestryCap, more doors than there are grids here.
InSubtree(g, top) == g \in Under(top)

Owned(t) == IF tiles[t].kind = "door" THEN Under(tiles[t].child) ELSE {}

\* ORDER BY id: the place of x among S, from 0.  Which new id each copy gets
\* matters to nothing but the names of the states.
Rank(x, S) == Cardinality({y \in S : y < x})

-----------------------------------------------------------------------------
(* What a write changes and what it tells.  A thing clients hold is a tile *)
(* of a grid, or the grid's selection.                                     *)

Chosen == 0
Thing(g, t) == <<g, t>>

\* What the step changes of the grids that were there and still are.
Changes ==
    LET moved == {t \in TileIds : tiles'[t] # tiles[t]}
    IN  {Thing(tiles[t].grid, t)  : t \in {u \in moved : tiles[u].grid \in grids'}} \cup
        {Thing(tiles'[t].grid, t) : t \in {u \in moved : tiles'[u].grid \in grids}} \cup
        {Thing(g, Chosen) : g \in {h \in grids : sel'[h] # sel[h]}}

\* An event says what its thing is now, so it makes up for an earlier one too.
Tell(things) ==
    untold' = {u \in (untold \cup Changes) \ things : u[1] \in grids'}

LeftUnsaid(g, t) == {Thing(g, t)}

\* tileLeft: the tile's removal, and the selection it was in.
Left(g, t) == {Thing(g, t)} \cup (IF t \in sel[g] THEN {Thing(g, Chosen)} ELSE {})

LeaveSelectionKept(s, g, t) == s


LeaveSelection(s, g, t) == [s EXCEPT ![g] = @ \ {t}]

-----------------------------------------------------------------------------
(* Creating.                                                               *)

Free(g, c) == \A t \in On(g) : tiles[t].cell # c

Row(g, c, kind, child, blob, name) ==
    [grid |-> g, cell |-> c, kind |-> kind, child |-> child, blob |-> blob,
     name |-> name]

Insert(row) ==
    /\ nextTile \in TileIds /\ nextTile <= LastMade
    /\ tiles' = [tiles EXCEPT ![nextTile] = row]
    /\ nextTile' = nextTile + 1
    /\ UNCHANGED sel
    /\ Tell({Thing(row.grid, nextTile)})

MintGrid ==
    /\ nextGrid \in GridIds
    /\ grids' = grids \cup {nextGrid}
    /\ nextGrid' = nextGrid + 1

CreateDoor(g, c, name) ==
    /\ Free(g, c)
    /\ MintGrid
    /\ Insert(Row(g, c, "door", nextGrid, NoBlob, name))
    /\ UNCHANGED refs

\* A text holds its first bytes, a shell has no frame yet, and a door to
\* another namespace or a link owns nothing here.
CreateLeaf(g, c, kind, blob, name) ==
    /\ kind \in Made
    /\ Free(g, c)
    /\ refs' = [b \in Blobs |-> IF b = blob THEN refs[b] + 1 ELSE refs[b]]
    /\ UNCHANGED <<grids, nextGrid>>
    /\ Insert(Row(g, c, kind, Nowhere, blob, name))

\* A visit, never placed: no cell is its own.
CreateScratchShell ==
    /\ UNCHANGED <<grids, refs, nextGrid>>
    /\ Insert(Row(Scratch, 0, "shell", Nowhere, NoBlob, Plain))

-----------------------------------------------------------------------------
(* Writing content.                                                        *)

Update(t, row) ==
    /\ tiles' = [tiles EXCEPT ![t] = row]
    /\ UNCHANGED <<grids, sel, nextTile, nextGrid>>
    /\ Tell({Thing(row.grid, t)})

SwappedKept(old, new) == [b \in Blobs |-> refs[b] + (IF b = new THEN 1 ELSE 0)]

SwappedTwice(old, new) ==
    [b \in Blobs |-> refs[b] + (IF b = new THEN 1 ELSE 0) - (IF b = old THEN 2 ELSE 0)]

\* Repoint a row at the blob of these bytes: the new one is counted before
\* the old one is let go.
Swapped(old, new) ==
    [b \in Blobs |-> refs[b] + (IF b = new THEN 1 ELSE 0) - (IF b = old THEN 1 ELSE 0)]

WriteText(t, b) ==
    /\ tiles[t].kind = "text" /\ tiles[t].blob # b
    /\ refs' = Swapped(tiles[t].blob, b)
    /\ Update(t, [tiles[t] EXCEPT !.blob = b])

\* An empty capture clears the frame.
SetShellPreview(t, b) ==
    /\ tiles[t].kind = "shell" /\ tiles[t].blob # b
    /\ refs' = Swapped(tiles[t].blob, b)
    /\ Update(t, [tiles[t] EXCEPT !.blob = b])

RenameTile(t, name) ==
    /\ tiles[t].kind \in {"door", "farDoor"} /\ tiles[t].name # name
    /\ Update(t, [tiles[t] EXCEPT !.name = name])
    /\ UNCHANGED refs

-----------------------------------------------------------------------------
(* Placing.                                                                *)

IsOwnDoor(t, g) == tiles[t].kind = "door" /\ tiles[t].child = g


WouldContainItself(t, g) == tiles[t].kind = "door" /\ InSubtree(g, tiles[t].child)

Occupied(g, c, t) == \E s \in On(g) \ {t} : tiles[s].cell = c

MoveTile(t, g, c) ==
    LET from == tiles[t].grid
        row  == [tiles[t] EXCEPT !.grid = g, !.cell = c]
    IN  /\ row # tiles[t]
        /\ ~WouldContainItself(t, g)
        /\ ~Occupied(g, c, t)
        /\ tiles' = [tiles EXCEPT ![t] = row]
        /\ UNCHANGED <<grids, refs, nextTile, nextGrid>>
        /\ IF g = from
             THEN UNCHANGED sel /\ Tell({Thing(g, t)})
             ELSE /\ sel' = LeaveSelection(sel, from, t)
                  /\ Tell(Left(from, t) \cup {Thing(g, t)})

CopyRowShared(row, g, c, child) == [row EXCEPT !.grid = g, !.cell = c]

\* The copy of t and of everything it owns, in rows of its own.  The grids
\* beneath are copied before the copy itself is placed, so a door can be
\* copied into its own subtree.
CopyRow(row, g, c, child) ==
    [row EXCEPT !.grid = g, !.cell = c, !.child = child]

CopyTile(t, g, c) ==
    LET under   == Owned(t)
        inner   == {s \in Live : tiles[s].grid \in under}
        top     == nextTile + Cardinality(inner)
        NewGrid(h) == nextGrid + Rank(h, under)
        NewTile(s) == nextTile + Rank(s, inner)
        Child(s)   == IF tiles[s].kind = "door" THEN NewGrid(tiles[s].child) ELSE Nowhere
        copied  == {NewTile(s) : s \in inner}
        minted  == {NewGrid(h) : h \in under}
        topRow  == CopyRow(tiles[t], g, c, Child(t))
        Copied(i) == LET s == CHOOSE s \in inner : NewTile(s) = i
                     IN  CopyRow(tiles[s], NewGrid(tiles[s].grid), tiles[s].cell, Child(s))
        rows    == [i \in TileIds |-> IF i = top THEN topRow
                                      ELSE IF i \in copied THEN Copied(i) ELSE tiles[i]]
    IN  /\ Free(g, c) /\ nextTile <= LastCopied
        /\ copied \cup {top} \subseteq TileIds /\ minted \subseteq GridIds
        /\ tiles' = rows
        /\ grids' = grids \cup minted
        /\ refs' = [b \in Blobs |-> refs[b] +
                      Cardinality({s \in inner : tiles[s].blob = b}) + (IF tiles[t].blob = b THEN 1 ELSE 0)]
        /\ nextTile' = top + 1
        /\ nextGrid' = nextGrid + Cardinality(under)
        /\ UNCHANGED sel
        /\ Tell({Thing(g, top)})

-----------------------------------------------------------------------------
(* Deleting.                                                               *)

BypassesTrashNested(g) == g = Scratch \/ \E h \in grids \ {g} : InSubtree(g, h)


BypassesTrash(g) == g = Scratch \/ InSubtree(g, Trash)

Destroy(t) ==
    LET doomed == Owned(t)
        gone   == {t} \cup {s \in Live : tiles[s].grid \in doomed}
        from   == tiles[t].grid
    IN  /\ tiles' = [s \in TileIds |-> IF s \in gone THEN NoRow ELSE tiles[s]]
        /\ grids' = grids \ doomed
        /\ refs' = [b \in Blobs |-> refs[b] - Cardinality({s \in gone : tiles[s].blob = b})]
        /\ sel' = [g \in GridIds |-> IF g \in doomed THEN {} ELSE LeaveSelection(sel, from, t)[g]]
        /\ UNCHANGED <<nextTile, nextGrid>>
        /\ Tell(Left(from, t))

FreeCellNext(g) == Cardinality(On(g))

\* firstFreeCell
FreeCell(g) == CHOOSE c \in 0 .. Cardinality(On(g)) : Free(g, c) /\ \A d \in 0 .. c - 1 : ~Free(g, d)

\* The trash grid's doors named for the month; the oldest is the one used.
MonthDoors == {d \in On(Trash) : tiles[d].kind \in {"door", "farDoor"} /\ tiles[d].name = Month}
MonthDoor  == CHOOSE d \in MonthDoors : \A e \in MonthDoors : d <= e

Filed(t, rows, month, cell) ==
    LET from == tiles[t].grid
        row  == [tiles[t] EXCEPT !.grid = month, !.cell = cell]
    IN  /\ tiles' = [rows EXCEPT ![t] = row]
        /\ sel' = LeaveSelection(sel, from, t)
        /\ UNCHANGED refs
        /\ Tell(Left(from, t) \cup {Thing(month, t)})

\* Into this month's grid, whose door is there already.  A door of that name
\* to another namespace has no grid here, and the delete fails.
MoveToTrash(t) ==
    /\ MonthDoors # {} /\ tiles[MonthDoor].kind = "door"
    /\ UNCHANGED <<grids, nextTile, nextGrid>>
    /\ LET month == tiles[MonthDoor].child
       IN  Filed(t, tiles, month, FreeCell(month))

\* The month's first delete makes its door, which no event tells.
MoveToNewMonth(t) ==
    /\ MonthDoors = {} /\ nextTile \in TileIds
    /\ MintGrid
    /\ nextTile' = nextTile + 1
    /\ Filed(t, [tiles EXCEPT ![nextTile] = Row(Trash, FreeCell(Trash), "door", nextGrid, NoBlob, Month)],
             nextGrid, 0)

-----------------------------------------------------------------------------
(* The selection.                                                          *)

Select(set) ==
    /\ set # sel
    /\ sel' = set
    /\ UNCHANGED <<tiles, grids, refs, nextTile, nextGrid>>
    /\ Tell({Thing(g, Chosen) : g \in {h \in grids : set[h] # sel[h]}})

\* A clear, then what is added, but for what is not on the grid, then what is
\* taken out.
SetSelection(g, clear, recurse, add, remove) ==
    /\ Select([h \in GridIds |->
         IF h = g THEN ((IF clear THEN {} ELSE sel[g]) \cup (add \cap On(g))) \ remove
         ELSE IF recurse /\ h \in grids /\ InSubtree(h, g) THEN {} ELSE sel[h]])

ClearAll == Select([h \in GridIds |-> {}])

-----------------------------------------------------------------------------
\* The scratch grid is never drawn, so nobody places a tile there.
Shown == grids \ {Scratch}

Create ==
    \/ \E g \in Shown, c \in UserCells :
         \/ \E name \in DoorNames : CreateDoor(g, c, name) \/ CreateLeaf(g, c, "farDoor", NoBlob, name)
         \/ \E b \in Blobs : CreateLeaf(g, c, "text", b, Plain)
         \/ CreateLeaf(g, c, "shell", NoBlob, Plain)
    \/ CreateScratchShell

Write(t) ==
    \/ \E b \in Blobs : WriteText(t, b)
    \/ \E b \in Blobs \cup {NoBlob} : SetShellPreview(t, b)
    \/ \E name \in DoorNames : RenameTile(t, name)

Place(t) == \E g \in Shown, c \in UserCells : MoveTile(t, g, c) \/ CopyTile(t, g, c)

Delete(t) ==
    IF BypassesTrash(tiles[t].grid) THEN Destroy(t) ELSE MoveToTrash(t) \/ MoveToNewMonth(t)

SelectAny ==
    /\ nextTile <= LastChosen
    /\ \/ \E g \in Shown :
            \/ \E t \in Picked : SetSelection(g, FALSE, FALSE, {t}, {}) \/ SetSelection(g, FALSE, FALSE, {}, {t})
            \/ \E recurse \in BOOLEAN : SetSelection(g, TRUE, recurse, {}, {})
       \/ ClearAll

Next == Create \/ (\E t \in Live : Write(t) \/ Place(t) \/ Delete(t)) \/ SelectAny

Spec == Init /\ [][Next]_vars

-----------------------------------------------------------------------------
(* Properties.                                                             *)

\* Row ids, kinds and counts are what the schema allows: a door and only a
\* door has a grid here, a door holds no blob, a text always does.
TypeOK ==
    /\ tiles \in [TileIds -> Rows]
    /\ grids \subseteq GridIds
    /\ sel \in [GridIds -> SUBSET TileIds]
    /\ refs \in [Blobs -> Nat]
    /\ nextTile \in Nat /\ nextGrid \in Nat /\ untold \subseteq GridIds \X (TileIds \cup {Chosen})
    /\ \A t \in Live :
         /\ (tiles[t].kind = "door") <=> (tiles[t].child # Nowhere)
         /\ tiles[t].kind = "text" => tiles[t].blob # NoBlob
         /\ tiles[t].kind \in {"door", "farDoor"} => tiles[t].blob = NoBlob

\* A blob's count is the number of rows that name it, so bytes are freed when
\* the last of them goes and never before: through creates, edits, clears,
\* deep copies and cascading deletes.
RefsExact == \A b \in Blobs : refs[b] = Cardinality(Naming(b))

\* Every row is on a grid that is there, every door's grid is there, and no
\* two doors own one: a copy shares no grid and a delete leaves none behind.
OwnedOnce ==
    /\ \A t \in Live : tiles[t].grid \in grids
    /\ \A d \in Doors : tiles[d].child \in grids \ Roots
    /\ \A d, e \in Doors : tiles[d].child = tiles[e].child => d = e

\* Every grid is reached from the root, the scratch grid or the trash: no move
\* or copy closes a ring of doors, and no delete cuts one off.
Reached == \A g \in grids : \E r \in Roots : InSubtree(g, r)

\* A selection names only tiles on its grid, and one that is not there has
\* none.
SelectionOnGrid == \A g \in GridIds : sel[g] \subseteq On(g) /\ (g \notin grids => sel[g] = {})

\* Nothing shares a cell, but for visits on the scratch grid.
OneTilePerCell ==
    \A s, t \in Live : s # t /\ tiles[s].grid = tiles[t].grid /\ tiles[s].grid # Scratch
                         => tiles[s].cell # tiles[t].cell

\* Only what was in the trash or on the scratch grid, or in a door there, is
\* ever destroyed; all else a user deletes is still there.
DestroyedFromTrash ==
    [][\A t \in Live \ Live' : \E g \in {Trash, Scratch} : InSubtree(tiles[t].grid, g)]_vars

\* The events of a write tell all it changes of the grids clients hold, the
\* selections it empties included, but for the door a month's first delete
\* makes (MonthDoorIsTold).
WritesAreTold == \A u \in untold : u[1] = Trash /\ u[2] \in MonthDoors

\* A client never asks again for a grid it holds, since the event stream keeps
\* those true (client/cache/cache.go:468-470).
HeldIsCurrent == untold = {}

=============================================================================
