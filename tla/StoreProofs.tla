----------------------------- MODULE StoreProofs -----------------------------
(***************************************************************************)
(* What the store's writes keep, for any number of grids, tiles and blobs. *)
(*                                                                         *)
(* The invariant relates the rows, the grids, the counts, the selections   *)
(* and what the events told.  Reached alone is not inductive: a move must  *)
(* be known not to cut a grid off, wherever it was.  Rooted says the same  *)
(* the other way round, of sets: a set of grids no door leads into holds a *)
(* root.  After a move, such a set without what the moved door owns was   *)
(* one before, and it is not empty since the door did not go into its own   *)
(* subtree; a ring of doors would be one without a root (NoRing).          *)
(***************************************************************************)
EXTENDS Store, FiniteSetTheorems, TLAPS, WellFoundedInduction

\* What a live row may be.
Shape(row) ==
    /\ row \in Rows
    /\ row.grid # Nowhere
    /\ (row.kind = "door") <=> (row.child # Nowhere)
    /\ row.kind = "text" => row.blob # NoBlob
    /\ row.kind \in {"door", "farDoor"} => row.blob = NoBlob

Types ==
    /\ tiles \in [TileIds -> Rows]
    /\ grids \subseteq GridIds /\ Roots \subseteq grids
    /\ nextTile \in Nat \ {0} /\ nextGrid \in Nat \ {0}
    /\ \A t \in Live : Shape(tiles[t])

\* Row and grid ids are handed out in order.
Fresh ==
    /\ \A t \in Live : t < nextTile
    /\ \A g \in grids : g < nextGrid

Selected == sel \in [GridIds -> SUBSET TileIds] /\ SelectionOnGrid

Counted == refs \in [Blobs -> Int] /\ RefsExact

Told == untold \subseteq GridIds \X (TileIds \cup {Chosen}) /\ WritesAreTold

\* What no door leads into is reached from nowhere else.
Open(S) == \A d \in Doors : tiles[d].child \in S => tiles[d].grid \in S

Rooted == \A S \in SUBSET grids : S # {} /\ Open(S) => S \cap Roots # {}

Inv == Types /\ Fresh /\ OwnedOnce /\ Selected /\ Counted /\ Rooted /\ Told
-----------------------------------------------------------------------------
\* What the constants are.
LEMMA Given ==
    /\ TileIds \subseteq Nat /\ 0 \notin TileIds /\ GridIds \subseteq Nat /\ 0 \notin GridIds
    /\ IsFiniteSet(TileIds) /\ IsFiniteSet(GridIds)
    /\ Roots \subseteq GridIds /\ \A r \in Roots : r \in 1..3
    /\ Root \in Roots /\ Scratch \in Roots /\ Trash \in Roots
    /\ Root # Scratch /\ Root # Trash /\ Scratch # Trash
    /\ NoBlob \notin Blobs /\ Month # Plain /\ DoorNames \subseteq {Month, Plain}
    /\ UserCells \subseteq Nat /\ Made \subseteq Kinds
BY StoreAssumption DEF StoreAssumption, Roots

\* The least set the doors do not lead out of.
LEMMA UnderHolds ==
    ASSUME Types, OwnedOnce, NEW top \in grids
    PROVE  /\ Under(top) \subseteq grids /\ top \in Under(top)
           /\ \A d \in Doors : tiles[d].grid \in Under(top) => tiles[d].child \in Under(top)
           /\ \A r \in Roots : r \in Under(top) => r = top
<1> DEFINE owns == {S \in SUBSET (grids \ Roots) :
                      \A d \in Doors : tiles[d].grid \in S \cup {top} => tiles[d].child \in S}
<1>u. Under(top) = {g \in grids : \A S \in owns : g \in S \cup {top}}
  BY DEF Under
<1>1. grids \ Roots \in owns
  BY DEF OwnedOnce
<1>2. ASSUME NEW d \in Doors, tiles[d].grid \in Under(top) PROVE tiles[d].child \in Under(top)
  <2>1. tiles[d].child \in grids
    BY DEF OwnedOnce
  <2>2. ASSUME NEW S \in owns PROVE tiles[d].child \in S
    <3>1. tiles[d].grid \in S \cup {top}
      BY <1>2, <1>u
    <3>2. QED
      BY <3>1
  <2>3. QED
    BY <1>u, <2>1, <2>2
<1>3. ASSUME NEW r \in Roots, r \in Under(top) PROVE r = top
  BY <1>u, <1>1, <1>3
<1>4. top \in Under(top)
  BY <1>u
<1>5. QED
  BY <1>u, <1>2, <1>3, <1>4

\* Whatever holds a grid and is closed under doors holds all that is under it.
LEMMA UnderIsLeast ==
    ASSUME Types, OwnedOnce, NEW top \in grids, NEW X, top \in X,
           \A d \in Doors : tiles[d].grid \in X => tiles[d].child \in X
    PROVE  Under(top) \subseteq X
<1> DEFINE owns == {S \in SUBSET (grids \ Roots) :
                      \A d \in Doors : tiles[d].grid \in S \cup {top} => tiles[d].child \in S}
           T == X \cap (grids \ Roots)
<1>u. Under(top) = {g \in grids : \A S \in owns : g \in S \cup {top}}
  BY DEF Under
<1>1. T \in owns
  BY DEF OwnedOnce
<1>2. QED
  BY <1>u, <1>1

\* A grid under another is so through its own door.
LEMMA UnderThroughDoor ==
    ASSUME Types, OwnedOnce, NEW top \in grids, NEW d \in Doors,
           tiles[d].child \in Under(top), tiles[d].child # top
    PROVE  tiles[d].grid \in Under(top)
<1> SUFFICES ASSUME tiles[d].grid \notin Under(top) PROVE FALSE
  OBVIOUS
<1> DEFINE X == Under(top) \ {tiles[d].child}
<1>1. top \in X
  BY UnderHolds
<1>2. ASSUME NEW e \in Doors, tiles[e].grid \in X PROVE tiles[e].child \in X
  <2>1. tiles[e].child \in Under(top)
    BY <1>2, UnderHolds
  <2>2. tiles[e].child # tiles[d].child
    BY <1>2 DEF OwnedOnce
  <2>3. QED
    BY <2>1, <2>2
<1>3. Under(top) \subseteq X
  BY <1>1, <1>2, UnderIsLeast
<1>4. QED
  BY <1>3

\* Every grid is reached from a root when what is open meets the roots.
LEMMA RootedReaches ==
    ASSUME Types, OwnedOnce, Rooted
    PROVE  Reached
<1> SUFFICES ASSUME NEW g \in grids, \A r \in Roots : g \notin Under(r) PROVE FALSE
  BY DEF Reached, InSubtree
<1> DEFINE S == {h \in grids : \A r \in Roots : h \notin Under(r)}
<1>1. Open(S)
  <2> SUFFICES ASSUME NEW d \in Doors, tiles[d].child \in S PROVE tiles[d].grid \in S
    BY DEF Open
  <2>1. tiles[d].grid \in grids
    BY DEF OwnedOnce, Doors
  <2>2. ASSUME NEW r \in Roots PROVE tiles[d].grid \notin Under(r)
    BY UnderHolds DEF Types
  <2>3. QED
    BY <2>1, <2>2
<1>2. S \cap Roots # {}
  BY <1>1 DEF Rooted
<1>3. PICK r \in Roots : r \in S
  BY <1>2
<1>4. r \in Under(r)
  BY UnderHolds DEF Types
<1>5. QED
  BY <1>3, <1>4
-----------------------------------------------------------------------------
\* A change is a row of a grid that was and is there, or a selection.
LEMMA ChangesAre ==
    ASSUME NEW u \in Changes
    PROVE  \/ \E t \in TileIds :
                /\ tiles'[t] # tiles[t]
                /\ \/ u = <<tiles[t].grid, t>> /\ tiles[t].grid \in grids'
                   \/ u = <<tiles'[t].grid, t>> /\ tiles'[t].grid \in grids
           \/ \E g \in grids : sel'[g] # sel[g] /\ u = <<g, Chosen>>
BY DEF Changes, Thing

\* What stays untold is what was or what the step leaves unsaid.
LEMMA TellsAll ==
    ASSUME Told, NEW things, Tell(things),
           \A d \in MonthDoors : <<Trash, d>> \notin things => d \in MonthDoors',
           \A u \in Changes : \/ u \in things
                              \/ u[1] \notin grids'
                              \/ \E d \in MonthDoors' : u = <<Trash, d>>
    PROVE  Told'
<1> SUFFICES ASSUME NEW u \in untold'
             PROVE  \E d \in MonthDoors' : u = <<Trash, d>>
  <2>1. Trash \in GridIds /\ MonthDoors' \subseteq TileIds
    BY Given DEF MonthDoors, On, Live
  <2>2. QED
    BY <2>1 DEF Told, WritesAreTold
<1>1. u \in (untold \cup Changes) \ things /\ u[1] \in grids'
  BY DEF Tell
<1>2. CASE u \in untold
  <2>1. u = <<u[1], u[2]>>
    BY <1>2 DEF Told
  <2>2. u[1] = Trash /\ u[2] \in MonthDoors
    BY <1>2 DEF Told, WritesAreTold
  <2>3. u = <<Trash, u[2]>>
    BY <2>1, <2>2
  <2>4. u[2] \in MonthDoors'
    BY <1>1, <2>2, <2>3
  <2>5. QED
    BY <2>3, <2>4
<1>3. CASE u \in Changes
  BY <1>1, <1>3
<1>4. QED
  BY <1>1, <1>2, <1>3

\* An inserted row is the only one that differs.
LEMMA InsertFacts ==
    ASSUME Types, Fresh, NEW row, Shape(row), nextTile \in TileIds,
           tiles' = [tiles EXCEPT ![nextTile] = row]
    PROVE  /\ nextTile \notin Live /\ Live' = Live \cup {nextTile}
           /\ tiles' \in [TileIds -> Rows] /\ tiles'[nextTile] = row
           /\ \A s \in TileIds : s # nextTile => tiles'[s] = tiles[s]
           /\ \A t \in Live' : Shape(tiles'[t])
<1>1. nextTile \notin Live
  BY DEF Fresh, Types
<1>2. tiles' \in [TileIds -> Rows] /\ tiles'[nextTile] = row
      /\ \A s \in TileIds : s # nextTile => tiles'[s] = tiles[s]
  BY DEF Types, Shape
<1>3. Live' = Live \cup {nextTile}
  BY <1>2 DEF Live, Shape
<1>4. QED
  BY <1>1, <1>2, <1>3 DEF Types, Live

\* An updated row is the only one that differs.
LEMMA UpdateFacts ==
    ASSUME Types, NEW t \in Live, NEW row, Shape(row),
           tiles' = [tiles EXCEPT ![t] = row]
    PROVE  /\ t \in TileIds /\ Live' = Live
           /\ tiles' \in [TileIds -> Rows] /\ tiles'[t] = row
           /\ \A s \in TileIds : s # t => tiles'[s] = tiles[s]
           /\ \A s \in Live' : Shape(tiles'[s])
<1>1. t \in TileIds
  BY DEF Live
<1>2. tiles' \in [TileIds -> Rows] /\ tiles'[t] = row
      /\ \A s \in TileIds : s # t => tiles'[s] = tiles[s]
  BY <1>1 DEF Types, Shape
<1>3. Live' = Live
  BY <1>1, <1>2 DEF Live, Shape
<1>4. QED
  BY <1>1, <1>2, <1>3 DEF Types, Live

\* The rows that name a blob can be counted.
LEMMA NamingIsFinite ==
    ASSUME NEW b
    PROVE  IsFiniteSet(Naming(b)) /\ Cardinality(Naming(b)) \in Nat
<1>1. Naming(b) \in SUBSET TileIds
  BY DEF Naming, Live
<1>2. QED
  BY <1>1, Given, FS_Subset, FS_CardinalityType

-----------------------------------------------------------------------------
\* A new row counts for the blob it names, and owns a grid just made.
LEMMA InsertKeeps ==
    ASSUME Inv, NEW row, Shape(row), Insert(row), row.grid \in grids,
           \/ row.kind # "door" /\ UNCHANGED <<grids, nextGrid>>
           \/ row.kind = "door" /\ row.child = nextGrid /\ MintGrid,
           refs' = [b \in Blobs |-> IF b = row.blob THEN refs[b] + 1 ELSE refs[b]]
    PROVE  Inv'
<1> USE DEF Inv
<1>i. nextTile \in TileIds /\ tiles' = [tiles EXCEPT ![nextTile] = row] /\ nextTile' = nextTile + 1
      /\ sel' = sel /\ Tell({<<row.grid, nextTile>>})
  BY DEF Insert, Thing
<1> DEFINE n == nextTile
<1>f. /\ n \notin Live /\ Live' = Live \cup {n} /\ n \in TileIds
      /\ tiles' \in [TileIds -> Rows] /\ tiles'[n] = row
      /\ \A s \in TileIds : s # n => tiles'[s] = tiles[s]
      /\ \A t \in Live' : Shape(tiles'[t])
  BY <1>i, InsertFacts
<1>g. grids \subseteq grids' /\ grids' \subseteq GridIds /\ nextGrid \in Nat \ {0}
      /\ \/ row.kind # "door" /\ grids' = grids /\ nextGrid' = nextGrid
         \/ /\ row.kind = "door" /\ row.child = nextGrid /\ nextGrid \notin grids
            /\ grids' = grids \cup {nextGrid} /\ nextGrid' = nextGrid + 1
  BY DEF MintGrid, Fresh, Types
<1>l. Live \subseteq TileIds
  BY DEF Live
<1> HIDE DEF n
<1>1. Types'
  BY <1>f, <1>g, <1>i DEF Types
<1>2. Fresh'
  <2>1. \A g \in grids' : g < nextGrid'
    <3>1. \A g \in grids : g \in Nat /\ g < nextGrid
      BY Given DEF Fresh, Types
    <3>2. QED
      BY <1>g, <3>1
  <2>2. \A t \in Live' : t < nextTile'
    <3>1. \A t \in Live : t \in Nat /\ t < nextTile
      BY <1>l, Given DEF Fresh
    <3>2. nextTile \in Nat
      BY DEF Types
    <3>3. QED
      BY <1>i, <1>f, <3>1, <3>2 DEF n
  <2>3. QED
    BY <2>1, <2>2 DEF Fresh
<1>d. Doors \subseteq Doors' /\ \A d \in Doors' : d \in Doors \/ (d = n /\ row.kind = "door")
  BY <1>f, <1>l DEF Doors
<1>s. \A d \in Doors : d \in TileIds /\ d # n /\ tiles'[d] = tiles[d]
  BY <1>f, <1>l DEF Doors
<1>r. \A r \in Roots : r < nextGrid
  BY DEF Fresh, Types
<1>3. OwnedOnce'
  <2>1. \A t \in Live' : tiles'[t].grid \in grids'
    BY <1>f, <1>l, <1>g DEF OwnedOnce
  <2>2. \A d \in Doors' : tiles'[d].child \in grids' \ Roots
    BY <1>f, <1>g, <1>d, <1>s, <1>r DEF OwnedOnce
  <2>3. ASSUME NEW d \in Doors', NEW e \in Doors', tiles'[d].child = tiles'[e].child PROVE d = e
    BY <2>3, <1>f, <1>g, <1>d, <1>s DEF OwnedOnce
  <2>4. QED
    BY <2>1, <2>2, <2>3 DEF OwnedOnce, Roots
<1>4. Selected'
  <2>1. \A g \in GridIds : On(g) \subseteq On(g)'
    BY <1>f, <1>l DEF On
  <2>2. \A g \in GridIds : g \notin grids' => g \notin grids
    BY <1>g
  <2>3. QED
    BY <1>i, <2>1, <2>2 DEF Selected, SelectionOnGrid
<1>5. Counted'
  <2>1. refs' \in [Blobs -> Int]
    BY DEF Counted
  <2>2. ASSUME NEW b \in Blobs PROVE refs'[b] = Cardinality(Naming(b)')
    <3>1. refs[b] = Cardinality(Naming(b)) /\ IsFiniteSet(Naming(b))
      BY NamingIsFinite DEF Counted, RefsExact
    <3>2. CASE b = row.blob
      <4>1. Naming(b)' = Naming(b) \cup {n} /\ n \notin Naming(b)
        BY <1>f, <1>l, <3>2 DEF Naming
      <4>2. QED
        BY ZenonT(30), <3>1, <3>2, <4>1, FS_AddElement
    <3>3. CASE b # row.blob
      <4>1. Naming(b)' = Naming(b)
        BY <1>f, <1>l, <3>3 DEF Naming
      <4>2. QED
        BY <3>1, <3>3, <4>1
    <3>4. QED
      BY <3>2, <3>3
  <2>3. QED
    BY <2>1, <2>2 DEF Counted, RefsExact
<1>6. Rooted'
  <2> SUFFICES ASSUME NEW S \in SUBSET grids', S # {}, Open(S)' PROVE S \cap Roots # {}
    BY DEF Rooted, Roots
  <2> DEFINE W == S \ {nextGrid}
  <2>1. W \subseteq grids
    BY <1>g DEF Fresh
  <2>2. nextGrid \in S => row.grid \in S
    <3> SUFFICES ASSUME nextGrid \in S PROVE row.grid \in S
      OBVIOUS
    <3>1. row.kind = "door" /\ row.child = nextGrid
      BY <1>g DEF Fresh, Types
    <3>2. n \in Doors'
      BY <1>f, <3>1 DEF Doors
    <3>3. QED
      BY <1>f, <3>1, <3>2 DEF Open
  <2>3. W # {}
    <3>1. row.grid # nextGrid
      BY DEF Fresh, Types
    <3>2. QED
      BY <2>2, <3>1
  <2>4. Open(W)
    <3> SUFFICES ASSUME NEW d \in Doors, tiles[d].child \in W PROVE tiles[d].grid \in W
      BY DEF Open
    <3>1. tiles[d].grid \in S
      BY <1>d, <1>s DEF Open
    <3>2. tiles[d].grid # nextGrid
      BY DEF OwnedOnce, Doors, Fresh, Types
    <3>3. QED
      BY <3>1, <3>2
  <2>5. QED
    BY <2>1, <2>3, <2>4 DEF Rooted
<1>7. Told'
  <2>1. \A d \in MonthDoors : d \in MonthDoors'
    BY <1>f, <1>l DEF MonthDoors, On
  <2>2. ASSUME NEW u \in Changes PROVE u = <<row.grid, n>> \/ u[1] \notin grids'
    <3>1. ASSUME NEW t \in TileIds, tiles'[t] # tiles[t], u = <<tiles[t].grid, t>>, tiles[t].grid \in grids'
          PROVE  FALSE
      <4>1. t = n /\ tiles[t].grid = Nowhere
        BY <3>1, <1>f DEF Live
      <4>2. QED
        BY <3>1, <4>1, <1>g, Given DEF Nowhere
    <3>2. ASSUME NEW t \in TileIds, tiles'[t] # tiles[t], u = <<tiles'[t].grid, t>> PROVE u = <<row.grid, n>>
      BY <3>2, <1>f
    <3>3. QED
      BY <1>i, <3>1, <3>2, ChangesAre
  <2>3. QED
    BY <1>i, <2>1, <2>2, TellsAll DEF n
<1>8. QED
  BY <1>1, <1>2, <1>3, <1>4, <1>5, <1>6, <1>7

\* A row rewritten where it is keeps what it owns, and its count moves with
\* its blob.
LEMMA UpdateKeeps ==
    ASSUME Inv, NEW t \in Live, NEW row, Shape(row), Update(t, row),
           row.grid = tiles[t].grid, row.kind = tiles[t].kind, row.child = tiles[t].child,
           refs' = Swapped(tiles[t].blob, row.blob)
    PROVE  Inv'
<1> USE DEF Inv
<1>i. tiles' = [tiles EXCEPT ![t] = row] /\ UNCHANGED <<grids, sel, nextTile, nextGrid>>
      /\ Tell({<<row.grid, t>>})
  BY DEF Update, Thing
<1>f. /\ t \in TileIds /\ Live' = Live
      /\ tiles' \in [TileIds -> Rows] /\ tiles'[t] = row
      /\ \A s \in TileIds : s # t => tiles'[s] = tiles[s]
      /\ \A s \in Live' : Shape(tiles'[s])
  BY <1>i, UpdateFacts
<1>s. \A s \in TileIds : tiles'[s].grid = tiles[s].grid /\ tiles'[s].kind = tiles[s].kind
                         /\ tiles'[s].child = tiles[s].child
  BY <1>f
<1>l. Live \subseteq TileIds
  BY DEF Live
<1>d. Doors' = Doors /\ Doors \subseteq TileIds
  BY <1>f, <1>s, <1>l DEF Doors
<1>1. Types'
  BY <1>f, <1>i DEF Types
<1>2. Fresh'
  BY <1>f, <1>i DEF Fresh
<1>3. OwnedOnce'
  BY <1>f, <1>i, <1>s, <1>l, <1>d DEF OwnedOnce, Roots
<1>4. Selected'
  <2>1. \A g \in GridIds : On(g)' = On(g)
    BY <1>f, <1>s, <1>l DEF On
  <2>2. QED
    BY <1>i, <2>1 DEF Selected, SelectionOnGrid
<1>5. Counted'
  <2>1. refs' \in [Blobs -> Int]
    BY DEF Counted, Swapped
  <2>2. ASSUME NEW b \in Blobs PROVE refs'[b] = Cardinality(Naming(b)')
    <3>1. refs[b] = Cardinality(Naming(b)) /\ IsFiniteSet(Naming(b)) /\ Cardinality(Naming(b)) \in Nat
      BY NamingIsFinite DEF Counted, RefsExact
    <3>e. refs'[b] = refs[b] + (IF b = row.blob THEN 1 ELSE 0) - (IF b = tiles[t].blob THEN 1 ELSE 0)
      BY DEF Swapped
    <3>2. CASE b = row.blob /\ b # tiles[t].blob
      <4>1. Naming(b)' = Naming(b) \cup {t} /\ t \notin Naming(b)
        BY <1>f, <1>l, <3>2 DEF Naming
      <4>2. Cardinality(Naming(b)') = Cardinality(Naming(b)) + 1
        BY <3>1, <4>1, FS_AddElement
      <4>3. refs'[b] = refs[b] + 1
        BY <3>1, <3>2, <3>e
      <4>4. QED
        BY <3>1, <4>2, <4>3
    <3>3. CASE b # row.blob /\ b = tiles[t].blob
      <4>1. Naming(b)' = Naming(b) \ {t} /\ t \in Naming(b)
        BY <1>f, <1>l, <3>3 DEF Naming
      <4>2. Cardinality(Naming(b)') = Cardinality(Naming(b)) - 1
        BY <3>1, <4>1, FS_RemoveElement
      <4>3. refs'[b] = refs[b] - 1
        BY <3>1, <3>3, <3>e
      <4>4. QED
        BY <3>1, <4>2, <4>3
    <3>4. CASE b = row.blob <=> b = tiles[t].blob
      <4>1. Naming(b)' = Naming(b)
        BY <1>f, <1>l, <3>4 DEF Naming
      <4>2. QED
        BY <3>1, <3>4, <3>e, <4>1
    <3>5. QED
      BY <3>2, <3>3, <3>4
  <2>3. QED
    BY <2>1, <2>2 DEF Counted, RefsExact
<1>6. Rooted'
  <2>1. \A S : Open(S)' <=> Open(S)
    BY <1>s, <1>d DEF Open
  <2>2. QED
    BY <1>i, <2>1 DEF Rooted, Roots
<1>7. Told'
  <2>1. \A d \in MonthDoors : <<Trash, d>> \notin {<<row.grid, t>>} => d \in MonthDoors'
    BY <1>f, <1>l DEF MonthDoors, On
  <2>2. ASSUME NEW u \in Changes PROVE u = <<row.grid, t>>
    BY <1>f, <1>i, <1>s, ChangesAre
  <2>3. QED
    BY <1>i, <2>1, <2>2, TellsAll
<1>8. QED
  BY <1>1, <1>2, <1>3, <1>4, <1>5, <1>6, <1>7
-----------------------------------------------------------------------------
Moved(t, g, c) == [tiles[t] EXCEPT !.grid = g, !.cell = c]

\* A row that is moved keeps all but its place.
LEMMA MovedRow ==
    ASSUME Types, NEW t \in Live, NEW g \in GridIds, NEW c \in Nat, NEW row, row = Moved(t, g, c)
    PROVE  /\ Shape(row) /\ row.grid = g /\ row.kind = tiles[t].kind /\ row.child = tiles[t].child
           /\ row.blob = tiles[t].blob /\ row.name = tiles[t].name
<1> USE DEF Moved
<1>1. tiles[t] \in Rows /\ Shape(tiles[t])
  BY DEF Types, Live
<1>2. g # Nowhere
  BY Given DEF Nowhere
<1>3. row \in Rows
  BY <1>1 DEF Rows
<1>4. row.grid = g /\ row.kind = tiles[t].kind /\ row.child = tiles[t].child
      /\ row.blob = tiles[t].blob /\ row.name = tiles[t].name
  BY <1>1 DEF Rows
<1>5. QED
  BY <1>1, <1>2, <1>3, <1>4 DEF Shape

\* What a tile's leaving tells, and what it takes from the selection.
LEMMA LeavingTells ==
    ASSUME Selected, NEW t \in TileIds, NEW from \in grids, grids \subseteq GridIds,
           sel' = LeaveSelection(sel, from, t)
    PROVE  /\ sel' \in [GridIds -> SUBSET TileIds]
           /\ \A g \in GridIds : sel'[g] = IF g = from THEN sel[g] \ {t} ELSE sel[g]
           /\ \A g \in grids : sel'[g] # sel[g] => <<g, Chosen>> \in Left(from, t)
           /\ <<from, t>> \in Left(from, t)
<1>1. sel' \in [GridIds -> SUBSET TileIds]
      /\ \A g \in GridIds : sel'[g] = IF g = from THEN sel[g] \ {t} ELSE sel[g]
  BY DEF Selected, LeaveSelection
<1>2. t \notin sel[from] => sel[from] \ {t} = sel[from]
  OBVIOUS
<1>3. \A g \in grids : sel'[g] # sel[g] => g = from /\ t \in sel[from]
  BY <1>1, <1>2
<1>4. <<from, t>> \in Left(from, t)
  BY DEF Left, Thing
<1>5. t \in sel[from] => <<from, Chosen>> \in Left(from, t)
  BY DEF Left, Thing
<1>6. QED
  BY <1>1, <1>3, <1>4, <1>5

\* A tile may go to any grid but one it owns.
LEMMA MoveKeeps ==
    ASSUME Inv, NEW t \in Live, NEW g \in grids, NEW c \in Nat,
           tiles' = [tiles EXCEPT ![t] = [tiles[t] EXCEPT !.grid = g, !.cell = c]],
           UNCHANGED <<grids, refs, nextTile, nextGrid>>,
           \/ g = tiles[t].grid /\ UNCHANGED sel /\ Tell({Thing(g, t)})
           \/ /\ sel' = LeaveSelection(sel, tiles[t].grid, t)
              /\ Tell(Left(tiles[t].grid, t) \cup {Thing(g, t)}),
           tiles[t].kind = "door" => g \notin Under(tiles[t].child)
    PROVE  Inv'
<1> USE DEF Inv
<1> DEFINE from == tiles[t].grid
           k == tiles[t].child
           row == Moved(t, g, c)
<1>r. tiles' = [tiles EXCEPT ![t] = row]
  BY DEF Moved
<1> HIDE DEF row
<1>m. Shape(row) /\ row.grid = g /\ row.kind = tiles[t].kind /\ row.child = tiles[t].child
      /\ row.blob = tiles[t].blob
  <2>1. Types /\ g \in GridIds
    BY DEF Types
  <2>2. QED
    BY <2>1, MovedRow DEF row
<1>f. /\ t \in TileIds /\ Live' = Live
      /\ tiles' \in [TileIds -> Rows] /\ tiles'[t] = row
      /\ \A s \in TileIds : s # t => tiles'[s] = tiles[s]
      /\ \A s \in Live' : Shape(tiles'[s])
  BY <1>r, <1>m, UpdateFacts
<1>l. Live \subseteq TileIds /\ from \in grids
  BY DEF Live, OwnedOnce
<1>s. \A s \in TileIds : tiles'[s].kind = tiles[s].kind /\ tiles'[s].child = tiles[s].child
                         /\ tiles'[s].blob = tiles[s].blob
  BY <1>f, <1>m
<1>d. Doors' = Doors /\ Doors \subseteq TileIds
  BY <1>f, <1>s, <1>l DEF Doors
<1>1. Types'
  BY <1>f DEF Types
<1>2. Fresh'
  BY <1>f DEF Fresh
<1>3. OwnedOnce'
  <2>1. \A s \in Live' : tiles'[s].grid \in grids'
    BY <1>f, <1>l, <1>m DEF OwnedOnce
  <2>2. \A d \in Doors' : d \in Doors /\ tiles'[d].child = tiles[d].child
    BY <1>s, <1>d
  <2>3. \A d \in Doors' : tiles'[d].child \in grids' \ Roots
    BY <2>2 DEF OwnedOnce
  <2>4. \A d, e \in Doors' : tiles'[d].child = tiles'[e].child => d = e
    BY <2>2 DEF OwnedOnce
  <2>5. QED
    BY <2>1, <2>3, <2>4 DEF OwnedOnce, Roots
<1>o. \A h \in GridIds : On(h) \ {t} \subseteq On(h)' /\ (h # from => t \notin On(h))
                         /\ (h = g => t \in On(h)')
  BY <1>f, <1>l, <1>m DEF On
<1>e. ASSUME sel' = LeaveSelection(sel, from, t)
      PROVE  /\ sel' \in [GridIds -> SUBSET TileIds]
             /\ \A h \in GridIds : sel'[h] = IF h = from THEN sel[h] \ {t} ELSE sel[h]
             /\ \A h \in grids : sel'[h] # sel[h] => <<h, Chosen>> \in Left(from, t)
             /\ <<from, t>> \in Left(from, t)
  <2>1. Selected /\ grids \subseteq GridIds /\ t \in TileIds /\ from \in grids
    BY <1>f, <1>l DEF Types
  <2> HIDE DEF from
  <2>2. QED
    BY <1>e, <2>1, LeavingTells
<1>4. Selected'
  <2>1. CASE UNCHANGED sel /\ g = from
    BY <2>1, <1>o DEF Selected, SelectionOnGrid, Types
  <2>2. CASE sel' = LeaveSelection(sel, from, t)
    <3>1. sel' \in [GridIds -> SUBSET TileIds]
          /\ \A h \in GridIds : sel'[h] = IF h = from THEN sel[h] \ {t} ELSE sel[h]
      BY <2>2, <1>e
    <3>2. \A h \in GridIds : sel'[h] \subseteq On(h) \ {t}
      BY <3>1, <1>o DEF Selected, SelectionOnGrid
    <3>3. \A h \in GridIds : h \notin grids' => sel'[h] = {}
      BY <3>1 DEF Selected, SelectionOnGrid
    <3>4. QED
      BY <3>1, <3>2, <3>3, <1>o DEF Selected, SelectionOnGrid
  <2>3. QED
    BY <2>1, <2>2
<1>5. Counted'
  <2>1. \A b : Naming(b)' = Naming(b)
    BY <1>f, <1>s, <1>l DEF Naming
  <2>2. QED
    BY <2>1 DEF Counted, RefsExact
<1>6. Rooted'
  <2> SUFFICES ASSUME NEW S \in SUBSET grids, S # {}, Open(S)' PROVE S \cap Roots # {}
    BY DEF Rooted, Roots
  <2>1. ASSUME tiles[t].kind = "door" => k \notin S PROVE S \cap Roots # {}
    <3>1. Open(S)
      <4> SUFFICES ASSUME NEW d \in Doors, tiles[d].child \in S PROVE tiles[d].grid \in S
        BY DEF Open
      <4>1. d # t
        BY <2>1 DEF Doors
      <4>2. QED
        BY <4>1, <1>d, <1>f DEF Open
    <3>2. QED
      BY <3>1 DEF Rooted
  <2>2. ASSUME tiles[t].kind = "door", k \in S PROVE S \cap Roots # {}
    <3> DEFINE W == S \ Under(k)
    <3>1. t \in Doors /\ k \in grids
      BY <2>2 DEF Doors, OwnedOnce
    <3>2. g \in W
      BY <2>2, <3>1, <1>d, <1>f, <1>m DEF Open
    <3>3. Open(W)
      <4> SUFFICES ASSUME NEW d \in Doors, tiles[d].child \in W PROVE tiles[d].grid \in W
        BY DEF Open
      <4>1. d # t
        BY <3>1, UnderHolds
      <4>2. tiles[d].grid \in S
        BY <4>1, <1>d, <1>f DEF Open
      <4>3. tiles[d].grid \notin Under(k)
        BY <3>1, UnderHolds
      <4>4. QED
        BY <4>2, <4>3
    <3>4. QED
      BY <3>2, <3>3 DEF Rooted
  <2>3. QED
    BY <2>1, <2>2
<1>7. Told'
  <2> DEFINE Says(things) ==
               /\ Tell(things) /\ <<from, t>> \in things /\ <<g, t>> \in things
               /\ \A h \in grids : sel'[h] # sel[h] => <<h, Chosen>> \in things
  <2>1. \E things : Says(things)
    <3>1. CASE g = from /\ UNCHANGED sel /\ Tell({Thing(g, t)})
      <4>1. Says({<<g, t>>})
        BY <3>1 DEF Thing
      <4>2. QED
        BY <4>1
    <3>2. CASE sel' = LeaveSelection(sel, from, t) /\ Tell(Left(from, t) \cup {Thing(g, t)})
      <4>1. Says(Left(from, t) \cup {<<g, t>>})
        BY <3>2, <1>e DEF Thing
      <4>2. QED
        BY <4>1
    <3>3. QED
      BY <3>1, <3>2
  <2>2. PICK things : Says(things)
    BY <2>1
  <2>3. \A d \in MonthDoors : <<Trash, d>> \notin things => d \in MonthDoors'
    <3> SUFFICES ASSUME NEW d \in MonthDoors, <<Trash, d>> \notin things PROVE d \in MonthDoors'
      OBVIOUS
    <3>1. d # t
      BY <2>2 DEF MonthDoors, On
    <3>2. QED
      BY <3>1, <1>f, <1>l DEF MonthDoors, On
  <2>4. ASSUME NEW u \in Changes PROVE u \in things
    BY <1>f, <1>m, <2>2, ChangesAre
  <2>5. QED
    BY <2>2, <2>3, <2>4, TellsAll
<1>8. QED
  BY <1>1, <1>2, <1>3, <1>4, <1>5, <1>6, <1>7

\* Some cell no further than as many as are taken is free.
LEMMA CellIsFree ==
    ASSUME Types, NEW g \in GridIds
    PROVE  FreeCell(g) \in Nat
<1> DEFINE n == Cardinality(On(g))
           F == {c \in 0 .. n : Free(g, c)}
<1>1. On(g) \in SUBSET TileIds
  BY DEF On, Live
<1>2. IsFiniteSet(On(g)) /\ n \in Nat
  BY <1>1, Given, FS_Subset, FS_CardinalityType
<1> HIDE DEF n
<1>3. F # {}
  <2> SUFFICES ASSUME F = {} PROVE FALSE
    OBVIOUS
  <2> DEFINE at == [c \in 0 .. n |-> CHOOSE t \in On(g) : tiles[t].cell = c]
  <2>1. ASSUME NEW c \in 0 .. n PROVE at[c] \in On(g) /\ tiles[at[c]].cell = c
    BY DEF Free
  <2>2. at \in Injection(0 .. n, On(g))
    <3>1. at \in [0 .. n -> On(g)]
      BY <2>1
    <3>2. \A c, d \in 0 .. n : at[c] = at[d] => c = d
      BY <2>1
    <3> HIDE DEF at
    <3>3. QED
      BY <3>1, <3>2 DEF Injection, IsInjective
  <2>3. Cardinality(0 .. n) <= n
    BY <1>2, <2>2, FS_Injection DEF n
  <2>4. Cardinality(0 .. n) = n + 1
    BY <1>2, FS_Interval
  <2>5. QED
    BY <1>2, <2>3, <2>4
<1>4. PICK c \in F : \A d \in F : ~(d < c)
  <2>1. F \in SUBSET Nat
    BY <1>2
  <2>2. \E c \in F : \A d \in F : <<d, c>> \notin OpToRel(<, Nat)
    BY <1>3, <2>1, NatLessThanWellFounded, WFMin
  <2>3. PICK c \in F : \A d \in F : <<d, c>> \notin OpToRel(<, Nat)
    BY <2>2
  <2>4. \A d \in F : ~(d < c)
    BY <2>1, <2>3 DEF OpToRel
  <2>5. QED
    BY <2>3, <2>4
<1>5. \A d \in 0 .. c - 1 : ~Free(g, d)
  <2> TAKE d \in 0 .. c - 1
  <2>1. d \in 0 .. n /\ d < c
    BY <1>2, <1>4
  <2>2. QED
    BY <1>4, <2>1
<1>6. \E e \in 0 .. n : Free(g, e) /\ \A d \in 0 .. e - 1 : ~Free(g, d)
  BY <1>4, <1>5
<1>7. FreeCell(g) \in 0 .. n
  BY <1>6 DEF FreeCell, n
<1>8. QED
  BY <1>2, <1>7
-----------------------------------------------------------------------------
\* No door leads back into the grid it is on, however far down.
LEMMA NoRing ==
    ASSUME Types, OwnedOnce, Rooted, NEW t \in Doors
    PROVE  tiles[t].grid \notin Under(tiles[t].child)
<1> SUFFICES ASSUME tiles[t].grid \in Under(tiles[t].child) PROVE FALSE
  OBVIOUS
<1> DEFINE k == tiles[t].child
<1>1. k \in grids /\ k \notin Roots
  BY DEF OwnedOnce
<1>2. Open(Under(k))
  <2> SUFFICES ASSUME NEW d \in Doors, tiles[d].child \in Under(k) PROVE tiles[d].grid \in Under(k)
    BY DEF Open
  <2>1. CASE tiles[d].child = k
    BY <2>1 DEF OwnedOnce
  <2>2. CASE tiles[d].child # k
    BY <1>1, <2>2, UnderThroughDoor
  <2>3. QED
    BY <2>1, <2>2
<1>3. Under(k) \in SUBSET grids /\ k \in Under(k) /\ \A r \in Roots : r \in Under(k) => r = k
  BY <1>1, UnderHolds
<1>4. Under(k) \cap Roots # {}
  BY <1>2, <1>3 DEF Rooted
<1>5. QED
  BY <1>1, <1>3, <1>4

\* What a tile owns: closed under doors, without roots, and not its own grid.
LEMMA OwnedHolds ==
    ASSUME Types, OwnedOnce, Rooted, NEW t \in Live
    PROVE  /\ Owned(t) \subseteq grids \ Roots /\ tiles[t].grid \notin Owned(t)
           /\ tiles[t].kind = "door" => tiles[t].child \in Owned(t)
           /\ \A d \in Doors : tiles[d].grid \in Owned(t) => tiles[d].child \in Owned(t)
           /\ \A d \in Doors : tiles[d].child \in Owned(t) => d = t \/ tiles[d].grid \in Owned(t)
<1>1. CASE tiles[t].kind = "door"
  <2> DEFINE k == tiles[t].child
  <2>1. t \in Doors /\ k \in grids \ Roots /\ Owned(t) = Under(k)
    BY <1>1 DEF Doors, OwnedOnce, Owned
  <2>2. ASSUME NEW d \in Doors, tiles[d].child \in Under(k), d # t PROVE tiles[d].grid \in Under(k)
    <3>1. tiles[d].child # k
      BY <2>1, <2>2 DEF OwnedOnce
    <3>2. QED
      BY <2>1, <2>2, <3>1, UnderThroughDoor
  <2>3. QED
    BY <2>1, <2>2, UnderHolds, NoRing
<1>2. CASE tiles[t].kind # "door"
  BY <1>2 DEF Owned
<1>3. QED
  BY <1>1, <1>2

\* What is destroyed goes with all it owns and the counts of both.
LEMMA DestroyKeeps ==
    ASSUME Inv, NEW t \in Live, Destroy(t)
    PROVE  Inv'
<1> USE DEF Inv
<1> DEFINE doomed == Owned(t)
           gone == {t} \cup {s \in Live : tiles[s].grid \in doomed}
           from == tiles[t].grid
<1>a. /\ tiles' = [s \in TileIds |-> IF s \in gone THEN NoRow ELSE tiles[s]]
      /\ grids' = grids \ doomed
      /\ refs' = [b \in Blobs |-> refs[b] - Cardinality({s \in gone : tiles[s].blob = b})]
      /\ sel' = [g \in GridIds |-> IF g \in doomed THEN {} ELSE LeaveSelection(sel, from, t)[g]]
      /\ UNCHANGED <<nextTile, nextGrid>>
      /\ Tell(Left(from, t))
  BY DEF Destroy
<1>o. /\ doomed \subseteq grids \ Roots /\ from \notin doomed
      /\ \A d \in Doors : tiles[d].grid \in doomed => tiles[d].child \in doomed
      /\ \A d \in Doors : tiles[d].child \in doomed => d = t \/ tiles[d].grid \in doomed
      /\ tiles[t].kind = "door" => tiles[t].child \in doomed
  BY OwnedHolds
<1>g. gone \subseteq Live /\ t \in gone /\ Live \subseteq TileIds /\ from \in grids
      /\ \A s \in Live : s \in gone <=> (s = t \/ tiles[s].grid \in doomed)
  BY DEF Live, OwnedOnce
<1> HIDE DEF doomed
<1>n. NoRow \in Rows /\ NoRow.grid = Nowhere
  BY DEF NoRow, Rows, Kinds
<1>f. /\ tiles' \in [TileIds -> Rows]
      /\ \A s \in TileIds \ gone : tiles'[s] = tiles[s]
      /\ \A s \in gone : tiles'[s].grid = Nowhere
      /\ Live' = Live \ gone
  <2> HIDE DEF gone
  <2>1. tiles' \in [TileIds -> Rows]
    BY <1>a, <1>n DEF Types
  <2>2. /\ \A s \in TileIds \ gone : tiles'[s] = tiles[s]
        /\ \A s \in gone : tiles'[s].grid = Nowhere
    BY <1>a, <1>n, <1>g
  <2>3. QED
    BY <2>1, <2>2, <1>g DEF Live
<1> HIDE DEF gone
<1>d. \A d \in Doors' : d \in Doors /\ d \in TileIds \ gone /\ tiles'[d] = tiles[d]
  BY <1>f, <1>g DEF Doors
<1>1. Types'
  BY <1>a, <1>o, <1>f, <1>g DEF Types, Roots
<1>2. Fresh'
  BY <1>a, <1>f DEF Fresh
<1>3. OwnedOnce'
  <2>1. \A s \in Live' : tiles'[s].grid \in grids'
    BY <1>a, <1>f, <1>g DEF OwnedOnce
  <2>2. ASSUME NEW d \in Doors' PROVE tiles'[d].child \in grids' \ Roots
    <3>1. d \in Doors /\ d # t /\ tiles[d].grid \notin doomed
      BY <1>d, <1>g DEF Doors
    <3>2. QED
      BY <1>a, <1>d, <1>o, <3>1 DEF OwnedOnce
  <2>3. \A d, e \in Doors' : tiles'[d].child = tiles'[e].child => d = e
    BY <1>d DEF OwnedOnce
  <2>4. QED
    BY <2>1, <2>2, <2>3 DEF OwnedOnce, Roots
<1>s. /\ sel' \in [GridIds -> SUBSET TileIds]
      /\ \A g \in GridIds : sel'[g] = IF g \in doomed THEN {} ELSE IF g = from THEN sel[g] \ {t} ELSE sel[g]
  <2> DEFINE left == LeaveSelection(sel, from, t)
  <2>1. \A g \in GridIds : left[g] = IF g = from THEN sel[g] \ {t} ELSE sel[g]
    BY DEF LeaveSelection, Selected
  <2>2. sel' = [g \in GridIds |-> IF g \in doomed THEN {} ELSE left[g]]
    BY <1>a
  <2> HIDE DEF left
  <2>3. QED
    BY <2>1, <2>2 DEF Selected
<1>4. Selected'
  <2>1. \A g \in GridIds \ doomed : On(g) \ {t} \subseteq On(g)' /\ (g # from => t \notin On(g))
    BY <1>f, <1>g DEF On
  <2>2. ASSUME NEW g \in GridIds PROVE sel'[g] \subseteq On(g)'
    BY <1>s, <2>1 DEF Selected, SelectionOnGrid
  <2>3. ASSUME NEW g \in GridIds, g \notin grids' PROVE sel'[g] = {}
    <3>1. g \in doomed \/ g \notin grids
      BY <1>a, <2>3
    <3>2. g \notin grids => sel[g] = {}
      BY DEF Selected, SelectionOnGrid
    <3>3. QED
      BY <1>s, <3>1, <3>2
  <2>4. QED
    BY <1>s, <2>2, <2>3 DEF Selected, SelectionOnGrid
<1>5. Counted'
  <2>1. ASSUME NEW b \in Blobs PROVE refs'[b] \in Int /\ refs'[b] = Cardinality(Naming(b)')
    <3> DEFINE lost == {s \in gone : tiles[s].blob = b}
    <3>1. Naming(b)' = Naming(b) \ lost /\ Naming(b) \cap lost = lost
      BY <1>f, <1>g DEF Naming
    <3>2. refs[b] = Cardinality(Naming(b)) /\ IsFiniteSet(Naming(b))
      BY NamingIsFinite DEF Counted, RefsExact
    <3>3. refs'[b] = refs[b] - Cardinality(lost)
      BY <1>a
    <3> HIDE DEF lost
    <3>4. Cardinality(Naming(b) \ lost) = Cardinality(Naming(b)) - Cardinality(Naming(b) \cap lost)
          /\ IsFiniteSet(Naming(b) \ lost)
      BY <3>2, FS_Difference
    <3>5. Cardinality(Naming(b) \ lost) \in Nat
      BY <3>4, FS_CardinalityType
    <3>6. QED
      BY <3>1, <3>2, <3>3, <3>4, <3>5
  <2>2. refs' \in [Blobs -> Int]
    BY <1>a, <2>1
  <2>3. QED
    BY <2>1, <2>2 DEF Counted, RefsExact
<1>6. Rooted'
  <2> SUFFICES ASSUME NEW S \in SUBSET grids', S # {}, Open(S)' PROVE S \cap Roots # {}
    BY DEF Rooted, Roots
  <2>1. Open(S)
    <3> SUFFICES ASSUME NEW d \in Doors, tiles[d].child \in S PROVE tiles[d].grid \in S
      BY DEF Open
    <3>1. tiles[d].child \notin doomed
      BY <1>a
    <3>2. d \notin gone /\ d \in Live /\ tiles[d].kind = "door"
      BY <3>1, <1>o, <1>g DEF Doors
    <3>3. d \in Doors' /\ tiles'[d] = tiles[d]
      BY <1>f, <1>g, <3>2 DEF Doors
    <3>4. QED
      BY <3>3 DEF Open
  <2>2. S \in SUBSET grids
    BY <1>a
  <2>3. QED
    BY <2>1, <2>2 DEF Rooted
<1>7. Told'
  <2>1. <<from, t>> \in Left(from, t) /\ (t \in sel[from] => <<from, Chosen>> \in Left(from, t))
    BY DEF Left, Thing
  <2>2. ASSUME NEW d \in MonthDoors, <<Trash, d>> \notin Left(from, t) PROVE d \in MonthDoors'
    <3>1. d \in Live /\ tiles[d].grid = Trash
      BY DEF MonthDoors, On
    <3>2. d \notin gone
      BY <1>g, <1>o, <2>1, <2>2, <3>1, Given
    <3>3. d \in Live' /\ tiles'[d] = tiles[d]
      BY <1>f, <1>g, <3>1, <3>2
    <3>4. QED
      BY <3>3 DEF MonthDoors, On
  <2>3. ASSUME NEW u \in Changes PROVE u \in Left(from, t) \/ u[1] \notin grids'
    <3>1. ASSUME NEW s \in TileIds, tiles'[s] # tiles[s], u = <<tiles[s].grid, s>>, tiles[s].grid \in grids'
          PROVE  u \in Left(from, t)
      BY <1>a, <1>f, <1>g, <2>1, <3>1
    <3>2. ASSUME NEW s \in TileIds, tiles'[s] # tiles[s], tiles'[s].grid \in grids
          PROVE  FALSE
      BY <1>f, <3>2, Given DEF Types, Nowhere
    <3>3. ASSUME NEW g \in grids, sel'[g] # sel[g], u = <<g, Chosen>>, g \notin doomed
          PROVE  u \in Left(from, t)
      <4>1. t \notin sel[from] => sel[from] \ {t} = sel[from]
        OBVIOUS
      <4>2. g \in GridIds
        BY DEF Types
      <4>3. g = from /\ t \in sel[from]
        BY <1>s, <3>3, <4>1, <4>2
      <4>4. QED
        BY <2>1, <3>3, <4>3
    <3>4. QED
      BY <1>a, <3>1, <3>2, <3>3, ChangesAre
  <2>4. QED
    BY <1>a, <2>2, <2>3, TellsAll
<1>8. QED
  BY <1>1, <1>2, <1>3, <1>4, <1>5, <1>6, <1>7
-----------------------------------------------------------------------------
\* A selection of what is on its grid.
LEMMA SelectKeeps ==
    ASSUME Inv, NEW set \in [GridIds -> SUBSET TileIds], Select(set),
           \A g \in GridIds : set[g] \subseteq On(g) /\ (g \notin grids => set[g] = {})
    PROVE  Inv'
<1> USE DEF Inv
<1>a. sel' = set /\ UNCHANGED <<tiles, grids, refs, nextTile, nextGrid>>
      /\ Tell({<<g, Chosen>> : g \in {h \in grids : set[h] # sel[h]}})
  BY DEF Select, Thing
<1>l. Live' = Live
  BY <1>a DEF Live
<1>1. Types' /\ Fresh'
  BY <1>a, <1>l DEF Types, Fresh
<1>2. OwnedOnce'
  BY <1>a, <1>l DEF OwnedOnce, Doors, Roots
<1>3. Selected'
  BY <1>a, <1>l DEF Selected, SelectionOnGrid, On
<1>4. Counted'
  BY <1>a, <1>l DEF Counted, RefsExact, Naming
<1>5. Rooted'
  BY <1>a, <1>l DEF Rooted, Open, Doors, Roots
<1>6. Told'
  <2> DEFINE things == {<<g, Chosen>> : g \in {h \in grids : set[h] # sel[h]}}
  <2>1. MonthDoors' = MonthDoors
    BY <1>a, <1>l DEF MonthDoors, On
  <2>2. ASSUME NEW u \in Changes PROVE u \in things
    BY <1>a, ChangesAre
  <2>3. QED
    BY <1>a, <2>1, <2>2, TellsAll
<1>7. QED
  BY <1>1, <1>2, <1>3, <1>4, <1>5, <1>6

\* A month's first delete makes the month's grid, its door in the trash, and
\* moves the tile there.
LEMMA NewMonthKeeps ==
    ASSUME Inv, NEW t \in Live, MoveToNewMonth(t)
    PROVE  Inv'
<1> USE DEF Inv
<1> DEFINE n == nextTile
           month == nextGrid
           from == tiles[t].grid
           door == Row(Trash, FreeCell(Trash), "door", month, NoBlob, Month)
           row == Moved(t, month, 0)
           k == tiles[t].child
<1>a. /\ MonthDoors = {} /\ n \in TileIds /\ month \in GridIds
      /\ grids' = grids \cup {month} /\ nextGrid' = nextGrid + 1 /\ nextTile' = n + 1
      /\ tiles' = [[tiles EXCEPT ![n] = door] EXCEPT ![t] = row]
      /\ sel' = LeaveSelection(sel, from, t) /\ UNCHANGED refs
      /\ Tell(Left(from, t) \cup {<<month, t>>})
  BY DEF MoveToNewMonth, MintGrid, Filed, Moved, Thing
<1>m. Shape(row) /\ row.grid = month /\ row.kind = tiles[t].kind /\ row.child = k
      /\ row.blob = tiles[t].blob
  <2>1. Types /\ 0 \in Nat
    OBVIOUS
  <2>2. QED
    BY <1>a, <2>1, MovedRow
<1>b. /\ Shape(door) /\ door.grid = Trash /\ door.kind = "door" /\ door.child = month
      /\ door.blob = NoBlob /\ door.name = Month
  <2>1. FreeCell(Trash) \in Nat
    BY CellIsFree, Given DEF Types
  <2>2. Trash # Nowhere /\ month # Nowhere /\ Trash \in GridIds
    BY <1>a, Given DEF Nowhere
  <2>3. QED
    BY <1>a, <2>1, <2>2 DEF Row, Shape, Rows, Kinds
<1>n. n \notin Live /\ n # t /\ month \notin grids /\ t \in TileIds /\ Live \subseteq TileIds
      /\ from \in grids /\ \A r \in Roots : r # month
  BY <1>a DEF Fresh, Types, Live, OwnedOnce
<1>x. n \in Nat \ {0} /\ month \in Nat \ {0}
  BY DEF Types
<1> HIDE DEF door, row, n, month
<1>f. /\ tiles' \in [TileIds -> Rows] /\ tiles'[n] = door /\ tiles'[t] = row
      /\ \A s \in TileIds : s # n /\ s # t => tiles'[s] = tiles[s]
  BY <1>a, <1>b, <1>m, <1>n DEF Types, Shape
<1>l. Live' = Live \cup {n}
  BY <1>a, <1>f, <1>b, <1>m, <1>n DEF Live, Shape
<1>s. /\ \A s \in Live : tiles'[s].kind = tiles[s].kind /\ tiles'[s].child = tiles[s].child
                         /\ tiles'[s].blob = tiles[s].blob
      /\ \A s \in Live : s # t => tiles'[s] = tiles[s]
  BY <1>f, <1>m, <1>n
<1>d. /\ \A d \in Doors' : d \in Doors \/ d = n
      /\ Doors \subseteq Doors' /\ n \in Doors' /\ Doors \subseteq Live
  BY <1>f, <1>l, <1>s, <1>b DEF Doors
<1>1. Types'
  <2>1. \A s \in Live' : Shape(tiles'[s])
    BY <1>l, <1>f, <1>s, <1>m, <1>b DEF Types
  <2>2. nextTile' \in Nat \ {0} /\ nextGrid' \in Nat \ {0}
    BY <1>a, <1>x DEF month
  <2>3. grids' \subseteq GridIds /\ Roots \subseteq grids'
    BY <1>a DEF Types
  <2>4. QED
    BY <1>f, <2>1, <2>2, <2>3 DEF Types, Roots
<1>2. Fresh'
  <2>1. \A s \in Live : s \in Nat /\ s < n
    BY <1>n, Given DEF Fresh, n
  <2>2. \A g \in grids : g \in Nat /\ g < month
    BY Given DEF Fresh, Types, month
  <2>3. QED
    BY <1>a, <1>l, <1>x, <2>1, <2>2 DEF Fresh, month
<1>3. OwnedOnce'
  <2>1. \A s \in Live' : tiles'[s].grid \in grids'
    <3>1. Trash \in grids
      BY Given DEF Types
    <3>2. tiles'[n].grid \in grids' /\ tiles'[t].grid \in grids'
      BY <1>a, <1>f, <1>m, <1>b, <3>1
    <3>3. \A s \in Live : s # t => tiles'[s].grid \in grids'
      <4>1. \A s \in Live : tiles[s].grid \in grids
        BY DEF OwnedOnce
      <4>2. grids \subseteq grids'
        BY <1>a
      <4>3. QED
        BY <1>s, <4>1, <4>2
    <3>4. QED
      BY <1>l, <3>2, <3>3
  <2>2. \A d \in Doors' : tiles'[d].child \in grids' \ Roots
    BY <1>a, <1>d, <1>f, <1>s, <1>b, <1>n DEF OwnedOnce
  <2>3. ASSUME NEW d \in Doors', NEW e \in Doors', tiles'[d].child = tiles'[e].child PROVE d = e
    BY <2>3, <1>d, <1>f, <1>s, <1>b, <1>n DEF OwnedOnce
  <2>4. QED
    BY <2>1, <2>2, <2>3 DEF OwnedOnce, Roots
<1>e. /\ sel' \in [GridIds -> SUBSET TileIds]
      /\ \A h \in GridIds : sel'[h] = IF h = from THEN sel[h] \ {t} ELSE sel[h]
      /\ \A h \in grids : sel'[h] # sel[h] => <<h, Chosen>> \in Left(from, t)
      /\ <<from, t>> \in Left(from, t)
  <2>1. Selected /\ grids \subseteq GridIds
    BY DEF Types
  <2> HIDE DEF from
  <2>2. QED
    BY <1>a, <1>n, <2>1, LeavingTells
<1>4. Selected'
  <2>1. \A h \in GridIds : On(h) \ {t} \subseteq On(h)' /\ (h # from => t \notin On(h))
    BY <1>l, <1>s DEF On
  <2>2. ASSUME NEW h \in GridIds PROVE sel'[h] \subseteq On(h)'
    BY <1>e, <2>1 DEF Selected, SelectionOnGrid
  <2>3. ASSUME NEW h \in GridIds, h \notin grids' PROVE sel'[h] = {}
    BY <1>a, <1>e, <2>3 DEF Selected, SelectionOnGrid
  <2>4. QED
    BY <1>e, <2>2, <2>3 DEF Selected, SelectionOnGrid
<1>5. Counted'
  <2>1. ASSUME NEW b \in Blobs PROVE Naming(b)' = Naming(b)
    BY <1>l, <1>s, <1>f, <1>b, Given DEF Naming
  <2>2. QED
    BY <1>a, <2>1 DEF Counted, RefsExact
<1>6. Rooted'
  <2> SUFFICES ASSUME NEW S \in SUBSET grids', S # {}, Open(S)' PROVE S \cap Roots # {}
    BY DEF Rooted, Roots
  <2>1. CASE month \in S
    <3>1. Trash \in S
      BY <1>d, <1>f, <1>b, <2>1 DEF Open
    <3>2. QED
      BY <3>1, Given
  <2>2. CASE month \notin S
    <3>1. Open(S)
      <4> SUFFICES ASSUME NEW d \in Doors, tiles[d].child \in S PROVE tiles[d].grid \in S
        BY DEF Open
      <4>1. tiles'[d].grid \in S
        BY <1>d, <1>s DEF Open
      <4>2. d # t
        BY <1>f, <1>m, <2>2, <4>1
      <4>3. QED
        BY <1>d, <1>s, <4>1, <4>2
    <3>2. S \in SUBSET grids
      BY <1>a, <2>2
    <3>3. QED
      BY <3>1, <3>2 DEF Rooted
  <2>3. QED
    BY <2>1, <2>2
<1>7. Told'
  <2>1. n \in MonthDoors'
    BY <1>f, <1>l, <1>b DEF MonthDoors, On
  <2>2. ASSUME NEW u \in Changes
        PROVE  \/ u \in Left(from, t) \cup {<<month, t>>}
               \/ u[1] \notin grids'
               \/ \E d \in MonthDoors' : u = <<Trash, d>>
    <3>1. ASSUME NEW s \in TileIds, tiles'[s] # tiles[s], u = <<tiles[s].grid, s>>, tiles[s].grid \in grids'
          PROVE  u \in Left(from, t)
      <4>1. s = n \/ s = t
        BY <1>f, <3>1
      <4>2. tiles[n].grid = Nowhere
        BY <1>a, <1>n DEF Live
      <4>3. Nowhere \notin grids'
        BY <1>1, Given DEF Types, Nowhere
      <4>4. QED
        BY <1>e, <3>1, <4>1, <4>2, <4>3
    <3>2. ASSUME NEW s \in TileIds, tiles'[s] # tiles[s], u = <<tiles'[s].grid, s>>
          PROVE  u = <<Trash, n>> \/ u = <<month, t>>
      BY <1>f, <1>m, <1>b, <3>2
    <3>3. QED
      BY <1>e, <2>1, <3>1, <3>2, ChangesAre
  <2>3. QED
    BY <1>a, <2>2, TellsAll
<1>8. QED
  BY <1>1, <1>2, <1>3, <1>4, <1>5, <1>6, <1>7
-----------------------------------------------------------------------------
\* ORDER BY id gives each of n rows its own place below n.
LEMMA RankHolds ==
    ASSUME NEW S \in SUBSET Nat, IsFiniteSet(S)
    PROVE  /\ Cardinality(S) \in Nat
           /\ \A x \in S : Rank(x, S) \in Nat /\ Rank(x, S) < Cardinality(S)
           /\ \A x, y \in S : Rank(x, S) = Rank(y, S) => x = y
<1> DEFINE B(x) == {z \in S : z < x}
<1>1. Cardinality(S) \in Nat
  BY FS_CardinalityType
<1>2. ASSUME NEW x \in S
      PROVE  IsFiniteSet(B(x)) /\ Cardinality(B(x)) \in Nat /\ Cardinality(B(x)) < Cardinality(S)
  <2>1. B(x) \in SUBSET (S \ {x})
    OBVIOUS
  <2>2. IsFiniteSet(S \ {x}) /\ Cardinality(S \ {x}) = Cardinality(S) - 1
    BY FS_RemoveElement
  <2> HIDE DEF B
  <2>3. IsFiniteSet(B(x)) /\ Cardinality(B(x)) <= Cardinality(S \ {x})
    BY <2>1, <2>2, FS_Subset
  <2>4. Cardinality(B(x)) \in Nat
    BY <2>3, FS_CardinalityType
  <2>5. QED
    BY <1>1, <2>2, <2>3, <2>4
<1>3. ASSUME NEW x \in S, NEW y \in S, x < y PROVE Cardinality(B(x)) < Cardinality(B(y))
  <2>1. B(x) \cup {x} \in SUBSET B(y) /\ x \notin B(x)
    <3>1. x \in Nat /\ y \in Nat /\ ~(x < x)
      OBVIOUS
    <3>2. \A z \in S : z < x => z < y
      BY <1>3, <3>1
    <3>3. QED
      BY <1>3, <3>1, <3>2
  <2> HIDE DEF B
  <2>2. Cardinality(B(x) \cup {x}) = Cardinality(B(x)) + 1
    BY <1>2, <2>1, FS_AddElement
  <2>3. Cardinality(B(x) \cup {x}) <= Cardinality(B(y))
    BY <1>2, <2>1, FS_Subset
  <2>4. QED
    BY <1>2, <2>2, <2>3
<1>4. \A x : Rank(x, S) = Cardinality(B(x))
  BY DEF Rank
<1> HIDE DEF B
<1>5. ASSUME NEW x \in S, NEW y \in S, Rank(x, S) = Rank(y, S) PROVE x = y
  <2>1. ~(x < y) /\ ~(y < x)
    BY <1>2, <1>3, <1>4, <1>5
  <2>2. QED
    BY <2>1
<1>6. QED
  BY <1>1, <1>2, <1>4, <1>5

Inner(t) == {s \in Live : tiles[s].grid \in Owned(t)}

(* A copy: new ids for the rows in what t owns and for the grids, and rows *)
(* that differ from the ones copied in place and child only.               *)
Copies(t, g, c, nt, ng, top) ==
    /\ nt \in [Inner(t) -> TileIds] /\ ng \in [Owned(t) -> GridIds]
    /\ top \in TileIds /\ nextTile' = top + 1 /\ nextTile <= top
    /\ \A s \in Inner(t) : nextTile <= nt[s] /\ nt[s] < top
    /\ \A r, s \in Inner(t) : nt[r] = nt[s] => r = s
    /\ nextGrid' \in Nat \ {0} /\ nextGrid <= nextGrid'
    /\ \A h \in Owned(t) : nextGrid <= ng[h] /\ ng[h] < nextGrid'
    /\ \A h, i \in Owned(t) : ng[h] = ng[i] => h = i
    /\ grids' = grids \cup {ng[h] : h \in Owned(t)}
    /\ tiles' \in [TileIds -> Rows]
    /\ \A s \in TileIds : s # top /\ (\A r \in Inner(t) : s # nt[r]) => tiles'[s] = tiles[s]
    /\ \A s \in Inner(t) :
          /\ Shape(tiles'[nt[s]])
          /\ tiles'[nt[s]].grid = ng[tiles[s].grid]
          /\ tiles'[nt[s]].kind = tiles[s].kind /\ tiles'[nt[s]].blob = tiles[s].blob
          /\ tiles[s].kind = "door" => tiles[s].child \in Owned(t)
                                       /\ tiles'[nt[s]].child = ng[tiles[s].child]
    /\ Shape(tiles'[top]) /\ tiles'[top].grid = g
    /\ tiles'[top].kind = tiles[t].kind /\ tiles'[top].blob = tiles[t].blob
    /\ tiles[t].kind = "door" => tiles[t].child \in Owned(t) /\ tiles'[top].child = ng[tiles[t].child]

\* A row copied to a place that is one, with the copy of what it owned.
LEMMA CopiedRow ==
    ASSUME NEW old, Shape(old), NEW g \in GridIds, NEW c \in Nat, NEW child,
           old.kind = "door" => child \in GridIds,
           old.kind # "door" => child = Nowhere,
           NEW row, row = CopyRow(old, g, c, child)
    PROVE  /\ Shape(row) /\ row.grid = g /\ row.kind = old.kind /\ row.blob = old.blob
           /\ row.child = child
<1>1. old \in Rows
  BY DEF Shape
<1>2. child \in GridIds \cup {Nowhere} /\ g # Nowhere /\ (child # Nowhere <=> old.kind = "door")
  BY Given DEF Nowhere
<1>3. row = [old EXCEPT !.grid = g, !.cell = c, !.child = child]
  BY DEF CopyRow
<1>4. /\ row.grid = g /\ row.kind = old.kind /\ row.blob = old.blob /\ row.child = child
  BY <1>1, <1>3 DEF Rows
<1>5. row \in Rows
  BY <1>1, <1>2, <1>3 DEF Rows
<1>6. QED
  BY <1>2, <1>4, <1>5 DEF Shape

\* The ids a copy hands out, by rank from the next one, are such a renaming.
LEMMA CopyFacts ==
    ASSUME Inv, NEW t \in Live, NEW g \in grids, NEW c \in Nat, CopyTile(t, g, c)
    PROVE  \E nt, ng, top : Copies(t, g, c, nt, ng, top)
<1> USE DEF Inv
<1> DEFINE under == Owned(t)
           inner == {s \in Live : tiles[s].grid \in under}
           top == nextTile + Cardinality(inner)
           NewGrid(h) == nextGrid + Rank(h, under)
           NewTile(s) == nextTile + Rank(s, inner)
           Child(s)   == IF tiles[s].kind = "door" THEN NewGrid(tiles[s].child) ELSE Nowhere
           copied  == {NewTile(s) : s \in inner}
           minted  == {NewGrid(h) : h \in under}
           topRow  == CopyRow(tiles[t], g, c, Child(t))
           Copied(i) == LET s == CHOOSE s \in inner : NewTile(s) = i
                        IN  CopyRow(tiles[s], NewGrid(tiles[s].grid), tiles[s].cell, Child(s))
           rows    == [i \in TileIds |-> IF i = top THEN topRow
                                         ELSE IF i \in copied THEN Copied(i) ELSE tiles[i]]
<1>a. /\ copied \cup {top} \subseteq TileIds /\ minted \subseteq GridIds
      /\ tiles' = rows
      /\ grids' = grids \cup minted
      /\ nextTile' = top + 1
      /\ nextGrid' = nextGrid + Cardinality(under)
  BY DEF CopyTile
<1>o. /\ under \subseteq grids
      /\ \A d \in Doors : tiles[d].grid \in under => tiles[d].child \in under
      /\ tiles[t].kind = "door" => tiles[t].child \in under
  BY OwnedHolds
<1>i. inner = Inner(t) /\ inner \subseteq Live /\ \A s \in inner : tiles[s].grid \in under
  BY DEF Inner
<1>n. nextTile \in Nat \ {0} /\ nextGrid \in Nat \ {0}
  BY DEF Types
<1>t. /\ Cardinality(inner) \in Nat
      /\ \A s \in inner : NewTile(s) \in Nat /\ nextTile <= NewTile(s) /\ NewTile(s) < top
      /\ \A r, s \in inner : NewTile(r) = NewTile(s) => r = s
  <2>1. inner \in SUBSET TileIds /\ TileIds \subseteq Nat
    BY Given DEF Live
  <2>2. IsFiniteSet(inner)
    BY <2>1, Given, FS_Subset
  <2>3. /\ Cardinality(inner) \in Nat
        /\ \A x \in inner : Rank(x, inner) \in Nat /\ Rank(x, inner) < Cardinality(inner)
        /\ \A x, y \in inner : Rank(x, inner) = Rank(y, inner) => x = y
    BY <2>1, <2>2, RankHolds
  <2> HIDE DEF inner
  <2>4. QED
    BY <1>n, <2>3
<1>g. /\ Cardinality(under) \in Nat
      /\ \A h \in under : NewGrid(h) \in Nat /\ nextGrid <= NewGrid(h) /\ NewGrid(h) < nextGrid + Cardinality(under)
      /\ \A h, i \in under : NewGrid(h) = NewGrid(i) => h = i
  <2>1. under \in SUBSET GridIds /\ GridIds \subseteq Nat
    BY <1>o, Given DEF Types
  <2>2. IsFiniteSet(under)
    BY <2>1, Given, FS_Subset
  <2>3. /\ Cardinality(under) \in Nat
        /\ \A x \in under : Rank(x, under) \in Nat /\ Rank(x, under) < Cardinality(under)
        /\ \A x, y \in under : Rank(x, under) = Rank(y, under) => x = y
    BY <2>1, <2>2, RankHolds
  <2> HIDE DEF under
  <2>4. QED
    BY <1>n, <2>3
<1>c. \A s \in inner : NewTile(s) \in TileIds /\ NewTile(s) # top /\ NewTile(s) \in copied
  <2>1. top \in Nat
    BY <1>n, <1>t
  <2> HIDE DEF top, NewTile, inner
  <2>2. QED
    BY <1>a, <1>t, <2>1
<1>m. \A h \in under : NewGrid(h) \in GridIds
  BY <1>a
<1>p. top \in TileIds /\ top \in Nat /\ nextTile <= top
  <2>1. top \in TileIds
    BY <1>a
  <2> HIDE DEF inner
  <2>2. QED
    BY <1>n, <1>t, <2>1
<1>q. \A s \in inner : tiles'[NewTile(s)]
                        = CopyRow(tiles[s], NewGrid(tiles[s].grid), tiles[s].cell, Child(s))
  <2> TAKE s \in inner
  <2>1. (CHOOSE r \in inner : NewTile(r) = NewTile(s)) = s
    <3> HIDE DEF NewTile, inner
    <3>1. QED
      BY <1>t
  <2>2. Copied(NewTile(s)) = CopyRow(tiles[s], NewGrid(tiles[s].grid), tiles[s].cell, Child(s))
    <3> DEFINE x == CHOOSE r \in inner : NewTile(r) = NewTile(s)
    <3>1. Copied(NewTile(s)) = CopyRow(tiles[x], NewGrid(tiles[x].grid), tiles[x].cell, Child(x))
      OBVIOUS
    <3>2. x = s
      BY <2>1
    <3> HIDE DEF x, NewGrid, Child, Copied
    <3>3. QED
      BY <3>1, <3>2
  <2> HIDE DEF NewTile, Copied, top, copied, inner, topRow
  <2>3. QED
    BY <1>a, <1>c, <2>2
<1>r. tiles'[top] = topRow
  <2> HIDE DEF top, topRow, copied, Copied
  <2>1. QED
    BY <1>a, <1>p
<1>s. \A i \in TileIds : i # top /\ (\A s \in inner : i # NewTile(s)) => tiles'[i] = tiles[i]
  <2> HIDE DEF top, topRow, Copied, NewTile, inner
  <2>1. QED
    BY <1>a
<1>x. \A s \in Live : /\ Shape(tiles[s]) /\ tiles[s].cell \in Nat
                      /\ tiles[s].grid \in grids
                      /\ tiles[s].kind = "door" => s \in Doors
  BY DEF Types, Shape, Rows, OwnedOnce, Doors
<1>h. \A s \in inner : tiles[s].kind = "door" => tiles[s].child \in under
  BY <1>i, <1>o, <1>x
<1> HIDE DEF under, NewGrid, NewTile, inner, top
<1>y. ASSUME NEW s \in inner
      PROVE  /\ Shape(tiles'[NewTile(s)])
             /\ tiles'[NewTile(s)].grid = NewGrid(tiles[s].grid)
             /\ tiles'[NewTile(s)].kind = tiles[s].kind /\ tiles'[NewTile(s)].blob = tiles[s].blob
             /\ tiles[s].kind = "door" => tiles[s].child \in under
                                          /\ tiles'[NewTile(s)].child = NewGrid(tiles[s].child)
  <2>1. Shape(tiles[s]) /\ NewGrid(tiles[s].grid) \in GridIds /\ tiles[s].cell \in Nat
    BY <1>i, <1>m, <1>x
  <2>2. (tiles[s].kind = "door" => Child(s) \in GridIds) /\ (tiles[s].kind # "door" => Child(s) = Nowhere)
        /\ (tiles[s].kind = "door" => Child(s) = NewGrid(tiles[s].child))
    BY <1>h, <1>m
  <2> HIDE DEF Child
  <2>3. QED
    BY <1>h, <1>q, <2>1, <2>2, CopiedRow
<1>z. /\ Shape(tiles'[top]) /\ tiles'[top].grid = g
      /\ tiles'[top].kind = tiles[t].kind /\ tiles'[top].blob = tiles[t].blob
      /\ tiles[t].kind = "door" => tiles[t].child \in under /\ tiles'[top].child = NewGrid(tiles[t].child)
  <2>1. Shape(tiles[t]) /\ g \in GridIds
    BY <1>x DEF Types
  <2>2. (tiles[t].kind = "door" => Child(t) \in GridIds) /\ (tiles[t].kind # "door" => Child(t) = Nowhere)
        /\ (tiles[t].kind = "door" => Child(t) = NewGrid(tiles[t].child))
    BY <1>o, <1>m DEF under
  <2>3. tiles'[top] = CopyRow(tiles[t], g, c, Child(t))
    BY <1>r
  <2> HIDE DEF Child, topRow
  <2>4. QED
    BY <1>o, <2>1, <2>2, <2>3, CopiedRow DEF under
<1>w. tiles' \in [TileIds -> Rows]
  <2>1. ASSUME NEW i \in TileIds PROVE tiles'[i] \in Rows
    <3>1. CASE i = top
      BY <1>z, <3>1 DEF Shape
    <3>2. CASE \E s \in inner : i = NewTile(s)
      BY <1>y, <3>2 DEF Shape
    <3>3. CASE i # top /\ \A s \in inner : i # NewTile(s)
      BY <1>s, <3>3 DEF Types
    <3>4. QED
      BY <3>1, <3>2, <3>3
  <2>2. \E f : tiles' = [i \in TileIds |-> f[i]]
    <3>1. tiles' = [i \in TileIds |-> rows[i]]
      BY <1>a
    <3>2. QED
      BY <3>1
  <2>3. QED
    BY <2>1, <2>2
<1> DEFINE nt == [s \in inner |-> NewTile(s)]
           ng == [h \in under |-> NewGrid(h)]
<1>b. nt \in [inner -> TileIds] /\ (\A s \in inner : nt[s] = NewTile(s))
      /\ ng \in [under -> GridIds] /\ (\A h \in under : ng[h] = NewGrid(h))
  BY <1>c, <1>m
<1>d. \A s \in inner : ng[tiles[s].grid] = NewGrid(tiles[s].grid)
                       /\ (tiles[s].kind = "door" => ng[tiles[s].child] = NewGrid(tiles[s].child))
  BY <1>b, <1>h, <1>i
<1>e. nextGrid' \in Nat \ {0} /\ nextGrid <= nextGrid'
  BY <1>a, <1>n, <1>g
<1>f. grids' = grids \cup {ng[h] : h \in under}
  BY <1>a, <1>b
<1>j. tiles[t].kind = "door" => ng[tiles[t].child] = NewGrid(tiles[t].child)
  BY <1>b, <1>z
<1> HIDE DEF nt, ng
<1>k. /\ \A s \in inner : nextTile <= nt[s] /\ nt[s] < top
      /\ \A r, s \in inner : nt[r] = nt[s] => r = s
      /\ \A h \in under : nextGrid <= ng[h] /\ ng[h] < nextGrid'
      /\ \A h, i \in under : ng[h] = ng[i] => h = i
  BY <1>a, <1>b, <1>t, <1>g
<1>l. \A s \in TileIds : s # top /\ (\A r \in inner : s # nt[r]) => tiles'[s] = tiles[s]
  BY <1>b, <1>s
<1>u. \A s \in inner :
          /\ Shape(tiles'[nt[s]])
          /\ tiles'[nt[s]].grid = ng[tiles[s].grid]
          /\ tiles'[nt[s]].kind = tiles[s].kind /\ tiles'[nt[s]].blob = tiles[s].blob
          /\ tiles[s].kind = "door" => tiles[s].child \in under
                                       /\ tiles'[nt[s]].child = ng[tiles[s].child]
  BY <1>b, <1>d, <1>y
<1>v. Copies(t, g, c, nt, ng, top)
  <2>1. inner = Inner(t) /\ under = Owned(t)
    BY <1>i DEF under
  <2>2. nextTile' = top + 1
    BY <1>a
  <2>3. QED
    BY <1>b, <1>e, <1>f, <1>j, <1>k, <1>l, <1>p, <1>u, <1>w, <1>z, <2>1, <2>2 DEF Copies
<1>0. QED
  BY <1>v

\* The copy owns what is its own, and counts once more for each blob.
LEMMA CopyKeeps ==
    ASSUME Inv, NEW t \in Live, NEW g \in grids, NEW c \in Nat, CopyTile(t, g, c)
    PROVE  Inv'
<1> USE DEF Inv
<1>1. PICK nt, ng, top : Copies(t, g, c, nt, ng, top)
  BY CopyFacts
<1> DEFINE inner == Inner(t)
           under == Owned(t)
           new == {nt[s] : s \in inner} \cup {top}
<1>2. /\ nt \in [inner -> TileIds] /\ ng \in [under -> GridIds]
      /\ top \in TileIds /\ nextTile' = top + 1 /\ nextTile <= top
      /\ \A s \in inner : nextTile <= nt[s] /\ nt[s] < top
      /\ \A r, s \in inner : nt[r] = nt[s] => r = s
  BY <1>1 DEF Copies
<1>3. /\ nextGrid' \in Nat \ {0} /\ nextGrid <= nextGrid'
      /\ \A h \in under : nextGrid <= ng[h] /\ ng[h] < nextGrid'
      /\ \A h, i \in under : ng[h] = ng[i] => h = i
      /\ grids' = grids \cup {ng[h] : h \in under}
  BY <1>1 DEF Copies
<1>4. /\ tiles' \in [TileIds -> Rows]
      /\ \A s \in TileIds \ new : tiles'[s] = tiles[s]
      /\ \A s \in inner :
            /\ Shape(tiles'[nt[s]])
            /\ tiles'[nt[s]].grid = ng[tiles[s].grid]
            /\ tiles'[nt[s]].kind = tiles[s].kind /\ tiles'[nt[s]].blob = tiles[s].blob
            /\ tiles[s].kind = "door" => tiles[s].child \in under
                                         /\ tiles'[nt[s]].child = ng[tiles[s].child]
  BY <1>1 DEF Copies
<1>5. /\ Shape(tiles'[top]) /\ tiles'[top].grid = g
      /\ tiles'[top].kind = tiles[t].kind /\ tiles'[top].blob = tiles[t].blob
      /\ tiles[t].kind = "door" => tiles[t].child \in under /\ tiles'[top].child = ng[tiles[t].child]
  BY <1>1 DEF Copies
<1>6. UNCHANGED sel /\ Tell({<<g, top>>})
      /\ refs' = [b \in Blobs |-> refs[b] +
                    Cardinality({s \in inner : tiles[s].blob = b}) + (IF tiles[t].blob = b THEN 1 ELSE 0)]
  <2>1. top + 1 = nextTile + Cardinality(inner) + 1
    BY <1>2 DEF CopyTile, Inner
  <2>2. Cardinality(inner) \in Nat
    <3>1. inner \in SUBSET TileIds
      BY DEF Inner, Live
    <3>2. QED
      BY <3>1, Given, FS_Subset, FS_CardinalityType
  <2>3. top = nextTile + Cardinality(inner)
    BY <1>2, <2>1, <2>2, Given DEF Types
  <2>4. UNCHANGED sel /\ Tell({Thing(g, nextTile + Cardinality(inner))})
        /\ refs' = [b \in Blobs |-> refs[b] +
                      Cardinality({s \in inner : tiles[s].blob = b}) + (IF tiles[t].blob = b THEN 1 ELSE 0)]
    BY DEF CopyTile, Inner
  <2>5. QED
    BY <2>3, <2>4 DEF Thing
<1>7. inner \subseteq Live /\ Live \subseteq TileIds /\ (\A s \in inner : tiles[s].grid \in under)
      /\ \A s \in Live : tiles[s].grid \in under => s \in inner
  BY DEF Inner, Live
<1>o. /\ under \subseteq grids \ Roots
      /\ tiles[t].kind = "door" => tiles[t].child \in under
      /\ \A d \in Doors : tiles[d].child \in under => d = t \/ tiles[d].grid \in under
  BY OwnedHolds
<1>8. top \notin Live /\ \A s \in inner : nt[s] \notin Live /\ nt[s] # top
  <2>1. \A s \in Live : s \in Nat /\ s < nextTile
    BY <1>7, Given DEF Fresh
  <2>2. nextTile \in Nat /\ top \in Nat /\ \A s \in inner : nt[s] \in Nat
    BY <1>2, Given DEF Types
  <2> HIDE DEF inner
  <2>3. QED
    BY <1>2, <2>1, <2>2
<1>9. \A h \in under : ng[h] \notin grids /\ ng[h] \in GridIds
  <2>1. \A h \in grids : h \in Nat /\ h < nextGrid
    BY Given DEF Fresh, Types
  <2>2. nextGrid \in Nat /\ \A h \in under : ng[h] \in Nat /\ ng[h] \in GridIds
    BY <1>2, Given DEF Types
  <2> HIDE DEF under
  <2>3. QED
    BY <1>3, <2>1, <2>2
<1> HIDE DEF inner, under
<1>n. new \subseteq TileIds /\ new \cap Live = {}
  BY <1>2, <1>8
<1>l. Live' = Live \cup new
  <2>1. \A s \in new : tiles'[s].grid # Nowhere
    BY <1>4, <1>5 DEF Shape
  <2> HIDE DEF new
  <2>2. QED
    BY <1>4, <1>7, <1>n, <2>1 DEF Live
<1>s. \A s \in Live : s \notin new /\ tiles'[s] = tiles[s]
  <2> HIDE DEF new
  <2>1. QED
    BY <1>4, <1>7, <1>n
<1>d. Doors \subseteq Live /\ Doors \subseteq Doors'
      /\ \A d \in Doors' : \/ d \in Doors
                           \/ d = top /\ tiles[t].kind = "door"
                           \/ \E s \in inner : d = nt[s] /\ s \in Doors
  BY <1>4, <1>5, <1>7, <1>l, <1>s DEF Doors
<1>A1. Types'
  <2>1. \A s \in Live' : Shape(tiles'[s])
    BY <1>l, <1>s, <1>4, <1>5 DEF Types
  <2>2. grids' \subseteq GridIds /\ Roots \subseteq grids'
    BY <1>3, <1>9 DEF Types
  <2>3. nextTile' \in Nat \ {0}
    BY <1>2, Given DEF Types
  <2>4. QED
    BY <1>3, <1>4, <2>1, <2>2, <2>3 DEF Types, Roots
<1>A2. Fresh'
  <2>1. \A s \in Live : s \in Nat /\ s < nextTile
    BY <1>7, Given DEF Fresh
  <2>2. nextTile \in Nat /\ top \in Nat /\ \A s \in inner : nt[s] \in Nat
    BY <1>2, Given DEF Types
  <2>3. \A s \in Live' : s < nextTile'
    BY <1>2, <1>l, <2>1, <2>2
  <2>4. \A h \in grids : h \in Nat /\ h < nextGrid
    BY Given DEF Fresh, Types
  <2>5. nextGrid \in Nat
    BY DEF Types
  <2>6. \A h \in grids' : h < nextGrid'
    BY <1>3, <2>4, <2>5
  <2>7. QED
    BY <2>3, <2>6 DEF Fresh
<1>r. \A h \in under : ng[h] \notin Roots
  BY <1>9 DEF Types
<1>A3. OwnedOnce'
  <2>1. \A s \in Live' : tiles'[s].grid \in grids'
    <3>1. \A s \in Live : tiles'[s].grid \in grids'
      BY <1>3, <1>s DEF OwnedOnce
    <3>2. tiles'[top].grid \in grids' /\ \A s \in inner : tiles'[nt[s]].grid \in grids'
      BY <1>3, <1>4, <1>5, <1>7
    <3>3. QED
      BY <1>l, <3>1, <3>2
  <2>2. \A d \in Doors : tiles'[d].child = tiles[d].child /\ tiles[d].child \in grids \ Roots
    BY <1>d, <1>s DEF OwnedOnce
  <2>3. \A s \in inner : s \in Doors => tiles'[nt[s]].child = ng[tiles[s].child] /\ tiles[s].child \in under
    BY <1>4 DEF Doors
  <2>4. tiles[t].kind = "door" => tiles'[top].child = ng[tiles[t].child] /\ tiles[t].child \in under
                                  /\ t \in Doors /\ t \notin inner
    <3>1. t \notin inner
      BY <1>7, OwnedHolds DEF under
    <3>2. QED
      BY <1>5, <3>1 DEF Doors
  <2>5. \A d \in Doors' : tiles'[d].child \in grids' \ Roots
    BY <1>3, <1>d, <1>r, <2>2, <2>3, <2>4
  <2>6. ASSUME NEW d \in Doors', NEW e \in Doors', tiles'[d].child = tiles'[e].child PROVE d = e
    <3>1. CASE d \in Doors
      <4>1. e \in Doors
        BY <1>9, <1>d, <2>2, <2>3, <2>4, <2>6, <3>1
      <4>2. QED
        BY <2>2, <2>6, <3>1, <4>1 DEF OwnedOnce
    <3>2. CASE d = top /\ tiles[t].kind = "door"
      <4>1. e \notin Doors
        BY <1>9, <2>2, <2>4, <2>6, <3>2
      <4>2. ASSUME NEW s \in inner, e = nt[s], s \in Doors PROVE FALSE
        <5>1. tiles[s].child = tiles[t].child
          BY <1>3, <2>3, <2>4, <2>6, <3>2, <4>2
        <5>2. QED
          BY <2>4, <3>2, <4>2, <5>1 DEF OwnedOnce
      <4>3. QED
        BY <1>d, <3>2, <4>1, <4>2
    <3>3. ASSUME NEW s \in inner, d = nt[s], s \in Doors PROVE d = e
      <4>1. e \notin Doors
        BY <1>9, <2>2, <2>3, <2>6, <3>3
      <4>2. ASSUME e = top, tiles[t].kind = "door" PROVE FALSE
        <5>1. tiles[s].child = tiles[t].child
          BY <1>3, <2>3, <2>4, <2>6, <3>3, <4>2
        <5>2. QED
          BY <2>4, <3>3, <4>2, <5>1 DEF OwnedOnce
      <4>3. ASSUME NEW r \in inner, e = nt[r], r \in Doors PROVE d = e
        <5>1. tiles[s].child = tiles[r].child
          BY <1>3, <2>3, <2>6, <3>3, <4>3
        <5>2. QED
          BY <3>3, <4>3, <5>1 DEF OwnedOnce
      <4>4. QED
        BY <1>d, <4>1, <4>2, <4>3
    <3>4. QED
      BY <1>d, <3>1, <3>2, <3>3
  <2>7. QED
    BY <2>1, <2>5, <2>6 DEF OwnedOnce, Roots
<1>A4. Selected'
  <2>1. \A h \in GridIds : On(h) \subseteq On(h)'
    BY <1>l, <1>s DEF On
  <2>2. \A h \in GridIds : h \notin grids' => h \notin grids
    BY <1>3
  <2>3. QED
    BY <1>6, <2>1, <2>2 DEF Selected, SelectionOnGrid
<1>A5. Counted'
  <2>1. ASSUME NEW b \in Blobs PROVE refs'[b] \in Int /\ refs'[b] = Cardinality(Naming(b)')
    <3> DEFINE I == {s \in inner : tiles[s].blob = b}
               J == {nt[s] : s \in I}
               N == Naming(b)
    <3>1. refs[b] = Cardinality(N) /\ IsFiniteSet(N) /\ Cardinality(N) \in Nat
      BY NamingIsFinite DEF Counted, RefsExact
    <3>2. Naming(b)' = (N \cup J) \cup (IF tiles[t].blob = b THEN {top} ELSE {})
      BY <1>4, <1>5, <1>l, <1>s DEF Naming
    <3>3. N \cap J = {} /\ top \notin N \cup J
      BY <1>8 DEF Naming
    <3>4. IsFiniteSet(J) /\ Cardinality(J) = Cardinality(I) /\ Cardinality(J) \in Nat
      <4>1. I \in SUBSET TileIds
        BY <1>7
      <4>2. IsFiniteSet(I)
        BY <4>1, Given, FS_Subset
      <4> DEFINE f == [s \in I |-> nt[s]]
      <4>3. f \in Bijection(I, J)
        <5>1. f \in [I -> J] /\ (\A r, s \in I : f[r] = f[s] => r = s) /\ \A j \in J : \E s \in I : f[s] = j
          BY <1>2
        <5> HIDE DEF f, J, I
        <5>2. QED
          BY <5>1 DEF Bijection, Injection, Surjection, IsInjective
      <4>4. ExistsBijection(I, J)
        BY <4>3 DEF ExistsBijection
      <4>5. QED
        BY <4>2, <4>4, FS_Bijection, FS_CardinalityType
    <3>5. refs'[b] = refs[b] + Cardinality(I) + (IF tiles[t].blob = b THEN 1 ELSE 0)
      BY <1>6
    <3> HIDE DEF I, J, N
    <3>6. IsFiniteSet(N \cup J) /\ Cardinality(N \cup J) = Cardinality(N) + Cardinality(J)
      <4>1. IsFiniteSet(N \cup J) /\ Cardinality(N \cup J) = Cardinality(N) + Cardinality(J) - Cardinality(N \cap J)
        BY <3>1, <3>4, FS_Union
      <4>2. Cardinality(N \cap J) = 0
        BY <3>3, FS_EmptySet
      <4>3. QED
        BY <3>1, <3>4, <4>1, <4>2
    <3>7. CASE tiles[t].blob = b
      <4>1. Naming(b)' = (N \cup J) \cup {top}
        BY <3>2, <3>7
      <4>2. Cardinality(Naming(b)') = Cardinality(N) + Cardinality(J) + 1
        BY <3>3, <3>6, <4>1, FS_AddElement
      <4>3. refs'[b] = refs[b] + Cardinality(I) + 1
        BY <3>5, <3>7
      <4>4. QED
        BY <3>1, <3>4, <4>2, <4>3
    <3>8. CASE tiles[t].blob # b
      <4>1. Naming(b)' = N \cup J
        BY <3>2, <3>8
      <4>2. refs'[b] = refs[b] + Cardinality(I) + 0
        BY <3>5, <3>8
      <4>3. QED
        BY <3>1, <3>4, <3>6, <4>1, <4>2
    <3>9. QED
      BY <3>7, <3>8
  <2>2. refs' \in [Blobs -> Int]
    BY <1>6, <2>1
  <2>3. QED
    BY <2>1, <2>2 DEF Counted, RefsExact
<1>A6. Rooted'
  <2> SUFFICES ASSUME NEW S \in SUBSET grids', S # {}, Open(S)' PROVE S \cap Roots # {}
    BY DEF Rooted, Roots
  <2>1. CASE S \cap grids # {}
    <3>1. Open(S \cap grids)
      <4> SUFFICES ASSUME NEW d \in Doors, tiles[d].child \in S \cap grids PROVE tiles[d].grid \in S \cap grids
        BY DEF Open
      <4>1. tiles[d].grid \in S
        BY <1>d, <1>s DEF Open
      <4>2. QED
        BY <1>d, <4>1 DEF OwnedOnce
    <3>2. QED
      BY <2>1, <3>1 DEF Rooted
  <2>2. CASE S \cap grids = {}
    <3> DEFINE W == {h \in under : ng[h] \in S}
    <3>1. W # {} /\ W \subseteq grids
      BY <1>3, <1>o, <2>2 DEF under
    <3>2. tiles[t].kind = "door" => tiles[t].child \notin W
      <4> SUFFICES ASSUME tiles[t].kind = "door", tiles[t].child \in W PROVE FALSE
        OBVIOUS
      <4>1. top \in Doors' /\ tiles'[top].child \in S
        BY <1>5, <1>l DEF Doors
      <4>2. g \in S
        BY <1>5, <4>1 DEF Open
      <4>3. QED
        BY <2>2, <4>2
    <3>3. Open(W)
      <4> SUFFICES ASSUME NEW d \in Doors, tiles[d].child \in W PROVE tiles[d].grid \in W
        BY DEF Open
      <4>1. d # t
        BY <3>2 DEF Doors
      <4>2. tiles[d].grid \in under
        BY <1>o, <4>1 DEF under
      <4>3. d \in inner /\ tiles[d].kind = "door"
        BY <1>7, <1>d, <4>2 DEF Doors
      <4>4. tiles'[nt[d]].child = ng[tiles[d].child] /\ tiles'[nt[d]].grid = ng[tiles[d].grid]
            /\ tiles'[nt[d]].kind = "door" /\ nt[d] \in Live'
        BY <1>4, <1>l, <4>3
      <4>5. nt[d] \in Doors'
        BY <4>4 DEF Doors
      <4>6. ng[tiles[d].grid] \in S
        BY <4>4, <4>5 DEF Open
      <4>7. QED
        BY <4>2, <4>6
    <3>4. W \cap Roots # {}
      BY <3>1, <3>3 DEF Rooted
    <3>5. QED
      BY <1>o, <3>4 DEF under
  <2>3. QED
    BY <2>1, <2>2
<1>A7. Told'
  <2>1. \A d \in MonthDoors : d \in MonthDoors'
    BY <1>l, <1>s DEF MonthDoors, On
  <2>2. ASSUME NEW u \in Changes PROVE u = <<g, top>> \/ u[1] \notin grids'
    <3>1. ASSUME NEW s \in TileIds, tiles'[s] # tiles[s], tiles[s].grid \in grids' PROVE FALSE
      <4>1. s \in new
        BY <1>4, <3>1
      <4>2. tiles[s].grid = Nowhere
        BY <1>n, <4>1 DEF Live
      <4>3. QED
        BY <1>A1, <3>1, <4>2, Given DEF Types, Nowhere
    <3>2. ASSUME NEW s \in TileIds, tiles'[s] # tiles[s], u = <<tiles'[s].grid, s>>, tiles'[s].grid \in grids
          PROVE u = <<g, top>>
      <4>1. s \in new
        BY <1>4, <3>2
      <4>2. ASSUME NEW r \in inner, s = nt[r] PROVE FALSE
        BY <1>4, <1>7, <1>9, <3>2, <4>2
      <4>3. QED
        BY <1>5, <3>2, <4>1, <4>2
    <3>3. QED
      BY <1>6, <3>1, <3>2, ChangesAre
  <2>3. QED
    BY <1>6, <2>1, <2>2, TellsAll
<1>A8. QED
  BY <1>A1, <1>A2, <1>A3, <1>A4, <1>A5, <1>A6, <1>A7
-----------------------------------------------------------------------------
\* The store starts with the three grids alone.
LEMMA InitHolds ==
    ASSUME Init
    PROVE  Inv
<1>1. /\ tiles = [t \in TileIds |-> NoRow] /\ grids = Roots /\ sel = [g \in GridIds |-> {}]
      /\ refs = [b \in Blobs |-> 0] /\ nextTile = 1 /\ nextGrid = 4 /\ untold = {}
  BY DEF Init
<1>2. Live = {} /\ Doors = {} /\ MonthDoors = {}
  BY <1>1 DEF Live, Doors, MonthDoors, On, NoRow
<1>3. Types
  <2>1. NoRow \in Rows
    BY Given DEF NoRow, Rows, Kinds
  <2>2. tiles \in [TileIds -> Rows]
    BY <1>1, <2>1
  <2>3. QED
    BY <1>1, <1>2, <2>2, Given DEF Types
<1>4. Fresh
  BY <1>1, <1>2, Given DEF Fresh
<1>5. OwnedOnce
  BY <1>2 DEF OwnedOnce
<1>6. Selected
  BY <1>1 DEF Selected, SelectionOnGrid
<1>7. Counted
  <2>1. \A b \in Blobs : Naming(b) = {}
    BY <1>2 DEF Naming
  <2>2. Cardinality({}) = 0
    BY FS_EmptySet
  <2>3. QED
    BY <1>1, <2>1, <2>2 DEF Counted, RefsExact
<1>8. Rooted
  BY <1>1 DEF Rooted
<1>9. Told
  BY <1>1 DEF Told, WritesAreTold
<1>10. QED
  BY <1>3, <1>4, <1>5, <1>6, <1>7, <1>8, <1>9 DEF Inv

\* Creating is inserting a row of the right shape.
LEMMA CreateKeeps ==
    ASSUME Inv, Create
    PROVE  Inv'
<1>t. Types /\ refs \in [Blobs -> Int]
  BY DEF Inv, Counted
<1>r. refs = [b \in Blobs |-> IF b = NoBlob THEN refs[b] + 1 ELSE refs[b]]
  BY <1>t, Given
<1>s. ASSUME NEW g \in grids, NEW c \in Nat, NEW kind \in Kinds, NEW child \in GridIds \cup {Nowhere},
             NEW blob \in Blobs \cup {NoBlob}, NEW name \in {Month, Plain},
             (kind = "door") <=> (child # Nowhere), kind = "text" => blob # NoBlob,
             kind \in {"door", "farDoor"} => blob = NoBlob
      PROVE  /\ Shape(Row(g, c, kind, child, blob, name))
             /\ Row(g, c, kind, child, blob, name).grid = g /\ Row(g, c, kind, child, blob, name).kind = kind
             /\ Row(g, c, kind, child, blob, name).child = child /\ Row(g, c, kind, child, blob, name).blob = blob
  <2>1. g \in GridIds /\ g # Nowhere
    BY <1>t, Given DEF Types, Nowhere
  <2>2. QED
    BY <1>s, <2>1 DEF Row, Shape, Rows
<1>l. ASSUME NEW g \in grids, NEW c \in Nat, NEW kind \in Kinds \ {"door"}, NEW blob \in Blobs \cup {NoBlob},
             NEW name \in {Month, Plain}, CreateLeaf(g, c, kind, blob, name),
             kind = "text" => blob # NoBlob, kind = "farDoor" => blob = NoBlob
      PROVE  Inv'
  <2> DEFINE row == Row(g, c, kind, Nowhere, blob, name)
  <2>1. Shape(row) /\ row.grid = g /\ row.kind = kind /\ row.child = Nowhere /\ row.blob = blob
    BY <1>l, <1>s
  <2>2. /\ Insert(row) /\ UNCHANGED <<grids, nextGrid>>
        /\ refs' = [b \in Blobs |-> IF b = blob THEN refs[b] + 1 ELSE refs[b]]
    BY <1>l DEF CreateLeaf
  <2> HIDE DEF row
  <2>3. row.kind # "door" /\ row.grid \in grids
    BY <1>l, <2>1
  <2>4. QED
    BY <2>1, <2>2, <2>3, InsertKeeps
<1>1. ASSUME NEW g \in Shown, NEW c \in UserCells, NEW name \in DoorNames, CreateDoor(g, c, name)
      PROVE  Inv'
  <2> DEFINE row == Row(g, c, "door", nextGrid, NoBlob, name)
  <2>1. MintGrid /\ Insert(row) /\ UNCHANGED refs
    BY <1>1 DEF CreateDoor
  <2>2. g \in grids /\ c \in Nat /\ name \in {Month, Plain} /\ nextGrid \in GridIds /\ nextGrid # Nowhere
    BY <1>t, <2>1, Given DEF Shown, MintGrid, Types, Nowhere
  <2>3. Shape(row) /\ row.grid = g /\ row.kind = "door" /\ row.child = nextGrid /\ row.blob = NoBlob
    BY <1>s, <2>2 DEF Kinds
  <2> HIDE DEF row
  <2>4. refs' = [b \in Blobs |-> IF b = row.blob THEN refs[b] + 1 ELSE refs[b]]
    BY <1>r, <2>1, <2>3
  <2>5. QED
    BY <2>1, <2>2, <2>3, <2>4, InsertKeeps
<1>2. ASSUME NEW g \in Shown, NEW c \in UserCells, NEW name \in DoorNames,
             CreateLeaf(g, c, "farDoor", NoBlob, name)
      PROVE  Inv'
  BY <1>2, <1>l, Given DEF Shown, Kinds
<1>3. ASSUME NEW g \in Shown, NEW c \in UserCells, NEW b \in Blobs, CreateLeaf(g, c, "text", b, Plain)
      PROVE  Inv'
  BY <1>3, <1>l, Given DEF Shown, Kinds
<1>4. ASSUME NEW g \in Shown, NEW c \in UserCells, CreateLeaf(g, c, "shell", NoBlob, Plain)
      PROVE  Inv'
  BY <1>4, <1>l, Given DEF Shown, Kinds
<1>5. ASSUME CreateScratchShell PROVE Inv'
  <2> DEFINE row == Row(Scratch, 0, "shell", Nowhere, NoBlob, Plain)
  <2>1. Insert(row) /\ UNCHANGED <<grids, refs, nextGrid>>
    BY <1>5 DEF CreateScratchShell
  <2>2. Scratch \in grids /\ 0 \in Nat
    BY <1>t, Given DEF Types
  <2>3. Shape(row) /\ row.grid = Scratch /\ row.kind = "shell" /\ row.blob = NoBlob
    BY <1>s, <2>2 DEF Kinds
  <2> HIDE DEF row
  <2>4. refs' = [b \in Blobs |-> IF b = row.blob THEN refs[b] + 1 ELSE refs[b]]
    BY <1>r, <2>1, <2>3
  <2>5. row.kind # "door" /\ row.grid \in grids
    BY <2>2, <2>3
  <2>6. QED
    BY <2>1, <2>3, <2>4, <2>5, InsertKeeps
<1>6. QED
  BY <1>1, <1>2, <1>3, <1>4, <1>5 DEF Create

\* A content write, a capture and a rename change one row in its place.
LEMMA WriteKeeps ==
    ASSUME Inv, NEW t \in Live, Write(t)
    PROVE  Inv'
<1>t. Types /\ Shape(tiles[t]) /\ tiles[t] \in Rows /\ refs \in [Blobs -> Int]
  BY DEF Inv, Counted, Types, Shape
<1>b. ASSUME NEW b \in Blobs \cup {NoBlob}, tiles[t].kind \in {"text", "shell"},
             tiles[t].kind = "text" => b # NoBlob,
             Update(t, [tiles[t] EXCEPT !.blob = b]), refs' = Swapped(tiles[t].blob, b)
      PROVE  Inv'
  <2> DEFINE row == [tiles[t] EXCEPT !.blob = b]
  <2>1. /\ Shape(row) /\ row.grid = tiles[t].grid /\ row.kind = tiles[t].kind
        /\ row.child = tiles[t].child /\ row.blob = b
    BY <1>t, <1>b DEF Shape, Rows
  <2>2. Update(t, row)
    BY <1>b
  <2> HIDE DEF row
  <2>3. QED
    BY <1>b, <2>1, <2>2, UpdateKeeps
<1>1. ASSUME NEW b \in Blobs, WriteText(t, b) PROVE Inv'
  BY <1>1, <1>b, Given DEF WriteText
<1>2. ASSUME NEW b \in Blobs \cup {NoBlob}, SetShellPreview(t, b) PROVE Inv'
  BY <1>2, <1>b DEF SetShellPreview
<1>3. ASSUME NEW name \in DoorNames, RenameTile(t, name) PROVE Inv'
  <2> DEFINE row == [tiles[t] EXCEPT !.name = name]
  <2>1. name \in {Month, Plain} /\ Update(t, row) /\ UNCHANGED refs
    BY <1>3, Given DEF RenameTile
  <2>2. /\ Shape(row) /\ row.grid = tiles[t].grid /\ row.kind = tiles[t].kind
        /\ row.child = tiles[t].child /\ row.blob = tiles[t].blob
    BY <1>t, <2>1 DEF Shape, Rows
  <2> HIDE DEF row
  <2>3. refs' = Swapped(tiles[t].blob, tiles[t].blob)
    <3>1. \A b \in Blobs : refs[b] + (IF b = tiles[t].blob THEN 1 ELSE 0) - (IF b = tiles[t].blob THEN 1 ELSE 0) = refs[b]
      BY <1>t
    <3>2. QED
      BY <1>t, <2>1, <3>1 DEF Swapped
  <2>4. QED
    BY <2>1, <2>2, <2>3, UpdateKeeps
<1>4. QED
  BY <1>1, <1>2, <1>3 DEF Write

\* Placing is a move out of what the tile owns, or a copy.
LEMMA PlaceKeeps ==
    ASSUME Inv, NEW t \in Live, Place(t)
    PROVE  Inv'
<1>1. PICK g \in Shown, c \in UserCells : MoveTile(t, g, c) \/ CopyTile(t, g, c)
  BY DEF Place
<1>2. g \in grids /\ c \in Nat
  BY Given DEF Shown
<1>3. CASE MoveTile(t, g, c)
  <2>1. /\ tiles' = [tiles EXCEPT ![t] = [tiles[t] EXCEPT !.grid = g, !.cell = c]]
        /\ UNCHANGED <<grids, refs, nextTile, nextGrid>>
        /\ \/ g = tiles[t].grid /\ UNCHANGED sel /\ Tell({Thing(g, t)})
           \/ /\ sel' = LeaveSelection(sel, tiles[t].grid, t)
              /\ Tell(Left(tiles[t].grid, t) \cup {Thing(g, t)})
        /\ tiles[t].kind = "door" => g \notin Under(tiles[t].child)
    BY <1>3 DEF MoveTile, WouldContainItself, InSubtree
  <2>2. QED
    BY <1>2, <2>1, MoveKeeps
<1>4. QED
  BY <1>1, <1>2, <1>3, CopyKeeps

\* The month's door is one of the trash grid's, the least of those so named.
LEMMA MonthDoorIsThere ==
    ASSUME MonthDoors # {}
    PROVE  MonthDoor \in MonthDoors
<1>1. MonthDoors \in SUBSET Nat
  BY Given DEF MonthDoors, On, Live
<1>2. \E d \in MonthDoors : \A e \in MonthDoors : <<e, d>> \notin OpToRel(<, Nat)
  BY <1>1, NatLessThanWellFounded, WFMin
<1>3. PICK d \in MonthDoors : \A e \in MonthDoors : <<e, d>> \notin OpToRel(<, Nat)
  BY <1>2
<1>4. \A e \in MonthDoors : d <= e
  <2>1. \A e \in MonthDoors : ~(e < d)
    BY <1>1, <1>3 DEF OpToRel
  <2>2. QED
    BY <1>1, <2>1
<1>5. QED
  BY <1>4 DEF MonthDoor

\* What is not in the trash and not the way to it cannot own this month's
\* grid: that one is reached through the trash alone, and the trash through
\* no door.
LEMMA TrashKeeps ==
    ASSUME Inv, NEW t \in Live, ~BypassesTrash(tiles[t].grid), MoveToTrash(t)
    PROVE  Inv'
<1> DEFINE month == tiles[MonthDoor].child
           from == tiles[t].grid
<1>i. Types /\ OwnedOnce /\ Rooted
  BY DEF Inv
<1>1. /\ MonthDoor \in Doors /\ tiles[MonthDoor].grid = Trash
      /\ UNCHANGED <<grids, nextTile, nextGrid, refs>>
      /\ tiles' = [tiles EXCEPT ![t] = [tiles[t] EXCEPT !.grid = month, !.cell = FreeCell(month)]]
      /\ sel' = LeaveSelection(sel, from, t)
      /\ Tell(Left(from, t) \cup {Thing(month, t)})
  <2>1. MonthDoor \in Doors /\ tiles[MonthDoor].grid = Trash
    BY MonthDoorIsThere DEF MoveToTrash, MonthDoors, On, Doors
  <2>2. QED
    BY <2>1 DEF MoveToTrash, Filed
<1>2. month \in grids \ Roots /\ month \in GridIds /\ Trash \in grids /\ Trash \in Roots
  BY <1>i, <1>1, Given DEF OwnedOnce, Types
<1>3. FreeCell(month) \in Nat
  BY <1>i, <1>2, CellIsFree
<1>4. ASSUME tiles[t].kind = "door", month \in Under(tiles[t].child) PROVE FALSE
  <2> DEFINE k == tiles[t].child
  <2>1. t \in Doors /\ k \in grids \ Roots
    BY <1>i, <1>4 DEF Doors, OwnedOnce
  <2>2. Trash \in Under(Trash)
    BY <1>i, <1>2, UnderHolds
  <2>3. CASE month = k
    <3>1. from = Trash
      BY <1>i, <1>1, <2>1, <2>3 DEF OwnedOnce
    <3>2. QED
      BY <2>2, <3>1 DEF BypassesTrash, InSubtree
  <2>4. CASE month # k
    <3>1. Trash \in Under(k)
      BY <1>i, <1>1, <1>4, <2>1, <2>4, UnderThroughDoor
    <3>2. QED
      BY <1>i, <1>2, <2>1, <3>1, UnderHolds
  <2>5. QED
    BY <2>3, <2>4
<1> HIDE DEF month
<1>5. QED
  BY <1>1, <1>2, <1>3, <1>4, MoveKeeps DEF from

\* A change of the selection names tiles on the grid, and empties others.
LEMMA SelectingKeeps ==
    ASSUME Inv, SelectAny
    PROVE  Inv'
<1>i. Types /\ Selected
  BY DEF Inv
<1>o. \A g \in GridIds : sel[g] \subseteq On(g) /\ (g \notin grids => sel[g] = {}) /\ On(g) \subseteq TileIds
  BY <1>i DEF Selected, SelectionOnGrid, On, Live
<1>1. ASSUME NEW g \in grids, NEW clear \in BOOLEAN, NEW recurse \in BOOLEAN, NEW add, NEW remove,
             SetSelection(g, clear, recurse, add, remove)
      PROVE  Inv'
  <2> DEFINE mine == ((IF clear THEN {} ELSE sel[g]) \cup (add \cap On(g))) \ remove
             set == [h \in GridIds |-> IF h = g THEN mine
                       ELSE IF recurse /\ h \in grids /\ InSubtree(h, g) THEN {} ELSE sel[h]]
  <2>1. Select(set)
    BY <1>1 DEF SetSelection
  <2>2. mine \subseteq On(g) /\ g \in GridIds
    BY <1>i, <1>o DEF Types
  <2> HIDE DEF mine
  <2>3. \A h \in GridIds : set[h] \subseteq On(h) /\ (h \notin grids => set[h] = {})
    BY <1>o, <2>2
  <2>4. set \in [GridIds -> SUBSET TileIds]
    BY <1>o, <2>2
  <2> HIDE DEF set
  <2>5. QED
    BY <2>1, <2>3, <2>4, SelectKeeps
<1>2. ASSUME ClearAll PROVE Inv'
  BY <1>2, SelectKeeps DEF ClearAll
<1>3. QED
  BY <1>1, <1>2 DEF SelectAny, Shown

\* Every write keeps the invariant.
LEMMA StepKeeps ==
    ASSUME Inv, [Next]_vars
    PROVE  Inv'
<1>1. CASE Create
  BY <1>1, CreateKeeps
<1>2. ASSUME NEW t \in Live, Write(t) PROVE Inv'
  BY <1>2, WriteKeeps
<1>3. ASSUME NEW t \in Live, Place(t) PROVE Inv'
  BY <1>3, PlaceKeeps
<1>4. ASSUME NEW t \in Live, Delete(t) PROVE Inv'
  BY <1>4, DestroyKeeps, TrashKeeps, NewMonthKeeps DEF Delete
<1>5. CASE SelectAny
  BY <1>5, SelectingKeeps
<1>6. CASE UNCHANGED vars
  BY <1>6 DEF vars, Inv, Types, Fresh, OwnedOnce, Selected, SelectionOnGrid, Counted, RefsExact, Naming,
              Rooted, Open, Told, WritesAreTold, MonthDoors, On, Live, Doors
<1>7. QED
  BY <1>1, <1>2, <1>3, <1>4, <1>5, <1>6 DEF Next

-----------------------------------------------------------------------------
\* The inductive invariant holds of every state the store's writes reach.
THEOREM Invariance == Spec => []Inv
<1>1. Init => Inv
  BY InitHolds
<1>2. Inv /\ [Next]_vars => Inv'
  BY StepKeeps
<1>3. QED
  BY <1>1, <1>2, PTL DEF Spec

\* A blob's count is the number of rows that name it (blobs.go), whatever
\* creates, edits, clears, deep copies and cascading deletes came before.
THEOREM CountsAreExact == Spec => []RefsExact
<1>1. Inv => RefsExact
  BY DEF Inv, Counted
<1>2. QED
  BY <1>1, Invariance, PTL

\* Every row's grid is there, and every door owns a grid no other door owns.
THEOREM OwnershipHolds == Spec => []OwnedOnce
<1>1. Inv => OwnedOnce
  BY DEF Inv
<1>2. QED
  BY <1>1, Invariance, PTL

\* No move, copy or delete leaves a grid no root leads to.
THEOREM EveryGridIsReached == Spec => []Reached
<1>1. Inv => Reached
  BY RootedReaches DEF Inv
<1>2. QED
  BY <1>1, Invariance, PTL

\* A selection names tiles of its own grid only.
THEOREM SelectionsHold == Spec => []SelectionOnGrid
<1>1. Inv => SelectionOnGrid
  BY DEF Inv, Selected
<1>2. QED
  BY <1>1, Invariance, PTL

\* Whoever hears every event holds what is there, but for the month's doors.
THEOREM EventsTellWrites == Spec => []WritesAreTold
<1>1. Inv => WritesAreTold
  BY DEF Inv, Told
<1>2. QED
  BY <1>1, Invariance, PTL

\* Rows, grids, counts and selections are what the schema allows.
THEOREM TypesHold == Spec => []TypeOK
<1>1. ASSUME Inv PROVE TypeOK
  <2>1. Types /\ Selected /\ Counted /\ Told
    BY <1>1 DEF Inv
  <2>2. refs \in [Blobs -> Nat]
    <3>1. ASSUME NEW b \in Blobs PROVE refs[b] \in Nat
      <4>1. refs[b] = Cardinality(Naming(b))
        BY <2>1 DEF Counted, RefsExact
      <4>2. Cardinality(Naming(b)) \in Nat
        BY NamingIsFinite
      <4>3. QED
        BY <4>1, <4>2
    <3>2. QED
      BY <2>1, <3>1 DEF Counted
  <2>3. \A t \in Live : /\ (tiles[t].kind = "door") <=> (tiles[t].child # Nowhere)
                        /\ tiles[t].kind = "text" => tiles[t].blob # NoBlob
                        /\ tiles[t].kind \in {"door", "farDoor"} => tiles[t].blob = NoBlob
    BY <2>1 DEF Types, Shape
  <2>4. QED
    BY <2>1, <2>2, <2>3 DEF TypeOK, Types, Selected, Told
<1>2. QED
  BY <1>1, Invariance, PTL

\* A grid a destroyed tile owns is under what the tile's own grid is under.
LEMMA OwnedIsBelow ==
    ASSUME Inv, NEW t \in Live, NEW top \in grids, tiles[t].grid \in Under(top)
    PROVE  Owned(t) \subseteq Under(top)
<1>i. Types /\ OwnedOnce
  BY DEF Inv
<1>1. CASE tiles[t].kind = "door"
  <2>1. t \in Doors /\ tiles[t].child \in grids /\ Owned(t) = Under(tiles[t].child)
    BY <1>i, <1>1 DEF Doors, OwnedOnce, Owned
  <2>2. tiles[t].child \in Under(top) /\ \A d \in Doors : tiles[d].grid \in Under(top) => tiles[d].child \in Under(top)
    BY <1>i, <2>1, UnderHolds
  <2>3. QED
    BY <1>i, <2>1, <2>2, UnderIsLeast
<1>2. QED
  BY <1>1 DEF Owned

\* Nothing but a delete from the trash takes a row away.
LEMMA RowsStay ==
    ASSUME Inv,
           \/ Create \/ SelectAny \/ UNCHANGED vars
           \/ \E t \in Live : Write(t) \/ Place(t) \/ MoveToTrash(t) \/ MoveToNewMonth(t)
    PROVE  Live \subseteq Live'
<1>i. Types /\ Fresh /\ OwnedOnce
  BY DEF Inv
<1>0. ASSUME \A s \in Live : tiles'[s] = tiles[s] \/ tiles'[s].grid # Nowhere PROVE Live \subseteq Live'
  BY <1>0 DEF Live
<1>n. \A s \in Live : s \in TileIds /\ s # nextTile /\ tiles[s] \in Rows /\ tiles[s].grid # Nowhere
  BY <1>i, Given DEF Fresh, Types, Live
<1>f. tiles \in [TileIds -> Rows]
  BY <1>i DEF Types
<1>g. \A g \in GridIds : g # Nowhere
  BY Given DEF Nowhere
<1>1. ASSUME NEW row, Insert(row) PROVE Live \subseteq Live'
  <2>1. tiles' = [tiles EXCEPT ![nextTile] = row]
    BY <1>1 DEF Insert
  <2>2. \A s \in Live : tiles'[s] = tiles[s]
    BY <1>n, <1>f, <2>1
  <2>3. QED
    BY <1>0, <2>2
<1>2. ASSUME NEW t \in Live, NEW row, tiles' = [tiles EXCEPT ![t] = row], row.grid # Nowhere
      PROVE  Live \subseteq Live'
  <2>1. \A s \in Live : s # t => tiles'[s] = tiles[s]
    BY <1>n, <1>f, <1>2
  <2>2. tiles'[t] = row
    BY <1>n, <1>f, <1>2
  <2>3. QED
    BY <1>0, <1>2, <2>1, <2>2
<1>3. CASE Create
  BY <1>3, <1>1 DEF Create, CreateDoor, CreateLeaf, CreateScratchShell
<1>4. ASSUME NEW t \in Live, Write(t) PROVE Live \subseteq Live'
  <2>1. ASSUME NEW b, WriteText(t, b) \/ SetShellPreview(t, b) PROVE Live \subseteq Live'
    <3> DEFINE row == [tiles[t] EXCEPT !.blob = b]
    <3>1. tiles' = [tiles EXCEPT ![t] = row]
      BY <2>1 DEF WriteText, SetShellPreview, Update
    <3>2. row.grid # Nowhere
      BY <1>n DEF Rows
    <3> HIDE DEF row
    <3>3. QED
      BY <1>2, <3>1, <3>2
  <2>2. ASSUME NEW name, RenameTile(t, name) PROVE Live \subseteq Live'
    <3> DEFINE row == [tiles[t] EXCEPT !.name = name]
    <3>1. tiles' = [tiles EXCEPT ![t] = row]
      BY <2>2 DEF RenameTile, Update
    <3>2. row.grid # Nowhere
      BY <1>n DEF Rows
    <3> HIDE DEF row
    <3>3. QED
      BY <1>2, <3>1, <3>2
  <2>3. QED
    BY <1>4, <2>1, <2>2 DEF Write
<1>m. ASSUME NEW t \in Live, NEW g \in GridIds, NEW c PROVE Moved(t, g, c).grid # Nowhere
  BY <1>n, <1>g DEF Moved, Rows
<1>5. ASSUME NEW t \in Live, Place(t) PROVE Live \subseteq Live'
  <2>1. PICK g \in Shown, c \in UserCells : MoveTile(t, g, c) \/ CopyTile(t, g, c)
    BY <1>5 DEF Place
  <2>2. g \in grids /\ g \in GridIds /\ c \in Nat
    BY <1>i, Given DEF Shown, Types
  <2>3. CASE MoveTile(t, g, c)
    <3>1. tiles' = [tiles EXCEPT ![t] = Moved(t, g, c)]
      BY <2>3 DEF MoveTile, Moved
    <3>2. QED
      BY <1>2, <1>m, <2>2, <3>1
  <2>4. CASE CopyTile(t, g, c)
    <3>1. PICK nt, ng, top : Copies(t, g, c, nt, ng, top)
      BY <2>2, <2>4, CopyFacts
    <3>2. \A s \in Live : s < nextTile /\ s \in Nat
      BY <1>i, Given DEF Fresh, Live
    <3>3. /\ top \in Nat /\ nextTile <= top /\ nextTile \in Nat
          /\ \A r \in Inner(t) : nextTile <= nt[r] /\ nt[r] \in Nat
      BY <1>i, <3>1, Given DEF Copies, Types
    <3>4. \A s \in Live : s # top /\ \A r \in Inner(t) : s # nt[r]
      BY <3>2, <3>3
    <3>5. \A s \in Live : tiles'[s] = tiles[s]
      BY <1>n, <3>1, <3>4 DEF Copies
    <3>6. QED
      BY <1>0, <3>5
  <2>5. QED
    BY <2>1, <2>3, <2>4
<1>6. ASSUME NEW t \in Live, MoveToTrash(t) PROVE Live \subseteq Live'
  <2> DEFINE month == tiles[MonthDoor].child
  <2>1. MonthDoor \in Doors /\ tiles' = [tiles EXCEPT ![t] = Moved(t, month, FreeCell(month))]
    BY <1>6, MonthDoorIsThere DEF MoveToTrash, MonthDoors, On, Doors, Filed, Moved
  <2>2. month \in GridIds
    BY <1>i, <2>1 DEF OwnedOnce, Types
  <2> HIDE DEF month
  <2>3. QED
    BY <1>2, <1>m, <2>1, <2>2
<1>7. ASSUME NEW t \in Live, MoveToNewMonth(t) PROVE Live \subseteq Live'
  <2> DEFINE door == Row(Trash, FreeCell(Trash), "door", nextGrid, NoBlob, Month)
             row == Moved(t, nextGrid, 0)
  <2>1. tiles' = [[tiles EXCEPT ![nextTile] = door] EXCEPT ![t] = row] /\ nextGrid \in GridIds
    BY <1>7 DEF MoveToNewMonth, MintGrid, Filed, Moved
  <2>2. row.grid # Nowhere
    BY <1>m, <2>1
  <2> HIDE DEF row, door
  <2>3. \A s \in Live : s # t => tiles'[s] = tiles[s]
    BY <1>n, <1>f, <2>1
  <2>4. tiles'[t] = row
    BY <1>n, <1>f, <2>1
  <2>5. QED
    BY <1>0, <2>2, <2>3, <2>4
<1>8. CASE SelectAny \/ UNCHANGED vars
  <2>1. tiles' = tiles
    BY <1>8 DEF vars, SelectAny, SetSelection, ClearAll, Select
  <2>2. QED
    BY <2>1 DEF Live
<1>9. QED
  BY <1>3, <1>4, <1>5, <1>6, <1>7, <1>8

\* Only a delete in the trash or on the scratch grid removes rows, and all it
\* removes was there.
THEOREM DeletesDestroyOnlyTrash == Spec => DestroyedFromTrash
<1> DEFINE Lost == \A t \in Live \ Live' : \E g \in {Trash, Scratch} : InSubtree(tiles[t].grid, g)
<1>1. ASSUME Inv, NEW t \in Live, BypassesTrash(tiles[t].grid), Destroy(t) PROVE Lost
  <2>i. Types /\ OwnedOnce
    BY <1>1 DEF Inv
  <2>1. PICK g \in {Trash, Scratch} : g \in grids /\ tiles[t].grid \in Under(g)
    <3>1. Trash \in grids /\ Scratch \in grids
      BY <2>i, Given DEF Types
    <3>2. Scratch \in Under(Scratch)
      BY <2>i, <3>1, UnderHolds
    <3>3. QED
      BY <1>1, <3>1, <3>2 DEF BypassesTrash, InSubtree
  <2>2. Owned(t) \subseteq Under(g)
    BY <1>1, <2>1, OwnedIsBelow
  <2>3. \A s \in Live \ Live' : s = t \/ tiles[s].grid \in Owned(t)
    <3>1. tiles' = [s \in TileIds |-> IF s \in {t} \cup {u \in Live : tiles[u].grid \in Owned(t)}
                                        THEN NoRow ELSE tiles[s]]
      BY <1>1 DEF Destroy
    <3>2. QED
      BY <3>1 DEF Live
  <2>4. \A s \in Live \ Live' : tiles[s].grid \in Under(g)
    BY <2>1, <2>2, <2>3
  <2>5. QED
    BY <2>1, <2>4 DEF InSubtree
<1>2. Inv /\ [Next]_vars => [Lost]_vars
  <2> SUFFICES ASSUME Inv, Next PROVE Lost
    OBVIOUS
  <2>1. CASE \E t \in Live : BypassesTrash(tiles[t].grid) /\ Destroy(t)
    BY <1>1, <2>1
  <2>2. CASE \/ Create \/ SelectAny
             \/ \E t \in Live : Write(t) \/ Place(t) \/ MoveToTrash(t) \/ MoveToNewMonth(t)
    <3>1. Live \subseteq Live'
      BY <2>2, RowsStay
    <3>2. QED
      BY <3>1
  <2>3. QED
    BY <2>1, <2>2 DEF Next, Delete
<1> HIDE DEF Lost
<1>3. Spec => [][Lost]_vars
  BY <1>2, Invariance, PTL DEF Spec
<1>4. QED
  BY <1>3 DEF DestroyedFromTrash, Lost
=============================================================================
