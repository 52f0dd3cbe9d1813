CONSTANTS
    TileIds = {1, 2, 3, 4}
    GridIds = {1, 2, 3, 4, 5}
    Root = 1
    Scratch = 2
    Trash = 3
    Blobs = {b1, b2}
    NoBlob = NoBlob
    Month = Month
    Plain = Plain
    DoorNames = {Plain, Month}
    UserCells = {0}
    Picked = {2}
    Made = {"door", "text"}
    LastMade = 2
    LastCopied = 3
    LastChosen = 4
SPECIFICATION Spec
INVARIANTS
    RefsExact
    OwnedOnce
    Reached
    SelectionOnGrid
    WritesAreTold
PROPERTY DestroyedFromTrash
SYMMETRY Sym
CHECK_DEADLOCK FALSE
