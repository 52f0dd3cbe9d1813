SPECIFICATION WatchSpec
CONSTANTS
    Viewers = {c1, c2}
    Grids = {g1, g2}
    Listings = {l1, l2}
    Dark = Dark
    Unread = Unread
    NoGrid = NoGrid
    MaxChanges = 1
    MaxViews = 2
    MaxReads = 2
    MaxFaults = 1
    MaxEvents = 3
SYMMETRY Symmetry
INVARIANTS
    ShownIsCurrent
    DarkEnds
CHECK_DEADLOCK FALSE
