SPECIFICATION FeedSpec
CONSTANTS
    near = near
    far = far
    near1 = near1
    near2 = near2
    far1 = far1
    Places = {near1, near2, far1}
    Grids = {near, far}
    GridOf <- MCGridOf
    Moves = {m1}
    Writers = {w1}
    NoPlace = NoPlace
    NoMove = NoMove
    MaxCommits = 2
    MaxLine = 2
    MaxVersion = 2
    MaxResyncs = 1
SYMMETRY PlaceSymmetry
INVARIANTS
    OneHome
    HeldShown
    Reconciled
CHECK_DEADLOCK FALSE
