SPECIFICATION Spec
CONSTANTS
    Grids = {g1, g2}
    Gone = Gone
    NoRead = NoRead
    MaxCommits = 2
    MaxText = 2
    MaxList = 1
    MaxFaults = 1
    MaxReads = 2
    MaxBusy = 2
SYMMETRY GridSymmetry
INVARIANTS
    Converged
    ChangesAreAnnounced
    NoBodyFromBeforeTheEdit
PROPERTIES
    InstallsNeverUndoFolds
CHECK_DEADLOCK FALSE
