SPECIFICATION CaseSpec
CONSTANTS
    Mine = {a, b}
    Theirs = {f}
    Shared = {{}}
    MaxVersion = 6
    MaxQueue = 1
    MaxStray = 1
    MaxLost = 1
SYMMETRY WordSymmetry
INVARIANTS
    CleanIsFiled
    NoLostUpdateBeforeOrphan
    NoSilentLossBeforeOrphan
PROPERTIES
    BasisAdvances
CHECK_DEADLOCK FALSE
