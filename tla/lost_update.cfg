SPECIFICATION Spec
CONSTANTS
    Mine = {a}
    Theirs = {f}
    Shared = {{}}
    MaxVersion = 6
    MaxQueue = 1
    MaxStray = 0
    MaxLost = 0
INVARIANTS
    NoLostUpdate
CHECK_DEADLOCK FALSE
