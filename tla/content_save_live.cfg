SPECIFICATION FairSpec
CONSTANTS
    Mine = {a}
    Theirs = {f}
    Shared = {}
    MaxVersion = 5
    MaxQueue = 0
    MaxStray = 1
    MaxLost = 2
PROPERTIES
    Converges
CHECK_DEADLOCK FALSE
