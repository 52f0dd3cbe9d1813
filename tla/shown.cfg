SPECIFICATION MCSpec
CONSTANTS
    Clients = {c1, c2}
    c1 = c1
    c2 = c2
    k1 = k1
    k2 = k2
    k3 = k3
    Slots = {k1, k2, k3}
    OwnerOf <- MCOwnerOf
    Views = {{"g1"}, {"g2"}}
    None = None
    MaxIdle = 1
    MaxEvents = 2
INVARIANTS
    ShownIsWatched
    WatchedIsHeard
PROPERTIES
    GoneIsUnwatched
CHECK_DEADLOCK FALSE
