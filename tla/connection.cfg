SPECIFICATION MCSpec
CONSTANTS
    Transports = {t1}
    Homes = {h1, h2}
    Kicks = {k1}
    Boot = boot
    Switch = switch
    None = None
    MaxFaults = 1
    FirstHome = h1
INVARIANTS
    NoTransportLeaks
    DisabledIsOff
    ChangesAreTold
PROPERTIES
    LandingIsBound
    CloseEnds
CHECK_DEADLOCK FALSE
