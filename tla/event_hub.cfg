SPECIFICATION FairSpec
CONSTANTS
    Subs = {s1}
    Publishers = {p1, p2}
    Keys = {t1}
    NoKey = none
    MaxEvents = 3
    StreamBuffer = 1
INVARIANTS
    NoLostWakeup
PROPERTIES
    Mailboxes
    PublishReturns
    Delivers
    PumpEnds
CHECK_DEADLOCK FALSE
