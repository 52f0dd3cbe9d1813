SPECIFICATION Spec
CONSTANTS
    Process = {p1, p2}
    None = None
    Reasons = {"off", "closing"}
    FirstBackoff = 1
    MaxBackoff = 2
    Clients = {c1}
    Listers = {l1}
    MaxGaps = 1
INVARIANTS
    NoneLeftBehind
    StoppedForGood
    HealthIsTheProcess
    OutagesAreTold
CHECK_DEADLOCK FALSE
