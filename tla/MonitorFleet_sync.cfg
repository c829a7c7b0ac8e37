CONSTANTS
    Monitors = {m1}
    Requests = {r1, r2}
    Slots = {g1, g2}
    FailureThreshold = 1
    MaxChanges = 3
    MaxRestarts = 0
    MaxLost = 0
    CheckerFaults = FALSE
    None = None
SPECIFICATION Spec
SYMMETRY Symmetry
INVARIANTS
    TypeOK
    OneCheckerPerMonitor
    AppliedWhenDrained
CHECK_DEADLOCK FALSE
