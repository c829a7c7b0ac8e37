CONSTANTS
    Monitors = {m1}
    Requests = {r1}
    Slots = {g1, g2}
    FailureThreshold = 1
    MaxChanges = 2
    MaxRestarts = 1
    MaxLost = 1
    CheckerFaults = TRUE
    None = None
SPECIFICATION FairSpec
PROPERTIES
    ImplementsFleet
    EventuallyApplied
CHECK_DEADLOCK FALSE
