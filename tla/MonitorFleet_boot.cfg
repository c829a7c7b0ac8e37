CONSTANTS
    Monitors = {m1}
    Requests = {r1}
    Slots = {g1, g2}
    FailureThreshold = 1
    MaxChanges = 2
    MaxRestarts = 0
    MaxLost = 0
    CheckerFaults = FALSE
    None = None
SPECIFICATION Spec
INVARIANT
    AppliedAfterBoot
CHECK_DEADLOCK FALSE
