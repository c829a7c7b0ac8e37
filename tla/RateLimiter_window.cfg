CONSTANTS
    Requests = {q1, q2}
    Window = 3
    Limit = 2
    MaxWindow = 2
    MaxCalls = 3
    MaxFaults = 1
    None = None
SYMMETRY RequestSymmetry
SPECIFICATION Spec
INVARIANTS
    TypeOK
    PreviousWindowWeighed
    SlidingBound
    KeysExpire
CHECK_DEADLOCK FALSE
