CONSTANTS
    Browsers = {b1}
    Users = {u1}
    Requests = {q1, q2}
    MaxTokens = 3
    MaxFaults = 0
    None = None
SPECIFICATION Spec
INVARIANTS
    OneSuccessor
CHECK_DEADLOCK FALSE
