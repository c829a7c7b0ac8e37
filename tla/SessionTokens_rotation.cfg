CONSTANTS
    Browsers = {b1, b2}
    Users = {u1, u2}
    Requests = {q1, q2}
    MaxTokens = 3
    MaxFaults = 1
    None = None
SPECIFICATION Spec
SYMMETRY Symmetry
INVARIANTS
    TypeOK
    ExchangedOnce
    CalmSessions
CHECK_DEADLOCK FALSE
