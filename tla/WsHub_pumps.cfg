CONSTANTS
    c1 = c1
    c2 = c2
    p1 = p1
    p2 = p2
    Clients = {c1, c2}
    Projects = {p1, p2}
    Room <- MCRoom
    BufferSize = 1
    NumMessages = 3
SPECIFICATION FairSpec
INVARIANTS
    TypeOK
    NeverPanics
    NoSilentGap
PROPERTIES
    ImplementsBroadcast
    EventuallyReleased
CHECK_DEADLOCK FALSE
