CONSTANTS
    Keys = {k1, wrong}
    Wrong = wrong
    Watched = k1
    Users = {ann, bob}
    Requests = {q1, q2}
    Removers = {d1}
    TTL = 2
    MaxCalls = 3
    MaxFaults = 1
    Fingerprints = {f1, f2}
    Limit = 1
    MaxEvents = 3
SYMMETRY LifeSymmetry
SPECIFICATION LifeSpec
INVARIANTS
    LifeTypeOK
    RefusedAfterTTL
    DeletionRecorded
    WalkComplete
    NoIssueOutlivesProject
CHECK_DEADLOCK FALSE
