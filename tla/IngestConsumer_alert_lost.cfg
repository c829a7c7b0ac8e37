CONSTANTS
    NumEvents = 1
    Malformed = {}
    Fingerprints = {"boom", "other"}
    Fp <- MCFp
    MaxDeliveryCount = 1
    ReadCount = 2
    PendingCount = 2
    Faults = {"insert"}
    MaxRedisFaults = 0
    MaxCrashes = 0
SPECIFICATION Spec
INVARIANTS
    NewIssueEvaluated
CHECK_DEADLOCK FALSE
