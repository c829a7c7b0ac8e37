CONSTANTS
    NumEvents = 2
    Malformed = {2}
    Fingerprints = {"boom", "other"}
    Fp <- MCFp
    MaxDeliveryCount = 2
    ReadCount = 2
    PendingCount = 2
    Faults = {"upsert", "insert", "alert", "read", "claim", "dlqAdd", "ack"}
    MaxRedisFaults = 1
    MaxCrashes = 1
SPECIFICATION FairSpec
INVARIANTS
    TypeOK
    AttemptsBounded
    DeadAfterRetries
    CountCoversEvents
    EvaluatedOnce
PROPERTIES
    ImplementsDelivery
    EventuallySettled
CHECK_DEADLOCK FALSE
