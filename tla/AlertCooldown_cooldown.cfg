CONSTANTS
    Rules = {r1, r2}
    Issues = {i1}
    Consumers = {c1}
    Requests = {q1}
    Thresholds = {1}
    Cooldowns = {0, 1}
    DefaultCooldown = 2
    Hot = {i1}
    Broken = {r2}
    MaxTime = 2
    MaxChanges = 3
    MaxFaults = 1
    None = None
SPECIFICATION FairSpec
INVARIANTS
    TypeOK
    NoFalseCooldown
    DeletedStaysDeleted
PROPERTIES
    CooldownKept
    EventuallyNotified
CHECK_DEADLOCK FALSE
