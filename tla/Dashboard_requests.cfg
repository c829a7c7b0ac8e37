CONSTANTS
    ann = ann
    bob = bob
    p1 = p1
    Users = {ann, bob}
    Projects = {p1}
    Owner <- MCOwner
    Rules = {a1}
    Monitors = {m1, m2}
    Issues = {s1}
    Requests = {q1, q2}
    None = None
    MaxCalls = 3
    MaxFaults = 1
    MaxReports = 2
SYMMETRY RequestSymmetry
SPECIFICATION Spec
INVARIANTS
    TypeOK
    RowsValid
    EditsKept
    TenantsApart
    AuditComplete
PROPERTIES
    PageRight
CHECK_DEADLOCK FALSE
