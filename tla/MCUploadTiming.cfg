SPECIFICATION Spec
CONSTANTS
    e1 = e1
    e2 = e2
    e3 = e3
    u1 = u1
    u2 = u2
    Event = {e1, e2, e3}
    Uploaders = {u1, u2}
    BatchSize = 2
    BatchWait = 1
    MaxAttempts = 4
    MaxElapsed = 3
    BackoffBase = 1
    BackoffMax = 2
    RowRetryAfter = 2
    StaleAfter = 4
    CycleTime = 2
    RequestTime = 1
    Horizon = 4
SYMMETRY Symmetry
INVARIANTS
    TypeOK
    StaleIsOrphaned
    ExclusiveClaims
    RetryingEnds
