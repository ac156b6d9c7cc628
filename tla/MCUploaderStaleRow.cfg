SPECIFICATION FairSpec
CONSTANTS
    e1 = e1
    e2 = e2
    e3 = e3
    u1 = u1
    u2 = u2
    Event = {e1}
    Uploaders = {u1, u2}
    BatchSize = 2
    MaxAttempts = 2
    MaxRowAttempts = 3
    Timely = FALSE
INVARIANT DeadLetterRecorded
PROPERTY EveryRowSettles
