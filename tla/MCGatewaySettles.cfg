SPECIFICATION FairSpec
CONSTANTS
    e1 = e1
    w1 = w1
    w2 = w2
    o1 = o1
    o2 = o2
    u1 = u1
    Event = {e1}
    Workers = {w1}
    Operators = {o1}
    Uploaders = {u1}
    MaxReplays = 1
    BatchSize = 1
    MaxAttempts = 1
    MaxRowAttempts = 1
    Timely = TRUE
    Leads <- PlainLeads
PROPERTIES
    RecoverableSettles
    ImplementsIntake
