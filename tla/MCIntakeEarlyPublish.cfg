SPECIFICATION Spec
CONSTANTS
    e1 = e1
    e2 = e2
    w1 = w1
    w2 = w2
    o1 = o1
    o2 = o2
    u1 = u1
    Event = {e1}
    Workers = {w1}
    Operators = {o1}
    Uploaders = {u1}
    MaxReplays = 1
    Leads <- OrderLeads
INVARIANT ReplayedHasMessage
