SPECIFICATION ResendSpec
CONSTANTS
    e1 = e1
    e2 = e2
    w1 = w1
    w2 = w2
    o1 = o1
    o2 = o2
    u1 = u1
    Event = {e1}
    Workers = {w1}
    Operators = {}
    Uploaders = {u1}
    MaxReplays = 0
    Leads <- OrderLeads
PROPERTY StuckEventsRecover
