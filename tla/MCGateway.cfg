SPECIFICATION UnracedSpec
CONSTANTS
    e1 = e1
    w1 = w1
    w2 = w2
    o1 = o1
    o2 = o2
    u1 = u1
    Event = {e1}
    Workers = {w1, w2}
    Operators = {o1}
    Uploaders = {u1}
    MaxReplays = 1
    BatchSize = 1
    MaxAttempts = 1
    MaxRowAttempts = 1
    Timely = TRUE
    Leads <- SomeLeads
SYMMETRY Symmetry
INVARIANTS
    OnlyPermittedIsSent
    FullBudget
    OneLetterOpen
PROPERTIES
    ImplementsHistory
    DigestsSurvive
    LegalMoves
