SPECIFICATION Spec
CONSTANTS
    e1 = e1
    e2 = e2
    e3 = e3
    u1 = u1
    u2 = u2
    Event = {e1, e2, e3}
    Uploaders = {u1, u2}
    BatchSize = 2
    MaxAttempts = 2
    MaxRowAttempts = 2
    Timely = TRUE
SYMMETRY Symmetry
INVARIANTS
    TypeOK
    UploadedWasAccepted
    OwnedWhileUploading
    NoIllegalTransition
    AttemptsBounded
    OneOpenDeadLetter
PROPERTIES
    LegalMoves
    ImplementsHistory
