SPECIFICATION Spec
CONSTANTS
    c1 = c1
    c2 = c2
    Call = {c1, c2}
    MaxRows = 2
    Rows <- MCRows
    Controls <- MCControls
SYMMETRY Symmetry
INVARIANTS
    TypeOK
    NoAvoidableRefusal
PROPERTIES
    ImplementsClient
