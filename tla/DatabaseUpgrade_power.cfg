SPECIFICATION Spec
CONSTANTS
    LastVersion = 2
    MaxEdits = 1
    Copy = {b1, b2}
    Secret = {k1, k2}
    Nothing = Nothing
    Empty = Empty
    Partial = Partial
    Foreign = Foreign
    Journaled = FALSE
SYMMETRY Interchangeable
INVARIANTS
    LinkNamesCompleteCopy
