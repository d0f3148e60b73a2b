SPECIFICATION Spec
CONSTANTS
    LastVersion = 3
    MaxEdits = 1
    Copy = {b1, b2, b3}
    Secret = {k1, k2}
    Nothing = Nothing
    Empty = Empty
    Partial = Partial
    Foreign = Foreign
    Journaled = TRUE
SYMMETRY Interchangeable
INVARIANTS
    LinkNamesCompleteCopy
    UpgradeIsInsured
    RecordCoversData
    CredentialFits
