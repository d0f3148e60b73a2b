SPECIFICATION Spec
CONSTANTS
    NoOne = NoOne
    Server = {s1, s2}
    Client = {c1, c2, c3}
SYMMETRY Interchangeable
PROPERTIES
    OwnedMeansServer
CHECK_DEADLOCK FALSE
