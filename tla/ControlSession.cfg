SPECIFICATION FairSpec
CONSTANTS
    Client = {c1, c2}
    NoClient = none
INVARIANTS
    AnswersAreTrue
    ResponderIsKept
PROPERTIES
    SessionSettles
CHECK_DEADLOCK FALSE
