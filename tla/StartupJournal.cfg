SPECIFICATION FairSpec
CONSTANT MaxCalls = 3
INVARIANTS
    ShownInOrder
    EndIsTrue
PROPERTIES
    JournalGrows
    ObserveSettles
CHECK_DEADLOCK FALSE
