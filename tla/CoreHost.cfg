SPECIFICATION FairSpec
CONSTANTS
    StageLimit = 1
    RuntimeStages = 2
INVARIANTS
    ListeningIsTrue
    FinishedMeansClosed
PROPERTIES
    ImplementsOwnedChild
    NoCoreIsLeft
    CallsSettle
CHECK_DEADLOCK FALSE
