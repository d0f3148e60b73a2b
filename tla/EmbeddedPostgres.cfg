SPECIFICATION FairSpec
CONSTANT Attempts = 3
INVARIANTS
    ReadyIsOurs
    SettledMeansGone
PROPERTIES
    ImplementsOwnedChild
    CallsSettle
CHECK_DEADLOCK FALSE
