SPECIFICATION FairSpec
CONSTANTS
    NoOne = NoOne
    Server = {s1, s2, s3}
    Client = {c1, c2}
INVARIANTS
    OneOwner
    RunningIsPublished
    CompletedStopIsFinal
    CleanEndLeavesNothing
    StuckServerTakesStops
PROPERTIES
    StoppedWasFree
    ImplementsOwnership
    DeadServerBlocksNoStart
CHECK_DEADLOCK FALSE
