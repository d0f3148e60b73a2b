SPECIFICATION FairSpec
INVARIANTS
    VerdictIsTrue
PROPERTIES
    CommittedStands
    LaunchIsReported
    OrphanEnds
CHECK_DEADLOCK FALSE
