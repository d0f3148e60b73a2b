SPECIFICATION FairSpec
INVARIANTS
    StatusIsTrue
    ReleasedMeansGone
PROPERTIES
    ClaimsAreTrue
    CallsAreAnswered
    DirectoryComesBack
CHECK_DEADLOCK FALSE
