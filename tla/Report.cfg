SPECIFICATION Spec
CONSTANTS
    Starts <- MCStarts
    Sizes <- MCSizes
    Price = 10
    RenewMargin = 7
    EndOrderMargin = 7
    MaxConsumes = 4
    Half = 5
    MinSize = 1
    MaxSize = 3
INVARIANTS
    TypeOK
    DeadlinesFollowStart
    LastLastRuns
    WalkShowsAll
    PagesInside
PROPERTIES
    CreditIsFair
CHECK_DEADLOCK FALSE
