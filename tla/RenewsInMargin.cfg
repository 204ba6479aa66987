CONSTANTS
    i1 = i1
    i2 = i2
    Ids <- MCIds
    Limit = 1
    RenewMargin = 1
    EndOrderMargin = 4
    Month = 2
    Zone = 1
    Day = 4
    Hour = 2
    Faults <- MCNone
SPECIFICATION Spec
INVARIANTS
    RenewsInMargin
