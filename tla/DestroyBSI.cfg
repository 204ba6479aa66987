SPECIFICATION Spec
CONSTANTS
    d1 = d1
    Dcs <- MCDcs
    Cap = 1
    MaxBinds = 1
INVARIANTS
    TypeOK
    DeletesUnbound
    ReportsTruth
PROPERTIES
    CallEnds
    WatchesEnd
CHECK_DEADLOCK FALSE
