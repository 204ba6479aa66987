SPECIFICATION Spec
CONSTANTS
    i1 = i1
    i2 = i2
    r1 = r1
    Instances <- MCInstances
    Requests <- MCRequests
    Latest = 2
    Tries = 3
    MaxOutages = 1
    MaxCrashes = 1
INVARIANTS
    TypeOK
    ServesUpgraded
    NoHandleLeft
    OneAnswer
PROPERTIES
    SilentAfterReturn
    HandlersEnd
    ServesAtLast
CHECK_DEADLOCK FALSE
