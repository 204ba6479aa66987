CONSTANTS
    u1 = u1
    u2 = u2
    m = m
    i1 = i1
    i2 = i2
    i3 = i3
    quota = quota
    volume = volume
    NoSlot = NoSlot
    Nil = Nil
    Users <- MCUsers
    Maintainer = m
    Ids <- MCIds
    Slots <- MCQuota
    NamedSlots <- MCNone
    MaxNumRenewalRetries = 1
    MaxConsume = 2
    Faults <- MCNone
    MaxDeductions = 2
SPECIFICATION Spec
INVARIANTS
    ChargingTimes
