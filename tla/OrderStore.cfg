CONSTANTS
    c1 = c1
    c2 = c2
    c3 = c3
    i1 = i1
    i2 = i2
    quota = quota
    volume = volume
    NoSlot = NoSlot
    Clients <- MCTwoClients
    Ids <- MCIds
    Slots <- MCSlots
    NamedSlots <- MCNamed
    Kinds <- MCTwoKinds
    MaxNumRenewalRetries = 1
    MaxConsume = 2
SPECIFICATION StoreSpec
INVARIANTS
    TypeOK
    RowAgrees
    LedgerShape
    StoreInv
PROPERTIES
    EndedIsFinal
    ImplementsLife
SYMMETRY Symm2
