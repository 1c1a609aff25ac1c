SPECIFICATION FairSpec
CONSTANTS
    Items = {i1, i2}
    Meta = Meta
    Clients = {c1, c2}
    NoClient = NoClient
    Capacity = 2
    SideAppends = TRUE
    MaxRecorded = 3
INVARIANTS TypeOK InOrder ConfirmedStored DbBehindFile
PROPERTIES ImplementsLog BarrierAnswered
CHECK_DEADLOCK FALSE
