SPECIFICATION Spec
CONSTANTS
    Items = {i1}
    Meta = Meta
    Clients = {c1}
    NoClient = NoClient
    Capacity = 2
    SideAppends = FALSE
    MaxRecorded = 3
INVARIANT ConfirmedLoads
CHECK_DEADLOCK FALSE
