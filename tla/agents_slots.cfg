SPECIFICATION Spec
SYMMETRY Symmetry
VIEW View
CONSTANTS
    Callers = {c1, c2}
    Agents = {a1, a2}
    Persisted = {}
    Root = Root
    Paths = {p1}
    RootPath = RootPath
    Names = {"Plato"}
    CandidateLists <- OneList
    Nicks <- MCNicks
    Format <- MCFormat
    MaxThreads = 2
    Limited = TRUE
    MaxResets = 1
    Ops = {"plain", "spawn", "resume", "close", "shutdown"}
    NoAgent = NoAgent
    NoPath = NoPath
    NoNick = NoNick
    Vacant = Vacant
    Reserved = Reserved
INVARIANTS TypeOK SlotsCovered RegisteredWithinLimit ReservedPathHeld
CHECK_DEADLOCK FALSE
