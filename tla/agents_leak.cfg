SPECIFICATION Spec
SYMMETRY Symmetry
VIEW View
CONSTANTS
    Callers = {c1, c2}
    Agents = {a1}
    Persisted = {a1}
    Root = Root
    Paths = {}
    RootPath = RootPath
    Names = {"Plato"}
    CandidateLists <- OneList
    Nicks <- MCNicks
    Format <- MCFormat
    MaxThreads = 2
    Limited = TRUE
    MaxResets = 1
    Ops = {"resume", "close"}
    NoAgent = NoAgent
    NoPath = NoPath
    NoNick = NoNick
    Vacant = Vacant
    Reserved = Reserved
INVARIANT SlotsReleased
CHECK_DEADLOCK FALSE
