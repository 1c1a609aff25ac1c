SPECIFICATION Spec
SYMMETRY Symmetry
VIEW NamesView
CONSTANTS
    Callers = {c1, c2}
    Agents = {a1, a2}
    Persisted = {}
    Root = Root
    Paths = {}
    RootPath = RootPath
    Names = {"Plato", "Plato the 2nd"}
    CandidateLists <- TwoLists
    Nicks <- MCNicks
    Format <- MCFormat
    MaxThreads = 2
    Limited = FALSE
    MaxResets = 1
    Ops = {"child", "spawn", "resume", "send"}
    NoAgent = NoAgent
    NoPath = NoPath
    NoNick = NoNick
    Vacant = Vacant
    Reserved = Reserved
INVARIANT NicknameRepeatsExplained
CHECK_DEADLOCK FALSE
