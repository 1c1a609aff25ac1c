SPECIFICATION Spec
SYMMETRY Symmetry
VIEW View
CONSTANTS
    Hosts = {h1}
    Requests = {r1, r2, r3}
    NoRequest = NoRequest
    Calls = {c1, c2}
    NoCall = NoCall
INVARIANTS TypeOK OneAsker CachesDisjoint SessionDecisionHolds NoLostWakeup
PROPERTY UserDenialKept
CHECK_DEADLOCK FALSE
