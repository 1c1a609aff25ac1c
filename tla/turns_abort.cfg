SPECIFICATION AbortSpec
CONSTANTS
    Turns = {t1, t2}
    Objs = {o1, o2, o3}
    Loop = Loop
    Background = Background
    Guardian = Guardian
    NoObj = NoObj
    NoTurn = NoTurn
    UserItems = {u1}
    MailItems = {}
    TriggerMail = {}
    DeniedItems = {}
    SchedItems = {}
    AuxItems = {}
    StandaloneKinds = {"Compact"}
    MaxOps = 1
    GuardianAborts = TRUE
    HookBlocks = FALSE
    Approvals = TRUE
PROPERTY AbortCompletes
CHECK_DEADLOCK FALSE
