SPECIFICATION Spec
VIEW View
CONSTANTS
    Turns = {t1, t2}
    Objs = {o1, o2, o3}
    Loop = Loop
    Background = Background
    Guardian = Guardian
    NoObj = NoObj
    NoTurn = NoTurn
    UserItems = {u1}
    MailItems = {}
    TriggerMail = {}
    DeniedItems = {}
    SchedItems = {s1}
    AuxItems = {}
    StandaloneKinds = {}
    MaxOps = 0
    GuardianAborts = FALSE
    HookBlocks = FALSE
    Approvals = FALSE
INVARIANT QueuedPromptKept
CHECK_DEADLOCK FALSE
