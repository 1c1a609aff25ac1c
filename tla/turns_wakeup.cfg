SPECIFICATION LiveSpec
CONSTANTS
    Turns = {t1, t2, t3}
    Objs = {o1, o2, o3, o4}
    Loop = Loop
    Background = Background
    Guardian = Guardian
    NoObj = NoObj
    NoTurn = NoTurn
    UserItems = {u1}
    MailItems = {}
    TriggerMail = {}
    DeniedItems = {}
    SchedItems = {s1}
    AuxItems = {x1}
    StandaloneKinds = {}
    MaxOps = 0
    GuardianAborts = FALSE
    HookBlocks = FALSE
    Approvals = FALSE
INVARIANT WakeUpsKept
PROPERTY QueuedPromptTaken
CHECK_DEADLOCK FALSE
