SPECIFICATION Spec
VIEW View
CONSTANTS
    Turns = {t1, t2}
    Objs = {o1, o2, o3}
    Loop = Loop
    Background = Background
    Guardian = Guardian
    NoObj = NoObj
    NoTurn = NoTurn
    UserItems = {u1}
    MailItems = {m1}
    TriggerMail = {m1}
    DeniedItems = {d1}
    SchedItems = {}
    AuxItems = {}
    StandaloneKinds = {"Compact", "Review", "Shell"}
    MaxOps = 1
    GuardianAborts = FALSE
    HookBlocks = TRUE
    Approvals = TRUE
INVARIANTS TypeOK NoOrphanTask NoZombieTask NoSilentEnd NeverDuplicated ApprovalLostOnlyByAbort WakeUpsKept
PROPERTY ImplementsLedger
CHECK_DEADLOCK FALSE
