SPECIFICATION RecoverySpec
CONSTANTS
    a1 = a1
    a2 = a2
    d1 = d1
    d2 = d2
    r1 = r1
    r2 = r2
    i1 = i1
    h1 = h1
    b1 = b1
    b2 = b2
    Never = Never
    Devices <- MCDevices
    Runs <- MCRuns
    Jump <- MCJump
    Day = 1
    Excluded = {}
    StopLife = 1
    Devices2 <- MCDevices2
    Runs2 <- MCRuns2
    Jump2 <- MCDevices2
    Day2 = 2
    Invoices <- MCInvoices
    Handlers <- MCHandlers
    BillDay = 1
    Period = 1
    Trial = 0
    Grace = 0
    Horizon = 2
    EditedStatus = {"active"}
    Browsers <- MCBrowsers
    MaxAttempts = 2
    Lockout = 2
    AttemptsLife = 1
    PendingLife = 0
    Tasks <- MCTasks
    BaseSlots = 1
    Override = 2
    MaxBoost = 0
    SuccessStreak = 1
    FailStreak = 1
    SevereStreak = 1
    DropToOne = TRUE
    CoolTime = 1
    SevereCoolTime = 1
    MinWindowSlots = 1
    Window = 1
    MinSamples = 1
    Threshold = 70
    OpenTime = 1
    CountCap = 1
INVARIANTS
    TypeOK
    RecoveryTyped
    OpenIsEntitled
PROPERTIES
    BreakerCloses
    BackedUpDaily
    LateIsClosed
    LockoutEnds
CHECK_DEADLOCK FALSE
