SPECIFICATION OutcomesSpec
CONSTANTS
    a1 = a1
    a2 = a2
    d1 = d1
    d2 = d2
    f1 = f1
    f2 = f2
    w1 = w1
    w2 = w2
    w3 = w3
    g1 = g1
    g2 = g2
    h1 = h1
    h2 = h2
    i1 = i1
    Never = Never
    Invoices <- MCInvoices
    Handlers <- MCActors
    Day = 1
    Period = 1
    Trial = 0
    Grace = 0
    Horizon = 0
    EditedStatus = {"active"}
    None = None
    Actors <- MCActors
    MaxLimit = 2
    MaxSize = 2
    Cap = 7
    NoPlan = NoPlan
    MaxRetries = 1
    Members <- MCMembers
    NeedsVpn <- MCNeedsVpn
    NeedsJump <- MCNeedsJump
    ForceVpn = FALSE
    Devices <- MCDevices
    Folder <- MCFolder
    Target <- MCFolder
    Attempts <- MCActors
    Tolerance = 0
    FailedLife = 0
    Retention = 1
    MaxTime = 2
    MaxRows = 1
    Cmds = 2
    Parts = 2
    Enters = 1
    Pauses = 1
    Files <- MCFiles
    FetchKinds = {"mikrotik", "grafana", "zabbix"}
    Delete = TRUE
    MaxVersion = 2
    MaxRuns = 2
    Workers <- MCWorkers
    Groups <- MCGroups
    Hosts <- MCHosts
    HostOf <- MCHostOf
    Retries = 2
    Tasks <- MCActors
    BaseSlots = 1
    Override = 3
    MaxBoost = 1
    SuccessStreak = 1
    FailStreak = 1
    SevereStreak = 1
    DropToOne = TRUE
    CoolTime = 1
    SevereCoolTime = 1
    MinWindowSlots = 1
    Window = 1
    MinSamples = 1
    Threshold = 70
    OpenTime = 1
    CountCap = 1
    Writers <- MCActors
    MaxLines = 2
    Limit = 2
    Chunk = 2
    MaxSeq = 3
    MaxAged = 1
INVARIANTS
    OutcomesTyped
    WithinPlan
    SuccessIsTrue
    CountsAddUp
    NoStaleSuccess
    SavedIsWhole
    
    OneSession
    NothingSkipped
    SubscriptionsBounded
SYMMETRY Symmetry
CHECK_DEADLOCK FALSE
