SPECIFICATION LocksSpec
CONSTANTS
    w1 = w1
    w2 = w2
    g1 = g1
    g2 = g2
    h1 = h1
    h2 = h2
    b1 = b1
    f1 = f1
    a1 = a1
    t1 = t1
    v1 = v1
    Workers <- MCWorkers
    Testers <- MCWorkers
    Groups <- MCGroups
    Hosts <- MCHosts
    HostOf <- MCHostOf
    Isolated = TRUE
    Retries = 2
    None = None
    Backups <- MCBackups
    FollowUps <- MCFollowUps
    Audits <- MCAudits
    Enabled = TRUE
    Life = 1
    NoBatch = NoBatch
    SlotWorkers <- MCSlotWorkers
    Timed <- MCTimed
    SlotCap = 2
    SlotTtl = 2
    WaitLimit = 1
    SoftLimit = 1
    RunLimit = 1
    DeviceLimit = 1
INVARIANTS
    TypeOK
    TunnelIsMine
    LocksTyped
PROPERTIES
    ImplementsPool
    SessionEnds
    KeyReturns
    SchedulerReturns
    WaitEnds
    AbandonedSlotReturns
    StopDrains
