SPECIFICATION Spec
CONSTANTS
    t1 = t1
    t2 = t2
    g1 = g1
    Workers <- MCWorkers
    Timed <- MCTimed
    SlotCap = 2
    SlotTtl = 2
    WaitLimit = 1
    SoftLimit = 1
    RunLimit = 1
    DeviceLimit = 1
    None = None
SYMMETRY Symmetry
INVARIANTS
    TypeOK
    ExclusiveUse
    KeyOutlivesTask
    NoOverbooking
PROPERTIES
    OnlyOwnerFrees
    ImplementsPool
