SPECIFICATION Spec
CONSTANTS
    d1 = d1
    j1 = j1
    v1 = v1
    v2 = v2
    Direct <- MCOne
    Jump <- MCJump
    Vpn <- MCTwoVpn
    Groups <- MCTwoVpn
    Kinds = {"backup_bulk", "backup_reprocess"}
    Watched = FALSE
    Launcher = Launcher
    JumpCallback = JumpCallback
    VpnCallback = VpnCallback
    Page = Page
    Canceller = Canceller
    NoDoc = NoDoc
    NoTask = NoTask
SYMMETRY Symmetry
INVARIANTS
    FollowUpOnce
PROPERTIES
    FinalizedWhenOver
    ImplementsBatch
CHECK_DEADLOCK FALSE
