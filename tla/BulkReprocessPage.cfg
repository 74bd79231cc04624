SPECIFICATION Spec
CONSTANTS
    d1 = d1
    j1 = j1
    v1 = v1
    v2 = v2
    Direct <- MCOne
    Jump <- MCNone
    Vpn <- MCVpn
    Groups <- MCVpn
    Kinds = {"backup_reprocess"}
    Watched = TRUE
    Launcher = Launcher
    JumpCallback = JumpCallback
    VpnCallback = VpnCallback
    Page = Page
    Canceller = Canceller
    NoDoc = NoDoc
    NoTask = NoTask
PROPERTIES
    NotCompletedEarly
CHECK_DEADLOCK FALSE
