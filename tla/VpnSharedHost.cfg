SPECIFICATION Spec
CONSTANTS
    w1 = w1
    w2 = w2
    w3 = w3
    g1 = g1
    g2 = g2
    h1 = h1
    h2 = h2
    Workers <- MCWorkers
    Testers = {}
    Groups <- MCGroups
    Hosts <- MCHosts
    HostOf <- MCSharedHost
    Isolated = FALSE
    Retries = 2
    None = None
INVARIANTS
    TunnelIsMine
