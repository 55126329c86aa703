CONSTANTS
    Requests = {r1, r2}
    Shapes <- MCShapes
    Hosts <- MCHosts
    TrustedProxies <- MCTrustedProxies
    AllowedOrigins <- MCAllowedOrigins
    Limit = 1
    None = None
SPECIFICATION Spec
SYMMETRY Symmetry
INVARIANTS TypeOK LogMatchesWire CountedOnce ReadableByBrowser PerSender OnlyDataCharged
CHECK_DEADLOCK FALSE
