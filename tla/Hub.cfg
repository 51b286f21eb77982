SPECIFICATION FairSpec
CONSTANTS
    w1 = w1
    m1 = m1
    loop = loop
    evictor = evictor
    main = main
    Workers = {w1}
    Watchers = {}
    Monitors = {}
    Checkers = {}
    InboundCap = 1
    KickCap = 1
INVARIANTS
    TypeOK
    NoDeadlock
PROPERTIES
    StopReturns
CHECK_DEADLOCK FALSE
