SPECIFICATION FairSpec
CONSTANTS
    w1 = w1
    m1 = m1
    loop = loop
    evictor = evictor
    main = main
    Workers = {w1}
    Watchers = {}
    Monitors = {m1}
    Checkers = {}
    InboundCap = 1
    KickCap = 1
PROPERTIES
    WorkersSurvive
CHECK_DEADLOCK FALSE
