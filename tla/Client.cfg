SPECIFICATION FairSpec
CONSTANTS
    p1 = p1
    p2 = p2
    loop = loop
    reader = reader
    w = w
    Senders = {p1, p2}
    Closers = {loop, reader}
    Writer = w
    BufSize = 1
    MaxEvents = 4
CHECK_DEADLOCK FALSE
INVARIANTS
    TypeOK
    NothingSkipped
    ClosedOnce
PROPERTIES
    SendersReturn
    CloseReturns
    ClosedConnEnds
    ImplementsStream
