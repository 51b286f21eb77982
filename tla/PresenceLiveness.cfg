SPECIFICATION FairSpec
CONSTANTS
    ann = ann
    bob = bob
    a1 = a1
    a2 = a2
    b1 = b1
    w1 = w1
    None = None
    Users = {ann, bob}
    Sessions = {a1, a2, b1}
    Owner <- MCOwner
    Workers = {}
    Rooms <- MCRooms
    Claims <- NoClaims
    Slow = {}
    Quiet = {a1}
    Frail = {}
    Flaky = {}
    RegisterCap = 1
    UnregisterCap = 1
CHECK_DEADLOCK FALSE
PROPERTIES
    SessionEnds
    DialEnds
