SPECIFICATION Spec
CONSTANTS
    ann = ann
    bob = bob
    a1 = a1
    a2 = a2
    b1 = b1
    w1 = w1
    None = None
    Users = {ann, bob}
    Sessions = {a1, a2, b1}
    Owner <- MCOwner
    Workers = {w1}
    Rooms <- MCRooms
    Claims <- MCClaims
    Slow = {a1}
    Quiet = {}
    Frail = {b1}
    Flaky = {bob}
    RegisterCap = 1
    UnregisterCap = 1
CHECK_DEADLOCK FALSE
INVARIANTS
    TypeOK
    PresenceKnown
PROPERTIES
    NewerSessionStays
    ImplementsBook
