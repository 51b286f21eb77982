SPECIFICATION Spec
CONSTANTS
    m1 = m1
    m2 = m2
    ann = ann
    bob = bob
    cv1 = cv1
    r1 = r1
    r2 = r2
    w1 = w1
    w2 = w2
    None = None
    Messages = {m1, m2}
    Keyed = {m2}
    Conversations = {cv1}
    ConvOf <- MCConvOf
    Users = {ann, bob}
    Memberships <- MCMemberships
    FirstMembers <- MCFirstMembers
    Rooms = {r1, r2}
    Workers = {w1, w2}
    Faulty = TRUE
    MaxRetries = 2
    MaxSends <- MCMaxSends
    MaxLost = 1
    MaxMarks = 1
    MaxChanges = 1
SYMMETRY MCSymmetry
CHECK_DEADLOCK FALSE
INVARIANTS
    TypeOK
    RefusedNotShown
    ShownOnce
    ShownDelivered
    RoomsAreMemberships
PROPERTIES
    ImplementsLifecycle
