SPECIFICATION Spec
CONSTANTS
    ann = ann
    bob = bob
    eve = eve
    duo = duo
    team = team
    k1 = k1
    k2 = k2
    w1 = w1
    w2 = w2
    None = None
    Users = {ann, bob, eve}
    Conversations = {team}
    Calls = {k1}
    Workers = {w1, w2}
    Members <- MCMembers
    JoinCallees <- MCJoinCallees
    Flaky = {bob}
    Connected = {ann}
    Events <- MCAllEvents
    Settable = {"away"}
SYMMETRY MCSymmetry
INVARIANTS
    TypeOK
    NobodyInCallUnasked
    ActiveCallAlive
    RingingCallUnanswered
