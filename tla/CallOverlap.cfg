SPECIFICATION FairSpec
CONSTANTS
    ann = ann
    bob = bob
    eve = eve
    duo = duo
    team = team
    k1 = k1
    k2 = k2
    w1 = w1
    w2 = w2
    None = None
    Users = {ann, bob}
    Conversations = {duo}
    Calls = {k1, k2}
    Workers = {w1}
    Members <- MCMembers
    JoinCallees <- MCJoinCallees
    Flaky = {}
    Connected = {ann, bob}
    Events <- MCOverlapEvents
    Settable = {"away"}
PROPERTIES
    ImplementsLifecycle
    AnsweredStays
    RingingEnds
    EndedCallRemoved
INVARIANTS
    RingingWatched
