--------------------------- MODULE MCCallHandler ---------------------------
(* Model-checking instances of CallHandler. *)
EXTENDS CallHandler, TLC

CONSTANTS ann, bob, eve, duo, team, k1, k2, w1, w2

MCMembers == [cv \in Conversations |-> IF cv = duo THEN {ann, bob} ELSE Users]

\* A joining request that invites bob into a conversation, or rings nobody new.
MCJoinCallees == {{bob}}

\* Overlapping calls of one conversation: who does what.
MCOverlapEvents == [u \in Users |-> IF u = ann THEN {"initiate", "cancel"}
                                    ELSE {"accept"}]

\* Every event there is, each from somebody.
MCAllEvents == [u \in Users |-> IF u = ann
    THEN {"initiate", "cancel", "leave", "reconnect", "update"}
    ELSE IF u = bob THEN {"join", "accept", "reject", "timeout", "dismiss", "connect"}
    ELSE {"accept"}]

MCSymmetry == Permutations(Calls) \cup Permutations(Workers)

=============================================================================
