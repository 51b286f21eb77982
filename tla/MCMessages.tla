----------------------------- MODULE MCMessages -----------------------------
(* Model-checking instances of Messages. *)
EXTENDS Messages, TLC

CONSTANTS m1, m2, ann, bob, cv1, r1, r2, w1, w2

MCConvOf == [m \in Messages |-> cv1]
\* The memberships a conversation changes between.
MCMemberships == {{ann}, {bob}}
MCFirstMembers == [cv \in Conversations |-> {ann}]

\* A message with an id of its own is sent once, its insert twice.
MCMaxSends == [m \in Messages |-> IF m = m1 THEN 2 ELSE 1]

MCSymmetry == Permutations(Rooms) \cup Permutations(Workers)

=============================================================================
