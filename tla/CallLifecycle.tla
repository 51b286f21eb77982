--------------------------- MODULE CallLifecycle ---------------------------
(***************************************************************************)
(* What the call subsystem promises about the life of a call, whatever its *)
(* handlers and watchers do in between: a person is invited to a call, may *)
(* answer it once, and once out of it is never in it again; a conversation *)
(* has at most one live call, and a call that stopped being live never     *)
(* becomes live again.                                                     *)
(***************************************************************************)
CONSTANTS Users, Conversations, Calls, None

VARIABLES
    live,   \* live[cv]: the live call of the conversation, None without one
    phase   \* phase[k][u]: how far user u is with call k

vars == <<live, phase>>

Phase == {"none", "invited", "in", "out"}

Unused(k) == \A u \in Users : phase[k][u] = "none"

TypeOK ==
    /\ live \in [Conversations -> Calls \cup {None}]
    /\ phase \in [Calls -> [Users -> Phase]]

Init ==
    /\ live = [cv \in Conversations |-> None]
    /\ phase = [k \in Calls |-> [u \in Users |-> "none"]]

\* A new call goes live: u is in it, the users in S are invited.
Place(k, cv, u, S) ==
    /\ Unused(k)
    /\ live' = [live EXCEPT ![cv] = k]
    /\ phase' = [phase EXCEPT ![k] =
         [v \in Users |-> IF v = u THEN "in" ELSE IF v \in S THEN "invited" ELSE "none"]]

\* A joining request invites people to a call that never goes live.
Request(k, S) ==
    /\ Unused(k)
    /\ phase' = [phase EXCEPT ![k] = [v \in Users |-> IF v \in S THEN "invited" ELSE "none"]]
    /\ UNCHANGED live

Answer(k, u) ==
    /\ phase[k][u] = "invited"
    /\ phase' = [phase EXCEPT ![k][u] = "in"]
    /\ UNCHANGED live

\* The users in S, all of them part of the call, are out of it.
Withdraw(k, S) ==
    /\ UNCHANGED live
    /\ \A u \in S : phase[k][u] # "none"
    /\ phase' = [phase EXCEPT ![k] =
         [u \in Users |-> IF u \in S THEN "out" ELSE phase[k][u]]]

Remove(cv) ==
    /\ live' = [live EXCEPT ![cv] = None]
    /\ UNCHANGED phase

Next ==
    \/ \E k \in Calls, cv \in Conversations, u \in Users, S \in SUBSET Users : Place(k, cv, u, S)
    \/ \E k \in Calls, S \in SUBSET Users : Request(k, S) \/ Withdraw(k, S)
    \/ \E k \in Calls, u \in Users : Answer(k, u)
    \/ \E cv \in Conversations : Remove(cv)

Spec == Init /\ [][Next]_vars

=============================================================================
