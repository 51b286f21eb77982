---------------------------- MODULE AddressBook ----------------------------
(***************************************************************************)
(* What the hub does about presence: a book of who is online, with which    *)
(* session, and what every session was told of it.  The book changes by one *)
(* arrival at a time, and the next change waits until the arrival has been  *)
(* announced: then every session in the book that can hear was told of      *)
(* everybody in it, and of nobody else.  A departure shuts the book: nobody *)
(* is told of it, and nobody arrives or leaves any more.  Meanwhile clients *)
(* announce the users in Claimed as present, and those in Hidden as absent, *)
(* whatever the book says.  Presence implements this with the hub's loop    *)
(* and its two request channels.                                            *)
(***************************************************************************)
CONSTANTS Users, Sessions, Owner, None, Hidden, Claimed

VARIABLES
    book,       \* the session each user is online with, or None
    told,       \* the users each session was told are online
    deaf,       \* the sessions that may not hear any more
    phase       \* of the last change: "settled", "announcing", or "shut" for good

vars == <<book, told, deaf, phase>>

Present == {u \in Users : book[u] # None}

Init ==
    /\ book = [u \in Users |-> None]
    /\ told = [s \in Sessions |-> {}]
    /\ deaf \subseteq Sessions
    /\ phase = "settled"

\* The user of session s comes online with it, in place of an earlier session.
Arrive(s) ==
    /\ phase = "settled"
    /\ book' = [book EXCEPT ![Owner[s]] = s]
    /\ phase' = "announcing"
    /\ UNCHANGED <<told, deaf>>

\* The user of session s goes offline, if it is the session they are online with.
Leave(s) ==
    /\ phase = "settled"
    /\ book[Owner[s]] = s
    /\ book' = [book EXCEPT ![Owner[s]] = None]
    /\ phase' = "shut"
    /\ UNCHANGED <<told, deaf>>

\* Sessions are told of users in S only; of a departure only if the user is hidden.
Told(S) ==
    /\ told' \in [Sessions -> SUBSET Users]
    /\ \A s \in Sessions : told'[s] \subseteq told[s] \cup S /\ told[s] \ Hidden \subseteq told'[s]
    /\ UNCHANGED <<book, deaf>>

\* What the hub announces of an arrival is true.
Inform == phase = "announcing" /\ Told(Present) /\ UNCHANGED phase

\* The last announcement: all who are there and can hear know who is there.
Settle ==
    /\ phase = "announcing"
    /\ Told(Present)
    /\ \A u \in Present : book[u] \notin deaf =>
         Present \ Hidden \subseteq told'[book[u]] /\ told'[book[u]] \subseteq Present \cup Claimed
    /\ phase' = "settled"

\* What the clients announce is whatever they like.
Claim == Told(Claimed) /\ UNCHANGED phase

\* Sessions are closed, whatever the book says of them.
Deafen ==
    /\ deaf \subseteq deaf'
    /\ UNCHANGED <<book, told, phase>>

Next ==
    \/ Deafen
    \/ \E s \in Sessions : Arrive(s) \/ Leave(s)
    \/ Inform \/ Settle \/ Claim

Spec == Init /\ [][Next]_vars

=============================================================================
