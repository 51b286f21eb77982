-------------------------- MODULE MessageLifecycle --------------------------
(***************************************************************************)
(* What the message subsystem promises to the users, whatever its workers, *)
(* retries and caches do in between: a message that was refused has been   *)
(* shown to nobody; from the moment anybody is shown it, it is neither     *)
(* refused nor stored again, and everybody who is shown it is shown the    *)
(* same copy of it.                                                        *)
(***************************************************************************)
EXTENDS Sequences

CONSTANTS Messages, Users

VARIABLES
    written,    \* the messages that were sent
    refused,    \* those whose sender was told that they were not saved
    store,      \* the copies in the database, in the order of their inserts
    seen        \* who was shown which copy: <<user, copy>>

vars == <<written, refused, store, seen>>

Open(m) == m \in written /\ m \notin refused
Unseen(m) == \A s \in seen : store[s[2]] # m

Init ==
    /\ written = {}
    /\ refused = {}
    /\ store = <<>>
    /\ seen = {}

\* A message is sent for the first time, or again after it was refused.
Send(m) ==
    /\ ~Open(m)
    /\ written' = written \cup {m}
    /\ refused' = refused \ {m}
    /\ UNCHANGED <<store, seen>>

Refuse(m) ==
    /\ Open(m) /\ Unseen(m)
    /\ refused' = refused \cup {m}
    /\ UNCHANGED <<written, store, seen>>

\* One more copy is stored; the sender may at the same time be told that it was not.
Keep(m) ==
    /\ Open(m) /\ Unseen(m)
    /\ store' = Append(store, m)
    /\ refused' \in {refused, refused \cup {m}}
    /\ UNCHANGED <<written, seen>>

Show(c, u) ==
    /\ Open(store[c])
    /\ \A s \in seen : store[s[2]] = store[c] => s[2] = c
    /\ seen' = seen \cup {<<u, c>>}
    /\ UNCHANGED <<written, refused, store>>

Next ==
    \/ \E m \in Messages : Send(m) \/ Refuse(m) \/ Keep(m)
    \/ \E c \in DOMAIN store, u \in Users : Show(c, u)

Spec == Init /\ [][Next]_vars

=============================================================================
