------------------------------ MODULE Presence ------------------------------
(***************************************************************************)
(* Who is online (internal/hub/manager.go, client.go): sessions dial in and *)
(* are put online by the hub's one loop, readers, the heartbeat checker and *)
(* publishing workers ask the loop to take sessions offline again, and the  *)
(* loop tells the others.  Clients announce statuses themselves too, of any *)
(* user: update_status.                                                     *)
(*                                                                         *)
(* The two requests travel in separate channels, so the loop may take them  *)
(* in either order.  onlineUsersMu is held across steps in one place only,  *)
(* removeClient; everywhere else its critical section is within one step.   *)
(* A timeout of a channel send fires only while the channel is full.        *)
(*                                                                         *)
(* Bounds: Sessions is the supply of connections, each dials once; the      *)
(* capacities stand for 1024.  What is sent to a client is reduced to the   *)
(* users it was told are online, and a status to offline or another one;    *)
(* module Client models the sending itself.                                 *)
(* Stopping the hub is not modelled here.                                   *)
(***************************************************************************)
EXTENDS Naturals, Sequences

CONSTANTS
    Users,          \* user ids
    Sessions,       \* Client objects, one per WebSocket connection
    Owner,          \* Owner[s]: Client.userId
    Workers,        \* worker goroutines
    Rooms,          \* the sets of users a message is published to
    Slow,           \* the sessions whose egress may be full
    Quiet,          \* the sessions that may miss heartbeats
    Frail,          \* the sessions whose events the hub may not take in time, and whose
                    \* writes may fail
    Flaky,          \* the users whose status update may fail in the directory
    Claims,         \* the update_status events: by which session, of which user, what
    RegisterCap,    \* capacity of Hub.register
    UnregisterCap,  \* capacity of Hub.unregister
    None

ASSUME OwnerAssumption == Owner \in [Sessions -> Users]
ASSUME NoneAssumption == None \notin Sessions \cup Claims
ASSUME CapAssumption == RegisterCap \in Nat \ {0} /\ UnregisterCap \in Nat \ {0}
ASSUME FaultAssumption == Slow \cup Quiet \cup Frail \subseteq Sessions /\ Flaky \subseteq Users
ASSUME RoomsAssumption == Rooms \subseteq SUBSET Users
ASSUME ClaimsAssumption ==
    Claims \subseteq [by : Sessions, of : Users, status : {"online", "offline"}]

VARIABLES
    onlineUsers,    \* Hub.onlineUsers
    mu,             \* Hub.onlineUsersMu: "free" or held for writing
    register,       \* Hub.register
    unregister,     \* Hub.unregister
    loop,           \* Hub.run: where it is, and the session it works for
    dial,           \* RegisterClient, per session
    reader,         \* ReadMessages, per session
    closed,         \* the sessions Close has run for
    cancelled,      \* the sessions whose reader ended their context
    status,         \* Client.status, per session
    stale,          \* the sessions with no heartbeat for heartbeatTimeout
    checker,        \* removeStaleClients: the sessions still to unregister
    worker,         \* per worker: the claim it handles (None: a message), the clients
                    \* still to serve, and the one to kick
    recorded,       \* the status the loop last wrote to the user directory
    known           \* known[s]: the users session s was told are online

vars == <<onlineUsers, mu, register, unregister, loop, dial, reader, closed, cancelled,
          status, stale, checker, worker, recorded, known>>
directory == <<onlineUsers, mu, recorded, known>>
goroutines == <<dial, reader, checker, worker>>
clients == <<closed, cancelled, status, stale>>

Online == {onlineUsers[u] : u \in Users} \ {None}

\* The sessions that may miss what they are sent.
Deaf == closed \cup cancelled \cup Slow

----------------------------------------------------------------------------
(* The hub's loop. *)

\* SafeSend to the sessions in S that the users in came are online and those in
\* gone are not: the closed ones refuse it, and those whose egress is full, or
\* whose context is over, may.
Tell(S, came, gone) ==
    \E lost \in SUBSET (S \cap (Slow \cup cancelled)) :
        known' = [s \in Sessions |-> IF s \in S \ (closed \cup lost)
                                     THEN (known[s] \cup came) \ gone ELSE known[s]]

\* UpdateUserStatus; a failure is logged.
\* Mutant: the status constants mixed up.
RecordMutant(u, s) ==
    recorded' = [recorded EXCEPT ![u] = IF s = "offline" THEN "away" ELSE s]
Record(u, s) ==
    \/ recorded' = [recorded EXCEPT ![u] = s]
    \/ u \in Flaky /\ UNCHANGED recorded

\* addClient, up to the broadcast.
addClient ==
    /\ loop.pc = "select"
    /\ register # <<>>
    /\ LET s == Head(register)
       IN /\ onlineUsers' = [onlineUsers EXCEPT ![Owner[s]] = s]
          /\ Record(Owner[s], "online")
          /\ loop' = [pc |-> "announce", session |-> s]
    /\ register' = Tail(register)
    /\ UNCHANGED <<mu, unregister, known, clients, goroutines>>

\* broadcastToAll of an arrival or, in the middle of removeClient, of a departure.
\* It takes onlineUsersMu for reading.
broadcastToAll ==
    LET u == Owner[loop.session]
        arrival == loop.pc = "announce"
    IN /\ loop.pc \in {"announce", "offline"}
       /\ mu = "free"
       /\ Tell(Online, IF arrival THEN {u} ELSE {}, IF arrival THEN {} ELSE {u})
       /\ loop' = [loop EXCEPT !.pc = IF arrival THEN "tell" ELSE "close"]
       /\ UNCHANGED <<onlineUsers, mu, register, unregister, recorded, clients, goroutines>>

\* The users the new client of user u is told of.
\* Mutants: the loop stops at its own session; it tells of users who are away.
ExistingMutant(u) == {}
EveryoneMutant(u) == Users \ {u}
Existing(u) == {v \in Users : v # u /\ onlineUsers[v] # None}

\* Those of them whose client says they are offline: GetStatus.
Invisible(u) == {v \in Existing(u) : onlineUsers[v] # None /\ status[onlineUsers[v]] = "offline"}

\* The end of addClient: the others' statuses go to the new client.
tellNewClient ==
    /\ loop.pc = "tell"
    /\ mu = "free"
    /\ LET u == Owner[loop.session]
       IN Tell({loop.session}, Existing(u) \ Invisible(u), Invisible(u))
    /\ loop' = [pc |-> "select", session |-> None]
    /\ UNCHANGED <<onlineUsers, mu, register, unregister, recorded, clients, goroutines>>

\* The session is the one its user is online with.
\* Mutant: whichever session the user is online with.
IsCurrentMutant(s) == onlineUsers[Owner[s]] # None
IsCurrent(s) == onlineUsers[Owner[s]] = s

\* removeClient, up to the broadcast; onlineUsersMu stays locked if there is one.
removeClient ==
    /\ loop.pc = "select"
    /\ unregister # <<>>
    /\ mu = "free"
    /\ LET s == Head(unregister)
       IN IF IsCurrent(s)
          THEN /\ onlineUsers' = [onlineUsers EXCEPT ![Owner[s]] = None]
               /\ Record(Owner[s], "offline")
               /\ mu' = "write"
               /\ loop' = [pc |-> "offline", session |-> s]
          ELSE /\ loop' = [pc |-> "close", session |-> s]
               /\ UNCHANGED <<onlineUsers, mu, recorded>>
    /\ unregister' = Tail(unregister)
    /\ UNCHANGED <<register, known, clients, goroutines>>

\* The end of removeClient: the lock is released, the client closed.
closeRemoved ==
    /\ loop.pc = "close"
    /\ mu' = "free"
    /\ closed' = closed \cup {loop.session}
    /\ loop' = [pc |-> "select", session |-> None]
    /\ UNCHANGED <<onlineUsers, register, unregister, recorded, known, cancelled, status, stale,
                   goroutines>>

----------------------------------------------------------------------------
(* One session: RegisterClient and ReadMessages. *)

Dial(s) ==
    /\ dial[s] = "new"
    /\ dial' = [dial EXCEPT ![s] = "dialing"]
    /\ UNCHANGED <<directory, register, unregister, loop, reader, clients, checker, worker>>

\* RegisterClient gets its client into the channel and starts the reader ...
RegisterClient(s) ==
    /\ dial[s] = "dialing"
    /\ Len(register) < RegisterCap
    /\ register' = Append(register, s)
    /\ dial' = [dial EXCEPT ![s] = "up"]
    /\ reader' = [reader EXCEPT ![s] = "reading"]
    /\ UNCHANGED <<directory, unregister, loop, clients, checker, worker>>

\* ... or gives up after registerTimeout and closes the connection.
\* Mutant: it waits for ever.
RegisterTimesOutMutant == FALSE
RegisterTimesOut == Len(register) = RegisterCap
RefuseClient(s) ==
    /\ dial[s] = "dialing"
    /\ RegisterTimesOut
    /\ dial' = [dial EXCEPT ![s] = "refused"]
    /\ UNCHANGED <<directory, register, unregister, loop, reader, clients, checker, worker>>

\* The reader stops: the peer went away ...
Disconnect(s) ==
    /\ reader[s] = "reading"
    /\ reader' = [reader EXCEPT ![s] = "leaving"]
    /\ UNCHANGED <<directory, register, unregister, loop, dial, clients, checker, worker>>

\* ... or the inbound queue would not take an event in time, and the reader ended
\* its own context.
CancelSelf(s) ==
    /\ s \in Frail
    /\ reader[s] = "reading"
    /\ reader' = [reader EXCEPT ![s] = "leaving"]
    /\ cancelled' = cancelled \cup {s}
    /\ UNCHANGED <<directory, register, unregister, loop, dial, closed, status, stale,
                   checker, worker>>

\* The reader of a closed session stops: the context is done, the connection closed.
StopReading(s) == s \in closed /\ Disconnect(s)

\* The reader's deferred cleanup: ask the loop, for unregisterTimeout at most,
\* then close.
\* Mutant: it waits for ever.
UnregisterTimesOutMutant == FALSE
UnregisterTimesOut == Len(unregister) = UnregisterCap
AskToUnregister(s) ==
    \/ /\ Len(unregister) < UnregisterCap
       /\ unregister' = Append(unregister, s)
    \/ UnregisterTimesOut /\ UNCHANGED unregister

Leave(s) ==
    /\ reader[s] = "leaving"
    /\ AskToUnregister(s)
    /\ reader' = [reader EXCEPT ![s] = "closing"]
    /\ UNCHANGED <<directory, register, loop, dial, clients, checker, worker>>

CloseSelf(s) ==
    /\ reader[s] = "closing"
    /\ reader' = [reader EXCEPT ![s] = "done"]
    /\ closed' = closed \cup {s}
    /\ UNCHANGED <<directory, register, unregister, loop, dial, cancelled, status, stale,
                   checker, worker>>

\* The writer's deferred close: its write failed, or the context is over.
WriterCloses(s) ==
    /\ s \in Frail
    /\ dial[s] = "up"
    /\ s \notin closed
    /\ closed' = closed \cup {s}
    /\ UNCHANGED <<directory, register, unregister, loop, cancelled, status, stale, goroutines>>

----------------------------------------------------------------------------
(* Heartbeats. *)

\* heartbeatTimeout passes without a heartbeat of s.
GoSilent(s) ==
    /\ s \in Quiet
    /\ dial[s] = "up"
    /\ stale' = stale \cup {s}
    /\ UNCHANGED <<directory, register, unregister, loop, closed, cancelled, status, goroutines>>

\* HeartbeatHandler: a worker handles a heartbeat that s sent, even when s was
\* closed since.  It matters to a stale session.
Heartbeat(s) ==
    /\ s \in stale
    /\ stale' = stale \ {s}
    /\ UNCHANGED <<directory, register, unregister, loop, closed, cancelled, status, goroutines>>

\* removeStaleClients collects the stale sessions ...
removeStaleClients ==
    /\ checker = {}
    /\ mu = "free"
    /\ checker' = Online \cap stale
    /\ UNCHANGED <<directory, register, unregister, loop, dial, reader, clients, worker>>

\* ... and asks for the removal of each; a full channel makes it close the
\* client itself after unregisterTimeout.
dropStaleClient ==
    \E s \in checker :
        /\ \/ /\ Len(unregister) < UnregisterCap
              /\ unregister' = Append(unregister, s)
              /\ UNCHANGED closed
           \/ /\ Len(unregister) = UnregisterCap
              /\ closed' = closed \cup {s}
              /\ UNCHANGED unregister
        /\ checker' = checker \ {s}
        /\ UNCHANGED <<directory, register, loop, dial, reader, cancelled, status, stale, worker>>

----------------------------------------------------------------------------
(* The workers: messages, and the statuses clients announce. *)

Idle == [claim |-> None, todo |-> {}, kick |-> None]

\* publishToRoom looks the members of a room up.
publishToRoom(w) ==
    /\ worker[w] = Idle
    /\ mu = "free"
    /\ \E room \in Rooms :
         worker' = [worker EXCEPT ![w].todo = {onlineUsers[u] : u \in room} \ {None}]
    /\ UNCHANGED <<directory, register, unregister, loop, dial, reader, clients, checker>>

\* One client of them: served or found closed, or kicked because SafeSend failed
\* and it is not closed.
deliver(w) ==
    /\ worker[w].kick = None
    /\ \E s \in worker[w].todo :
         \E failed \in {None} \cup ({s} \cap ((Slow \cup cancelled) \ closed)) :
            worker' = [worker EXCEPT ![w].todo = @ \ {s}, ![w].kick = failed]
    /\ UNCHANGED <<directory, register, unregister, loop, dial, reader, clients, checker>>

\* kickOnFull: the worker waits until the channel takes the client.
kickOnFull(w) ==
    /\ worker[w].kick # None
    /\ Len(unregister) < UnregisterCap
    /\ unregister' = Append(unregister, worker[w].kick)
    /\ worker' = [worker EXCEPT ![w].kick = None]
    /\ UNCHANGED <<directory, register, loop, dial, reader, clients, checker>>

\* UpdateStatusHandler: the status goes to the client that sent it and to the
\* directory, under whichever user id the event names ...
UpdateStatus(w) ==
    /\ worker[w] = Idle
    /\ \E c \in Claims :
         /\ dial[c.by] = "up"
         /\ status' = [status EXCEPT ![c.by] = c.status]
         /\ Record(c.of, c.status)
         /\ worker' = [worker EXCEPT ![w].claim = c]
    /\ UNCHANGED <<onlineUsers, mu, known, register, unregister, loop, dial, reader, closed,
                   cancelled, stale, checker>>

\* ... and then, by broadcastToAll, to everybody online.
broadcastClaim(w) ==
    /\ worker[w].claim # None
    /\ mu = "free"
    /\ LET c == worker[w].claim
           said(st) == {u \in {c.of} : c.status = st}
       IN Tell(Online, said("online"), said("offline"))
    /\ worker' = [worker EXCEPT ![w] = Idle]
    /\ UNCHANGED <<onlineUsers, mu, recorded, register, unregister, loop, dial, reader, clients,
                   checker>>

\* A call sets the status of its participants' clients: in a call, rung, or online.
\* It matters to a client that said it is offline.
CallStatus(s) ==
    /\ status[s] = "offline"
    /\ status' = [status EXCEPT ![s] = "online"]
    /\ UNCHANGED <<directory, register, unregister, loop, closed, cancelled, stale, goroutines>>

----------------------------------------------------------------------------

Init ==
    /\ onlineUsers = [u \in Users |-> None]
    /\ mu = "free"
    /\ register = <<>>
    /\ unregister = <<>>
    /\ loop = [pc |-> "select", session |-> None]
    /\ dial = [s \in Sessions |-> "new"]
    /\ reader = [s \in Sessions |-> "off"]
    /\ closed = {}
    /\ cancelled = {}
    /\ status = [s \in Sessions |-> "online"]
    /\ stale = {}
    /\ checker = {}
    /\ worker = [w \in Workers |-> Idle]
    /\ recorded = [u \in Users |-> "offline"]
    /\ known = [s \in Sessions |-> {}]

\* Hub.run takes from whichever channel has something.
run ==
    \/ addClient \/ broadcastToAll \/ tellNewClient
    \/ removeClient \/ closeRemoved

Register(s) == RegisterClient(s) \/ RefuseClient(s)
ReadMessages(s) == Leave(s) \/ CloseSelf(s)
Publish(w) == deliver(w) \/ kickOnFull(w)

Next ==
    \/ run
    \/ \E s \in Sessions : Dial(s) \/ Register(s)
    \/ \E s \in Sessions : Disconnect(s) \/ CancelSelf(s) \/ ReadMessages(s) \/ WriterCloses(s)
    \/ \E s \in Sessions : GoSilent(s) \/ Heartbeat(s) \/ CallStatus(s)
    \/ removeStaleClients \/ dropStaleClient
    \/ \E w \in Workers : publishToRoom(w) \/ Publish(w) \/ UpdateStatus(w) \/ broadcastClaim(w)

Spec == Init /\ [][Next]_vars

\* Every goroutine that can run does; what peers do is not fair.
Fairness ==
    /\ WF_vars(run)
    /\ \A s \in Sessions : WF_vars(Register(s)) /\ WF_vars(StopReading(s) \/ ReadMessages(s))
    /\ WF_vars(removeStaleClients) /\ WF_vars(dropStaleClient)
    /\ \A w \in Workers : WF_vars(Publish(w)) /\ WF_vars(broadcastClaim(w))

FairSpec == Spec /\ Fairness

----------------------------------------------------------------------------
(* Properties. *)

\* The shape of the state; the channels keep within their capacities.
TypeOK ==
    /\ onlineUsers \in [Users -> Sessions \cup {None}]
    /\ mu \in {"free", "write"}
    /\ register \in Seq(Sessions) /\ Len(register) <= RegisterCap
    /\ unregister \in Seq(Sessions) /\ Len(unregister) <= UnregisterCap
    /\ loop \in [pc : {"select", "announce", "tell", "offline", "close"},
                  session : Sessions \cup {None}]
    /\ dial \in [Sessions -> {"new", "dialing", "up", "refused"}]
    /\ reader \in [Sessions -> {"off", "reading", "leaving", "closing", "done"}]
    /\ closed \subseteq Sessions /\ cancelled \subseteq Sessions /\ stale \subseteq Sessions
    /\ status \in [Sessions -> {"online", "offline"}]
    /\ checker \subseteq Sessions
    /\ worker \in [Workers -> [claim : Claims \cup {None}, todo : SUBSET Sessions,
                              kick : Sessions \cup {None}]]
    /\ recorded \in [Users -> {"online", "offline"}]
    /\ known \in [Sessions -> SUBSET Users]

\* Clients announce statuses themselves, and nobody compares the user id with
\* theirs: the users some client may call offline, or whose own client may be set
\* to offline and so be shown to newcomers, and those some client may call online.
Hidden == UNION {{c.of, Owner[c.by]} : c \in {d \in Claims : d.status = "offline"}}
Claimed == {c.of : c \in {d \in Claims : d.status = "online"}}

\* Everybody online knows who else is: between two requests of the loop, an open
\* session that keeps up, and whose reader did not give up on it, was told of
\* every user online no client hides, in whichever order they, and earlier
\* sessions of theirs, arrived.
PresenceKnown ==
    loop.pc = "select" =>
        \A s \in Online \ Deaf :
            \A u \in Users \ Hidden : onlineUsers[u] # None => u \in known[s]

\* The hub keeps an address book: one arrival at a time, announced before the
\* next; when it is, everybody online who can hear was told of everybody who is
\* online, and of nobody else, but for what clients announce themselves.  With
\* the first departure the book is shut: it is not announced, and nothing after it.
BookPhase ==
    CASE loop.pc \in {"select", "close"} -> "settled"
      [] loop.pc \in {"announce", "tell"} -> "announcing"
      [] OTHER -> "shut"
Book == INSTANCE AddressBook WITH
    book <- onlineUsers,
    told <- known,
    deaf <- Deaf,
    phase <- BookPhase
ImplementsBook == Book!Spec

\* A removal that was asked for an old session never takes a newer session of
\* the same user offline: a user goes offline only on behalf of the session
\* they are online with.  (removeClient compares the ids.)
NewerSessionStays ==
    [][\A u \in Users :
         onlineUsers[u] # None /\ onlineUsers'[u] = None =>
            unregister # <<>> /\ onlineUsers[u] = Head(unregister)]_vars

\* A connection whose peer is gone, or that was closed by somebody else, is
\* cleaned up: its reader ends with the client closed, even when the loop takes
\* no requests any more and the channel is full.
SessionEnds ==
    \A s \in Sessions :
        reader[s] = "leaving" \/ (s \in closed /\ reader[s] = "reading")
            ~> reader[s] = "done" /\ s \in closed

\* RegisterClient returns, whatever state the loop is in.
DialEnds == \A s \in Sessions : dial[s] = "dialing" ~> dial[s] # "dialing"

----------------------------------------------------------------------------
(* What a comment of the code says of it, and the code does not do. *)

\* manager.go:617, "Broadcast offline status to all other online users": a
\* removal that got as far as the broadcast gets past it.
OfflineAnnounced == loop.pc = "offline" ~> loop.pc = "select"

=============================================================================
