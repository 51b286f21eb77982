-------------------------------- MODULE Hub --------------------------------
(***************************************************************************)
(* The goroutines of the server and what they wait for: the locks of the   *)
(* hub, the channels between readers, workers and the hub loop, and each   *)
(* other when the process stops.  The other modules follow what a handler  *)
(* does to the state a lock guards; here a goroutine is only where it is   *)
(* in its outermost critical section.                                      *)
(*                                                                         *)
(* A section is the chain of locks a piece of code takes one inside the    *)
(* other.  A goroutine outside all sections holds nothing and may enter    *)
(* any section of its code next, which includes every order in which its   *)
(* handlers do.  Inside, it takes the locks of the chain in turn; once it  *)
(* has the last one it no longer waits for a lock, and gives all of them   *)
(* up in one step.  A loop that takes an inner lock once per element       *)
(* is in the same position each time and is shown once.                    *)
(*                                                                         *)
(* Of each class there is one lock here (one shard, one room, one call):   *)
(* goroutines meet at it at least as often as they do in the program.  The *)
(* mutexes of a client (statusMu, lastSeenMu, closedMu) are held for one    *)
(* assignment and never around a wait, and are left out.  What holds up a   *)
(* goroutine for a limited time only, a database call or SafeSend, is a    *)
(* step like any other.                                                    *)
(*                                                                         *)
(* Bounds: InboundCap and KickCap are the capacities of the inbound and    *)
(* the unregister channel, 4096 and 1024 in the code.                      *)
(***************************************************************************)
EXTENDS Naturals, Sequences, FiniteSets

CONSTANTS
    Workers,    \* the worker goroutines of the hub
    Watchers,   \* timeout watchers of calls
    Monitors,   \* HTTP goroutines that serve the monitor page
    Checkers,   \* the goroutine of checkStaleClients, or none
    loop,       \* the goroutine of Hub.run
    evictor,    \* the goroutine of evictExpiredRooms
    main,       \* the main goroutine
    InboundCap,
    KickCap

Pages == Watchers \cup Monitors \cup Checkers
Goroutines == Workers \cup Pages \cup {loop, evictor, main}

ASSUME WorkersAssumption == Workers \cap (Pages \cup {loop, evictor, main}) = {}
ASSUME PagesAssumption == Pages \cap {loop, evictor, main} = {}
ASSUME SinglesAssumption == loop # evictor /\ loop # main /\ evictor # main
ASSUME CapAssumption == InboundCap \in Nat \ {0} /\ KickCap \in Nat \ {0}

VARIABLES
    section,        \* the section each goroutine is in, "none" outside
    held,           \* how many locks of its chain it holds
    step,           \* what it does: see Steps
    inbound,        \* the number of events in Hub.inbound
    inboundClosed,  \* Stop has closed Hub.inbound
    kicks,          \* the number of clients in Hub.unregister
    ctxDone,        \* Hub.ctx is cancelled
    stage,          \* how far main is in Stop
    stops,          \* how often Stop has been called
    crashed,        \* a panic outside the handler registry has ended the process
    orphaned        \* a handler that panicked has left call.Mu locked for reading

goVars == <<section, held, step>>
channelVars == <<inbound, inboundClosed, kicks>>
mainVars == <<ctxDone, stage, stops>>
panicVars == <<crashed, orphaned>>
vars == <<section, held, step, inbound, inboundClosed, kicks,
          ctxDone, stage, stops, crashed, orphaned>>

----------------------------------------------------------------------------
(* The locks and the sections. *)

\* A shard of rooms (roomBucket), Room.mu, activeCallsMu, ActiveGroupCall.Mu and
\* onlineUsersMu, all of them sync.RWMutex.
Locks == {"bucket", "room", "calls", "call", "online"}
Rd(l) == [mode |-> "R", lock |-> l]
Wr(l) == [mode |-> "W", lock |-> l]

\* The chain of each section; functions that take the same locks share one.
lookup == <<Rd("online")>>                      \* sendToUser, setUserBusy, broadcastToAll ...
readCalls == <<Rd("calls")>>                    \* getActiveCall, getCurrentRoomClientsDetail
writeCalls == <<Wr("calls")>>                   \* registerCall, endCall
writeCall == <<Wr("call")>>                     \* the handlers' critical sections
notify == <<Rd("call"), Rd("online")>>          \* notifyCallees, the second loop of endCall
findRoom == <<Rd("bucket")>>
touchRoom == <<Wr("room")>>
\* Mutant: SetRoomMembers takes the room first.
setRoomMutant == <<Wr("room"), Wr("bucket")>>
setRoom == <<Wr("bucket"), Wr("room")>>
readRoom == <<Rd("room")>>
evict == <<Wr("bucket"), Rd("room")>>
roomStats == <<Rd("bucket"), Rd("room"), Rd("online")>>
callStats == <<Rd("calls"), Rd("call")>>
addClient == <<Wr("online")>>                   \* and removeClient of a replaced client
remove == <<Wr("online"), Rd("online")>>        \* removeClient of an online client

Chain ==
    [none |-> <<>>, lookup |-> lookup, readCalls |-> readCalls, writeCalls |-> writeCalls,
     writeCall |-> writeCall, notify |-> notify, findRoom |-> findRoom,
     touchRoom |-> touchRoom, setRoom |-> setRoom, readRoom |-> readRoom, evict |-> evict,
     roomStats |-> roomStats, callStats |-> callStats, addClient |-> addClient,
     remove |-> remove]

Sections == DOMAIN Chain

\* Handlers and publications.
WorkerSections == {"lookup", "readCalls", "writeCalls", "writeCall", "notify",
                   "findRoom", "touchRoom", "setRoom", "readRoom"}
WatcherSections == {"readCalls", "writeCall", "lookup", "writeCalls", "notify"}
MonitorSections == {"lookup", "roomStats", "callStats", "readCalls"}

\* The sections goroutine g enters on its own; removals and Stop are below.
SectionsOf(g) ==
    IF g \in Workers THEN WorkerSections
    ELSE IF g \in Watchers THEN WatcherSections
    ELSE IF g \in Monitors THEN MonitorSections
    ELSE IF g = evictor THEN {"evict"}
    ELSE IF g \in Checkers THEN {"lookup"}
    ELSE IF g = loop THEN {"addClient", "lookup"}
    ELSE {}

\* out: outside; wait: waits for its next lock; in: has all its locks.  A worker
\* may also be idle in its select, or be kicking a client; a goroutine that
\* returned is gone.
Steps == {"out", "wait", "in", "idle", "kick", "gone"}

Needs(g) == Chain[section[g]][held[g] + 1]
WantsToWrite(g, l) == step[g] = "wait" /\ Needs(g) = Wr(l)
Holds(g, a) == \E i \in 1..held[g] : Chain[section[g]][i] = a

\* The loop waits for the lock it holds itself.
LoopStuck == section[loop] = "remove" /\ held[loop] = 1

----------------------------------------------------------------------------
(* Taking and giving up locks (sync.RWMutex). *)

Call(g, s) ==
    /\ section' = [section EXCEPT ![g] = s]
    /\ held' = [held EXCEPT ![g] = 0]
    /\ step' = [step EXCEPT ![g] = "wait"]

Enter(g, s) ==
    /\ step[g] = "out"
    /\ s \in SectionsOf(g)
    /\ Call(g, s)
    /\ UNCHANGED <<channelVars, mainVars, panicVars>>

\* The lock g has waited for is taken.
NextStep(g) == IF held[g] + 1 = Len(Chain[section[g]]) THEN "in" ELSE "wait"
Take(g) ==
    /\ held' = [held EXCEPT ![g] = @ + 1]
    /\ step' = [step EXCEPT ![g] = NextStep(g)]
    /\ UNCHANGED <<section, channelVars, mainVars, panicVars>>

\* A writer keeps new readers out from the moment it waits; two writers that wait
\* exclude each other.
CanRead(l) == \A h \in Goroutines : ~WantsToWrite(h, l) /\ ~Holds(h, Wr(l))
CanWrite(l) ==
    /\ \A h \in Goroutines : ~Holds(h, Rd(l)) /\ ~Holds(h, Wr(l))
    /\ ~(orphaned /\ l = "call")

RLock(g) ==
    /\ step[g] = "wait"
    /\ Needs(g).mode = "R"
    /\ CanRead(Needs(g).lock)
    /\ Take(g)

Lock(g) ==
    /\ step[g] = "wait"
    /\ Needs(g).mode = "W"
    /\ CanWrite(Needs(g).lock)
    /\ Take(g)

\* A reader that waits for a lock g held for writing gets it.
HandedTo(h, g) ==
    /\ step[h] = "wait"
    /\ Needs(h).mode = "R"
    /\ Holds(g, Wr(Needs(h).lock))

Unlock(g) ==
    /\ step[g] = "in"
    /\ section' = [section EXCEPT ![g] = "none"]
    /\ held' = [h \in Goroutines |-> IF h = g THEN 0
                                     ELSE IF HandedTo(h, g) THEN held[h] + 1 ELSE held[h]]
    /\ step' = [h \in Goroutines |-> IF h = g THEN "out"
                                     ELSE IF HandedTo(h, g) THEN NextStep(h) ELSE step[h]]
    /\ UNCHANGED <<channelVars, mainVars, panicVars>>

----------------------------------------------------------------------------
(* Clients. *)

\* The process ends, with all its goroutines and channels.
Panic ==
    /\ crashed' = TRUE
    /\ section' = [g \in Goroutines |-> "none"]
    /\ held' = [g \in Goroutines |-> 0]
    /\ step' = [g \in Goroutines |-> "gone"]
    /\ inbound' = 0
    /\ kicks' = 0
    /\ UNCHANGED <<inboundClosed, mainVars, orphaned>>

\* A reader puts an event into the channel.  One that finds it full drops its
\* client after inboundSendTimeout.
Read ==
    /\ ~inboundClosed
    /\ inbound < InboundCap
    /\ inbound' = inbound + 1
    /\ UNCHANGED <<goVars, inboundClosed, kicks, mainVars, panicVars>>

\* A send on the closed channel panics.  The select of the reader may choose it
\* although its client was closed, and Stop does not close a client that still
\* waits to be registered.
ReadPanics == inboundClosed /\ Panic

\* A reader that ends, or the checker that found a stale client, queues the client
\* for removal.  Both give up after unregisterTimeout when the channel is full.
\* Mutant: the queue has no bound.
QueueRemovalMutant ==
    /\ kicks' = kicks + 1
    /\ UNCHANGED <<goVars, inbound, inboundClosed, mainVars, panicVars>>
QueueRemoval ==
    /\ kicks < KickCap
    /\ kicks' = kicks + 1
    /\ UNCHANGED <<goVars, inbound, inboundClosed, mainVars, panicVars>>

----------------------------------------------------------------------------
(* Sends to a client that is being closed, which may panic (module Client). *)

\* The panic of a handler that notifies the participants of a call ends it in
\* between: RecoveryMiddleware lets the worker go on, and call.Mu, which no
\* deferred call gives up, stays locked.
SendPanics(w) ==
    /\ section[w] = "notify"
    /\ step[w] = "in"
    /\ orphaned' = TRUE
    /\ section' = [section EXCEPT ![w] = "none"]
    /\ held' = [held EXCEPT ![w] = 0]
    /\ step' = [step EXCEPT ![w] = "idle"]
    /\ UNCHANGED <<channelVars, mainVars, crashed>>

\* send_message, the broadcasts of the loop and the notifications of a watcher are
\* outside the handler registry.
SendCrashes(g) ==
    /\ g \in Workers \cup Watchers \cup {loop}
    /\ step[g] = "out"
    /\ Panic

----------------------------------------------------------------------------
(* Workers, the loop and the periodic goroutines. *)

Receive(w) ==
    /\ step[w] = "idle"
    /\ inbound > 0
    /\ inbound' = inbound - 1
    /\ step' = [step EXCEPT ![w] = "out"]
    /\ UNCHANGED <<section, held, inboundClosed, kicks, mainVars, panicVars>>

\* The handler returns.
Return(w) ==
    /\ step[w] = "out"
    /\ step' = [step EXCEPT ![w] = "idle"]
    /\ UNCHANGED <<section, held, channelVars, mainVars, panicVars>>

\* publishToRoom found a client whose egress channel is full; it waits for a
\* place in the unregister channel as long as it takes.
kickOnFull(w) ==
    /\ step[w] = "out"
    /\ step' = [step EXCEPT ![w] = "kick"]
    /\ UNCHANGED <<section, held, channelVars, mainVars, panicVars>>

kicked(w) ==
    /\ step[w] = "kick"
    /\ kicks < KickCap
    /\ kicks' = kicks + 1
    /\ step' = [step EXCEPT ![w] = "out"]
    /\ UNCHANGED <<section, held, inbound, inboundClosed, mainVars, panicVars>>

\* The worker's select sees the end of the context or of the channel.
WorkerEnds(w) ==
    /\ step[w] = "idle"
    /\ ctxDone \/ (inboundClosed /\ inbound = 0)
    /\ step' = [step EXCEPT ![w] = "gone"]
    /\ UNCHANGED <<section, held, channelVars, mainVars, panicVars>>

\* The loop takes a client from the unregister channel: one that is online, or
\* one that was replaced or is gone already.  The place goes to a worker that
\* waits to kick, if there is one.
removeClient(s, waiting) ==
    /\ step[loop] = "out"
    /\ kicks > 0
    /\ s \in {"remove", "addClient"}
    /\ section' = [section EXCEPT ![loop] = s]
    /\ IF waiting = {}
       THEN /\ kicks' = kicks - 1
            /\ step' = [step EXCEPT ![loop] = "wait"]
       ELSE /\ \E w \in waiting : step' = [step EXCEPT ![loop] = "wait", ![w] = "out"]
            /\ UNCHANGED kicks
    /\ UNCHANGED <<held, inbound, inboundClosed, mainVars, panicVars>>

\* The loop and the periodic goroutines leave at their select.
LoopEnds(g) ==
    /\ g \in Checkers \cup {loop, evictor}
    /\ step[g] = "out"
    /\ ctxDone
    /\ step' = [step EXCEPT ![g] = "gone"]
    /\ UNCHANGED <<section, held, channelVars, mainVars, panicVars>>

----------------------------------------------------------------------------
(* main: StartServer calls Stop after a signal, Container.Close calls it    *)
(* again on the way out.                                                    *)

\* Stop cancels the context and walks onlineUsers to close the clients.
Stop ==
    /\ \/ stage = "serving"
       \/ stage = "stopped" /\ stops = 1
    /\ ctxDone' = TRUE
    /\ stage' = "closing"
    /\ stops' = stops + 1
    /\ Call(main, "lookup")
    /\ UNCHANGED <<channelVars, panicVars>>

\* close(h.inbound) panics when the channel is closed already.
closeInbound ==
    /\ stage = "closing"
    /\ step[main] = "out"
    /\ IF inboundClosed
       THEN Panic
       ELSE /\ inboundClosed' = TRUE
            /\ stage' = "waiting"
            /\ UNCHANGED <<goVars, inbound, kicks, ctxDone, stops, panicVars>>

\* wg.Wait; a second Stop that got here would let Close go on to the database.
wait ==
    /\ stage = "waiting"
    /\ \A w \in Workers : step[w] = "gone"
    /\ stage' = "stopped"
    /\ UNCHANGED <<goVars, channelVars, ctxDone, stops, panicVars>>

----------------------------------------------------------------------------

Init ==
    /\ section = [g \in Goroutines |-> "none"]
    /\ held = [g \in Goroutines |-> 0]
    /\ step = [g \in Goroutines |-> IF g \in Workers THEN "idle" ELSE "out"]
    /\ inbound = 0
    /\ inboundClosed = FALSE
    /\ kicks = 0
    /\ ctxDone = FALSE
    /\ stage = "serving"
    /\ stops = 0
    /\ crashed = FALSE
    /\ orphaned = FALSE

Locking(g) == RLock(g) \/ Lock(g) \/ Unlock(g)
Working(w) == Receive(w) \/ Return(w) \/ kickOnFull(w) \/ kicked(w) \/ WorkerEnds(w)
Remove == \E s \in Sections : removeClient(s, {w \in Workers : step[w] = "kick"})
Stopping == Stop \/ closeInbound \/ wait

Next ==
    /\ ~crashed
    /\ \/ \E g \in Goroutines, s \in Sections : Enter(g, s)
       \/ \E g \in Goroutines : Locking(g)
       \/ \E g \in Goroutines : LoopEnds(g)
       \/ Read \/ ReadPanics \/ QueueRemoval
       \/ \E w \in Workers : Working(w) \/ SendPanics(w)
       \/ \E g \in Goroutines : SendCrashes(g)
       \/ Remove
       \/ Stopping

Spec == Init /\ [][Next]_vars

\* Every goroutine that can go on does; a worker gets its turn among the writers
\* (a sync.Mutex hands itself to whoever has starved); a handler has finitely many
\* sections; the select of the loop overlooks no channel for ever.  Signals, events
\* and connections are not fair.
Fairness ==
    /\ \A g \in Goroutines : WF_vars(~crashed /\ Locking(g))
    /\ \A w \in Workers : /\ WF_vars(~crashed /\ (Receive(w) \/ kicked(w) \/ WorkerEnds(w)))
                          /\ SF_vars(~crashed /\ Lock(w))
                          /\ SF_vars(~crashed /\ Return(w))
    /\ SF_vars(~crashed /\ Remove)
    /\ WF_vars(~crashed /\ (closeInbound \/ wait \/ (stops = 1 /\ Stop)))

FairSpec == Spec /\ Fairness

----------------------------------------------------------------------------
(* Properties. *)

\* The shape of the state.
TypeOK ==
    /\ section \in [Goroutines -> Sections]
    /\ held \in [Goroutines -> 0..3]
    /\ step \in [Goroutines -> Steps]
    /\ inbound \in 0..InboundCap
    /\ inboundClosed \in BOOLEAN
    /\ kicks \in 0..KickCap
    /\ ctxDone \in BOOLEAN
    /\ stage \in {"serving", "closing", "waiting", "stopped"}
    /\ stops \in 0..2
    /\ crashed \in BOOLEAN
    /\ orphaned \in BOOLEAN

\* g can take the lock it waits for.
CanTake(g) ==
    /\ step[g] = "wait"
    /\ IF Needs(g).mode = "R" THEN CanRead(Needs(g).lock) ELSE CanWrite(Needs(g).lock)

\* Somebody waits to write to a call whose lock a panic has left behind.
LockLost == orphaned /\ \E g \in Goroutines : WantsToWrite(g, "call")

\* Handlers, watchers, the monitor page, the loop and the evictor never wait for
\* each other in a circle: as long as anybody waits for a lock, somebody who holds
\* or awaits one can go on.  The exceptions are the loop that waits for itself and
\* the lock a panic has left behind.
NoDeadlock ==
    (\E g \in Goroutines : step[g] = "wait") =>
        LoopStuck \/ LockLost \/ \E g \in Goroutines : step[g] = "in" \/ CanTake(g)

\* A worker waits to kick a client, and nobody will make room.
KickStuck == \E w \in Workers : step[w] = "kick" /\ kicks = KickCap /\ step[loop] = "gone"

\* Stop comes back, whatever the workers, the page and the loop are at when the
\* signal comes; what can keep it is the loop stuck in its own lock, a kick into a
\* channel that nobody empties any more, and a lock left behind.
StopReturns ==
    stops = 1 ~> (stage = "stopped" \/ LoopStuck \/ KickStuck \/ LockLost \/ crashed)

\* A worker outlives the panics of its handlers: when it waits for a lock it gets
\* it, unless the loop is stuck in its own.
WorkersSurvive ==
    \A w \in Workers : step[w] = "wait" ~> (step[w] # "wait" \/ LoopStuck \/ crashed)

=============================================================================
