--------------------------- MODULE PresenceProofs ---------------------------
(***************************************************************************)
(* Proofs about Presence, for any users, sessions, workers, rooms and       *)
(* capacities: the shape of the state, that everybody online knows who else *)
(* is between two requests of the loop, and that an old session's removal   *)
(* never takes a newer one offline.                                         *)
(*                                                                          *)
(* What everybody knows is not inductive: in the middle of addClient the    *)
(* newcomer knows nothing and nobody knows the newcomer.  Untold says who   *)
(* is still to be told what at each point of the loop, and Known says that  *)
(* the rest is known.  The loop that removes an online session holds        *)
(* onlineUsersMu, so it never gets to the broadcast.                        *)
(***************************************************************************)
EXTENDS Presence, SequenceTheorems, TLAPS

\* What session s is still to be told about user u.
Untold(s, u) ==
    \/ /\ loop.pc = "announce"
       /\ u = Owner[loop.session] \/ s = loop.session
    \/ loop.pc = "tell" /\ s = loop.session /\ u # Owner[loop.session]

Known ==
    \A s \in Online \ Deaf :
        \A u \in Users \ Hidden : onlineUsers[u] # None => u \in known[s] \/ Untold(s, u)

\* A user is online with a session of their own; while the loop puts a session
\* online it is the one of its user.
OwnSession ==
    /\ \A u \in Users : onlineUsers[u] # None => Owner[onlineUsers[u]] = u
    /\ loop.pc \in {"announce", "tell"} => onlineUsers[Owner[loop.session]] = loop.session

\* The loop works for a session, and holds the lock in the middle of a removal.
Working ==
    /\ loop.pc # "select" => loop.session \in Sessions
    /\ mu = "write" <=> loop.pc = "offline"

\* What was told is true, or a client said it, until a removal that is never
\* announced.
Truthful ==
    loop.pc # "offline" =>
        \A s \in Sessions : \A u \in known[s] : onlineUsers[u] # None \/ u \in Claimed

\* A client is offline by its own word only.
Shown == \A s \in Sessions : status[s] = "offline" => Owner[s] \in Hidden

IInv == TypeOK /\ OwnSession /\ Working /\ Known /\ Truthful /\ Shown

----------------------------------------------------------------------------
(* Sequences, and what a broadcast tells. *)

LEMMA HeadTailOf ==
  ASSUME NEW q \in Seq(Sessions), q # <<>>
  PROVE  /\ Head(q) \in Sessions /\ Tail(q) \in Seq(Sessions)
         /\ Len(Tail(q)) = Len(q) - 1 /\ Len(q) \in Nat
  BY HeadTailProperties, LenProperties

LEMMA AppendOf ==
  ASSUME NEW q \in Seq(Sessions), NEW s \in Sessions, NEW n \in Nat, Len(q) < n
  PROVE  Append(q, s) \in Seq(Sessions) /\ Len(Append(q, s)) <= n
  BY AppendProperties, LenProperties

LEMMA Told ==
  ASSUME TypeOK, NEW S \in SUBSET Sessions, NEW came \in SUBSET Users, NEW gone \in SUBSET Hidden,
         Tell(S, came, gone)
  PROVE  /\ known' \in [Sessions -> SUBSET Users]
         /\ \A s \in Sessions : known[s] \ Hidden \subseteq known'[s]
         /\ \A s \in S \ Deaf : came \ Hidden \subseteq known'[s]
         /\ \A s \in Sessions : known'[s] \subseteq known[s] \cup came
<1> PICK lost \in SUBSET (S \cap (Slow \cup cancelled)) :
      known' = [s \in Sessions |-> IF s \in S \ (closed \cup lost)
                                   THEN (known[s] \cup came) \ gone ELSE known[s]]
  BY DEF Tell
<1>1. known \in [Sessions -> SUBSET Users]
  BY DEF TypeOK
<1>2. known' \in [Sessions -> SUBSET Users]
  BY <1>1
<1>3. \A s \in S \ Deaf : s \in S \ (closed \cup lost)
  BY DEF Deaf
<1> QED
  BY <1>1, <1>2, <1>3

\* What clients say of users makes these hidden or claimed.
LEMMA SaidOf ==
  ASSUME NEW c \in Claims
  PROVE  /\ c.of \in Users /\ c.by \in Sessions /\ c.status \in {"online", "offline"}
         /\ c.status = "offline" => c.of \in Hidden /\ Owner[c.by] \in Hidden
         /\ c.status = "online" => c.of \in Claimed
<1>1. c.of \in Users /\ c.by \in Sessions /\ c.status \in {"online", "offline"}
  BY ClaimsAssumption
<1>2. ASSUME c.status = "offline" PROVE c.of \in Hidden /\ Owner[c.by] \in Hidden
  <2>1. c \in {d \in Claims : d.status = "offline"}
    BY <1>2
  <2>2. {c.of, Owner[c.by]} \subseteq Hidden
    BY <2>1 DEF Hidden
  <2> QED
    BY <2>2
<1>3. c.status = "online" => c.of \in Claimed
  BY DEF Claimed
<1> QED
  BY <1>1, <1>2, <1>3

LEMMA OnlineSessions == TypeOK => Online \subseteq Sessions
  BY DEF TypeOK, Online

----------------------------------------------------------------------------
(* The initial states and the steps of the loop. *)

LEMMA InitIInv == Init => IInv
<1> SUFFICES ASSUME Init PROVE IInv
  OBVIOUS
<1>1. TypeOK
  <2>1. <<>> \in Seq(Sessions) /\ Len(<<>>) = 0
    OBVIOUS
  <2> QED
    BY <2>1, CapAssumption DEF Init, Idle, TypeOK
<1>2. Online = {}
  BY DEF Init, Online
<1> QED
  BY <1>1, <1>2 DEF Init, IInv, OwnSession, Working, Known, Truthful, Shown

LEMMA addClientIInv == IInv /\ addClient => IInv'
<1> SUFFICES ASSUME IInv, addClient PROVE IInv'
  OBVIOUS
<1> DEFINE s == Head(register)
<1>1. /\ loop.pc = "select" /\ register # <<>>
      /\ onlineUsers' = [onlineUsers EXCEPT ![Owner[s]] = s]
      /\ Record(Owner[s], "online")
      /\ loop' = [pc |-> "announce", session |-> s]
      /\ register' = Tail(register)
      /\ UNCHANGED <<mu, unregister, known, closed, cancelled, status, stale, dial, reader,
                     checker, worker>>
  BY DEF addClient, goroutines, clients
<1>2. TypeOK /\ s \in Sessions /\ Owner[s] \in Users /\ s # None
  BY <1>1, HeadTailOf, OwnerAssumption, NoneAssumption DEF IInv, TypeOK
<1>3. register' \in Seq(Sessions) /\ Len(register') <= RegisterCap
  BY <1>1, <1>2, HeadTailOf, CapAssumption DEF TypeOK
<1> HIDE DEF s
<1>4. recorded' \in [Users -> {"online", "offline"}]
  BY <1>1, <1>2 DEF Record, TypeOK
<1>5. TypeOK'
  BY <1>1, <1>2, <1>3, <1>4 DEF TypeOK
<1>6. OwnSession'
  BY <1>1, <1>2 DEF IInv, OwnSession, TypeOK
<1>7. Working'
  BY <1>1, <1>2 DEF IInv, Working
<1>8. Known'
  <2> SUFFICES ASSUME NEW t \in Online' \ Deaf, NEW u \in Users \ Hidden,
                      onlineUsers'[u] # None, t # s, u # Owner[s]
               PROVE  u \in known[t]
    BY <1>1 DEF Known, Untold, Deaf
  <2>1. t \in Online /\ onlineUsers[u] # None
    BY <1>1, <1>2 DEF Online, TypeOK
  <2> QED
    BY <1>1, <2>1 DEF IInv, Known, Untold
<1>9. Truthful'
  BY <1>1, <1>2 DEF IInv, Truthful, TypeOK
<1>20. Shown'
  BY <1>1 DEF IInv, Shown
<1> QED
  BY <1>5, <1>6, <1>7, <1>8, <1>9, <1>20 DEF IInv

\* The broadcast that is reached is that of an arrival.
LEMMA broadcastToAllIInv == IInv /\ broadcastToAll => IInv'
<1> SUFFICES ASSUME IInv, broadcastToAll PROVE IInv'
  OBVIOUS
<1> DEFINE u == Owner[loop.session]
<1>1. loop.pc = "announce" /\ mu = "free"
  BY DEF broadcastToAll, IInv, Working
<1>2. /\ Tell(Online, {u}, {})
      /\ loop' = [loop EXCEPT !.pc = "tell"]
      /\ UNCHANGED <<onlineUsers, mu, register, unregister, recorded, closed, cancelled, status,
                     stale, dial, reader, checker, worker>>
  BY <1>1 DEF broadcastToAll, goroutines, clients
<1>3. TypeOK /\ loop.session \in Sessions /\ u \in Users
  BY <1>1, OwnerAssumption DEF IInv, Working
<1>4. loop'.pc = "tell" /\ loop'.session = loop.session /\ loop' \in [pc : {"tell"}, session : Sessions]
  BY <1>2, <1>3 DEF TypeOK
<1>5. /\ known' \in [Sessions -> SUBSET Users]
      /\ \A s \in Sessions : known[s] \ Hidden \subseteq known'[s]
      /\ \A s \in Online \ Deaf : {u} \ Hidden \subseteq known'[s]
      /\ \A s \in Sessions : known'[s] \subseteq known[s] \cup {u}
  <2>1. {u} \in SUBSET Users /\ Online \in SUBSET Sessions /\ {} \in SUBSET Hidden
    BY <1>3, OnlineSessions
  <2> HIDE DEF u
  <2> QED
    BY <1>2, <1>3, <2>1, Told
<1>6. TypeOK'
  BY <1>2, <1>3, <1>4, <1>5 DEF TypeOK
<1>7. OwnSession' /\ Working'
  BY <1>1, <1>2, <1>3, <1>4 DEF IInv, OwnSession, Working
<1>8. Known'
  <2> SUFFICES ASSUME NEW t \in Online \ Deaf, NEW v \in Users \ Hidden,
                      onlineUsers[v] # None
               PROVE  v \in known'[t] \/ (t = loop.session /\ v # u)
    BY <1>2, <1>4 DEF Known, Untold, Online, Deaf
  <2>1. t \in Sessions
    BY <1>3, OnlineSessions
  <2>2. v \in known[t] \/ v = u \/ t = loop.session
    BY <1>1 DEF IInv, Known, Untold
  <2> QED
    BY <1>5, <2>1, <2>2
<1>9. Truthful'
  <2>1. onlineUsers[u] # None
    BY <1>1, <1>3, NoneAssumption DEF IInv, OwnSession
  <2> HIDE DEF u
  <2> QED
    BY <1>1, <1>2, <1>5, <2>1 DEF IInv, Truthful
<1>20. Shown'
  BY <1>2 DEF IInv, Shown
<1> QED
  BY <1>6, <1>7, <1>8, <1>9, <1>20 DEF IInv

\* The users a newcomer is told are offline.
LEMMA InvisibleHidden == IInv => \A u : Invisible(u) \in SUBSET Hidden
<1> SUFFICES ASSUME IInv, NEW u, NEW v \in Invisible(u) PROVE v \in Hidden
  OBVIOUS
<1>1. /\ v \in Users /\ onlineUsers[v] # None /\ status[onlineUsers[v]] = "offline"
      /\ onlineUsers[v] \in Sessions
  BY DEF Invisible, Existing, IInv, TypeOK
<1> QED
  BY <1>1 DEF IInv, OwnSession, Shown

LEMMA tellNewClientIInv == IInv /\ tellNewClient => IInv'
<1> SUFFICES ASSUME IInv, tellNewClient PROVE IInv'
  OBVIOUS
<1> DEFINE n == loop.session
<1>1. /\ loop.pc = "tell" /\ mu = "free"
      /\ Tell({n}, Existing(Owner[n]) \ Invisible(Owner[n]), Invisible(Owner[n]))
      /\ loop' = [pc |-> "select", session |-> None]
      /\ UNCHANGED <<onlineUsers, mu, register, unregister, recorded, closed, cancelled, status,
                     stale, dial, reader, checker, worker>>
  BY DEF tellNewClient, goroutines, clients
<1>2. TypeOK /\ n \in Sessions
  BY <1>1 DEF IInv, Working
<1>3. /\ known' \in [Sessions -> SUBSET Users]
      /\ \A s \in Sessions : known[s] \ Hidden \subseteq known'[s]
      /\ n \notin Deaf => Existing(Owner[n]) \ Hidden \subseteq known'[n]
      /\ \A s \in Sessions : known'[s] \subseteq known[s] \cup Existing(Owner[n])
  <2>1. Invisible(Owner[n]) \in SUBSET Hidden
    BY InvisibleHidden
  <2> DEFINE S == {n}
             E == Existing(Owner[n])
             V == Invisible(Owner[n])
  <2>2. /\ S \in SUBSET Sessions /\ E \in SUBSET Users /\ V \in SUBSET Hidden
        /\ Tell(S, E \ V, V) /\ n \in S
    BY <1>1, <1>2, <2>1 DEF Existing
  <2> HIDE DEF S, E, V
  <2>3. /\ known' \in [Sessions -> SUBSET Users]
        /\ \A s \in Sessions : known[s] \ Hidden \subseteq known'[s]
        /\ \A s \in S \ Deaf : (E \ V) \ Hidden \subseteq known'[s]
        /\ \A s \in Sessions : known'[s] \subseteq known[s] \cup (E \ V)
    BY <1>2, <2>2, Told
  <2>4. \A s \in S \ Deaf : E \ Hidden \subseteq known'[s]
    BY <2>2, <2>3
  <2> QED
    BY <2>2, <2>3, <2>4 DEF E
<1>4. TypeOK'
  BY <1>1, <1>2, <1>3 DEF TypeOK
<1>5. OwnSession' /\ Working'
  BY <1>1 DEF IInv, OwnSession, Working
<1>6. Known'
  <2> SUFFICES ASSUME NEW t \in Online \ Deaf, NEW u \in Users \ Hidden,
                      onlineUsers[u] # None
               PROVE  u \in known'[t]
    BY <1>1 DEF Known, Online, Deaf
  <2>1. t \in Sessions
    BY <1>2, OnlineSessions
  <2>2. u \in known[t] \/ (t = n /\ u # Owner[n])
    BY <1>1 DEF IInv, Known, Untold
  <2> QED
    BY <1>3, <2>1, <2>2 DEF Existing
<1>7. Truthful'
  BY <1>1, <1>3 DEF IInv, Truthful, Existing
<1>20. Shown'
  BY <1>1 DEF IInv, Shown
<1> QED
  BY <1>4, <1>5, <1>6, <1>7, <1>20 DEF IInv

LEMMA removeClientIInv == IInv /\ removeClient => IInv'
<1> SUFFICES ASSUME IInv, removeClient PROVE IInv'
  OBVIOUS
<1> DEFINE s == Head(unregister)
<1>1. /\ loop.pc = "select" /\ unregister # <<>> /\ mu = "free"
      /\ \/ /\ IsCurrent(s)
            /\ onlineUsers' = [onlineUsers EXCEPT ![Owner[s]] = None]
            /\ Record(Owner[s], "offline")
            /\ mu' = "write"
            /\ loop' = [pc |-> "offline", session |-> s]
         \/ /\ loop' = [pc |-> "close", session |-> s]
            /\ UNCHANGED <<onlineUsers, mu, recorded>>
      /\ unregister' = Tail(unregister)
      /\ UNCHANGED <<register, known, closed, cancelled, status, stale, dial, reader, checker,
                     worker>>
  BY DEF removeClient, goroutines, clients
<1>2. TypeOK /\ s \in Sessions /\ Owner[s] \in Users
  BY <1>1, HeadTailOf, OwnerAssumption DEF IInv, TypeOK
<1>3. unregister' \in Seq(Sessions) /\ Len(unregister') <= UnregisterCap
  BY <1>1, <1>2, HeadTailOf, CapAssumption DEF TypeOK
<1> HIDE DEF s
<1>4. recorded' \in [Users -> {"online", "offline"}]
  BY <1>1, <1>2 DEF Record, TypeOK
<1>5. onlineUsers' \in [Users -> Sessions \cup {None}]
  BY <1>1, <1>2 DEF TypeOK
<1>6. TypeOK'
  BY <1>1, <1>2, <1>3, <1>4, <1>5 DEF TypeOK
<1>7. \A u \in Users : onlineUsers'[u] \in {onlineUsers[u], None}
  BY <1>1, <1>2 DEF TypeOK
<1>8. OwnSession' /\ Working'
  BY <1>1, <1>2, <1>7 DEF IInv, OwnSession, Working
<1>9. Known'
  <2> SUFFICES ASSUME NEW t \in Online' \ Deaf, NEW u \in Users \ Hidden,
                      onlineUsers'[u] # None
               PROVE  u \in known[t]
    BY <1>1 DEF Known, Deaf
  <2>1. t \in Online /\ onlineUsers[u] # None
    BY <1>7 DEF Online
  <2> QED
    BY <1>1, <2>1 DEF IInv, Known, Untold
<1>10. Truthful'
  BY <1>1 DEF IInv, Truthful
<1>20. Shown'
  BY <1>1 DEF IInv, Shown
<1> QED
  BY <1>6, <1>8, <1>9, <1>10, <1>20 DEF IInv

LEMMA closeRemovedIInv == IInv /\ closeRemoved => IInv'
<1> SUFFICES ASSUME IInv, closeRemoved PROVE IInv'
  OBVIOUS
<1>1. /\ loop.pc = "close" /\ mu' = "free"
      /\ closed' = closed \cup {loop.session}
      /\ loop' = [pc |-> "select", session |-> None]
      /\ UNCHANGED <<onlineUsers, register, unregister, recorded, known, cancelled, status, stale,
                     dial, reader, checker, worker>>
  BY DEF closeRemoved, goroutines, clients
<1>2. TypeOK /\ loop.session \in Sessions
  BY <1>1 DEF IInv, Working
<1>3. TypeOK'
  BY <1>1, <1>2 DEF TypeOK
<1>4. OwnSession' /\ Working'
  BY <1>1 DEF IInv, OwnSession, Working
<1>5. Known'
  BY <1>1 DEF IInv, Known, Untold, Online, Deaf
<1>6. Truthful'
  BY <1>1 DEF IInv, Truthful
<1>20. Shown'
  BY <1>1 DEF IInv, Shown
<1> QED
  BY <1>3, <1>4, <1>5, <1>6, <1>20 DEF IInv

----------------------------------------------------------------------------
(* Everybody else's steps: they add to the channels and to closed, or clients *)
(* speak of users.                                                            *)

\* What these steps leave alone.
Elsewhere ==
    /\ UNCHANGED <<onlineUsers, mu, loop>>
    /\ \/ UNCHANGED known /\ closed \subseteq closed' /\ cancelled \subseteq cancelled'
       \/ /\ UNCHANGED <<closed, cancelled>>
          /\ \A s \in Sessions : /\ known[s] \ Hidden \subseteq known'[s]
                                 /\ known'[s] \subseteq known[s] \cup Claimed

LEMMA ElsewhereIInv == IInv /\ Elsewhere /\ TypeOK' /\ Shown' => IInv'
<1> SUFFICES ASSUME IInv, Elsewhere, TypeOK', Shown' PROVE IInv'
  OBVIOUS
<1>1. OwnSession' /\ Working'
  BY DEF IInv, Elsewhere, OwnSession, Working
<1>2. /\ \A s \in Sessions : /\ known[s] \ Hidden \subseteq known'[s]
                             /\ known'[s] \subseteq known[s] \cup Claimed
      /\ Deaf \subseteq Deaf' /\ UNCHANGED <<onlineUsers, loop>>
  BY DEF Elsewhere, Deaf
<1>3. Known'
  <2> SUFFICES ASSUME NEW s \in Online' \ Deaf', NEW u \in Users \ Hidden, onlineUsers'[u] # None
               PROVE  u \in known'[s] \/ Untold(s, u)'
    BY DEF Known
  <2>1. s \in Online \ Deaf /\ s \in Sessions
    BY <1>2, OnlineSessions DEF Online, IInv
  <2>2. u \in known[s] \/ Untold(s, u)
    BY <1>2, <2>1 DEF IInv, Known
  <2>3. Untold(s, u) => Untold(s, u)'
    BY <1>2 DEF Untold
  <2> QED
    BY <1>2, <2>1, <2>2, <2>3
<1>4. Truthful'
  BY <1>2 DEF IInv, Truthful
<1> QED
  BY <1>1, <1>3, <1>4 DEF IInv

LEMMA SessionSteps ==
  ASSUME TypeOK, Shown, NEW s \in Sessions,
         \/ Dial(s) \/ Register(s) \/ Disconnect(s) \/ CancelSelf(s) \/ ReadMessages(s)
         \/ WriterCloses(s) \/ GoSilent(s) \/ Heartbeat(s) \/ CallStatus(s)
  PROVE  TypeOK' /\ Shown' /\ Elsewhere
<1>1. CASE Dial(s)
  BY <1>1 DEF Dial, TypeOK, Shown, Elsewhere, directory, clients
<1>2. CASE RegisterClient(s)
  <2>1. register' \in Seq(Sessions) /\ Len(register') <= RegisterCap
    BY <1>2, AppendOf, CapAssumption DEF RegisterClient, TypeOK
  <2> QED
    BY <1>2, <2>1 DEF RegisterClient, TypeOK, Shown, Elsewhere, directory, clients
<1>3. CASE RefuseClient(s)
  BY <1>3 DEF RefuseClient, TypeOK, Shown, Elsewhere, directory, clients
<1>4. CASE Disconnect(s)
  BY <1>4 DEF Disconnect, TypeOK, Shown, Elsewhere, directory, clients
<1>5. CASE Leave(s)
  <2>1. unregister' \in Seq(Sessions) /\ Len(unregister') <= UnregisterCap
    <3>1. CASE UNCHANGED unregister
      BY <3>1 DEF TypeOK
    <3>2. CASE Len(unregister) < UnregisterCap /\ unregister' = Append(unregister, s)
      BY <3>2, AppendOf, CapAssumption DEF TypeOK
    <3> QED
      BY <1>5, <3>1, <3>2 DEF Leave, AskToUnregister
  <2> QED
    BY <1>5, <2>1 DEF Leave, TypeOK, Shown, Elsewhere, directory, clients
<1>6. CASE CloseSelf(s)
  BY <1>6 DEF CloseSelf, TypeOK, Shown, Elsewhere, directory, clients
<1>7. CASE GoSilent(s)
  BY <1>7 DEF GoSilent, TypeOK, Shown, Elsewhere, directory, clients, goroutines
<1>8. CASE Heartbeat(s)
  BY <1>8 DEF Heartbeat, TypeOK, Shown, Elsewhere, directory, clients, goroutines
<1>9. CASE CancelSelf(s)
  BY <1>9 DEF CancelSelf, TypeOK, Shown, Elsewhere, directory, clients
<1>10. CASE WriterCloses(s)
  BY <1>10 DEF WriterCloses, TypeOK, Shown, Elsewhere, directory, clients, goroutines
<1>11. CASE CallStatus(s)
  <2>1. status' = [status EXCEPT ![s] = "online"]
    BY <1>11 DEF CallStatus
  <2>2. Shown'
    BY <2>1 DEF TypeOK, Shown
  <2> QED
    BY <1>11, <2>2 DEF CallStatus, TypeOK, Elsewhere, directory, clients, goroutines
<1> QED
  BY <1>1, <1>2, <1>3, <1>4, <1>5, <1>6, <1>7, <1>8, <1>9, <1>10, <1>11 DEF Register, ReadMessages

LEMMA CheckerSteps ==
  ASSUME TypeOK, Shown, removeStaleClients \/ dropStaleClient
  PROVE  TypeOK' /\ Shown' /\ Elsewhere
<1>1. CASE removeStaleClients
  BY <1>1 DEF removeStaleClients, TypeOK, Shown, Elsewhere, directory, clients
<1>2. CASE dropStaleClient
  <2> PICK s \in checker :
        /\ \/ /\ Len(unregister) < UnregisterCap
              /\ unregister' = Append(unregister, s)
              /\ UNCHANGED closed
           \/ /\ closed' = closed \cup {s}
              /\ UNCHANGED unregister
        /\ checker' = checker \ {s}
        /\ UNCHANGED <<directory, register, loop, dial, reader, cancelled, status, stale, worker>>
    BY <1>2 DEF dropStaleClient
  <2>1. s \in Sessions
    BY DEF TypeOK
  <2>2. unregister' \in Seq(Sessions) /\ Len(unregister') <= UnregisterCap
    <3>1. CASE UNCHANGED unregister
      BY <3>1 DEF TypeOK
    <3>2. CASE Len(unregister) < UnregisterCap /\ unregister' = Append(unregister, s)
      BY <2>1, <3>2, AppendOf, CapAssumption DEF TypeOK
    <3> QED
      BY <3>1, <3>2
  <2> QED
    BY <2>1, <2>2 DEF TypeOK, Shown, Elsewhere, directory, clients
<1> QED
  BY <1>1, <1>2

LEMMA WorkerSteps ==
  ASSUME TypeOK, Shown, NEW w \in Workers, publishToRoom(w) \/ Publish(w) \/ UpdateStatus(w) \/ broadcastClaim(w)
  PROVE  TypeOK' /\ Shown' /\ Elsewhere
<1> DEFINE W == [claim : Claims \cup {None}, todo : SUBSET Sessions, kick : Sessions \cup {None}]
<1>1. worker \in [Workers -> W] /\ worker[w] \in W
  BY DEF TypeOK
<1>2. CASE publishToRoom(w)
  <2> PICK room \in Rooms :
        worker' = [worker EXCEPT ![w].todo = {onlineUsers[u] : u \in room} \ {None}]
    BY <1>2 DEF publishToRoom
  <2>1. {onlineUsers[u] : u \in room} \ {None} \in SUBSET Sessions
    BY RoomsAssumption DEF TypeOK
  <2>2. worker' \in [Workers -> W]
    BY <1>1, <2>1
  <2> QED
    BY <1>2, <2>2 DEF publishToRoom, TypeOK, Shown, Elsewhere, directory, clients
<1>3. CASE deliver(w)
  <2> DEFINE Failed(s) == {None} \cup ({s} \cap ((Slow \cup cancelled) \ closed))
  <2> PICK s \in worker[w].todo : \E full \in Failed(s) :
        worker' = [worker EXCEPT ![w].todo = @ \ {s}, ![w].kick = full]
    BY <1>3 DEF deliver
  <2> PICK full \in Failed(s) :
        worker' = [worker EXCEPT ![w].todo = @ \ {s}, ![w].kick = full]
    OBVIOUS
  <2>1. s \in Sessions /\ full \in Sessions \cup {None}
    BY <1>1
  <2>2. worker' \in [Workers -> W]
    BY <1>1, <2>1
  <2> QED
    BY <1>3, <2>2 DEF deliver, TypeOK, Shown, Elsewhere, directory, clients
<1>4. CASE kickOnFull(w)
  <2>1. worker[w].kick \in Sessions
    BY <1>1, <1>4 DEF kickOnFull
  <2>2. unregister' \in Seq(Sessions) /\ Len(unregister') <= UnregisterCap
    BY <1>4, <2>1, AppendOf, CapAssumption DEF kickOnFull, TypeOK
  <2>3. worker' \in [Workers -> W]
    BY <1>1, <1>4 DEF kickOnFull
  <2> QED
    BY <1>4, <2>2, <2>3 DEF kickOnFull, TypeOK, Shown, Elsewhere, directory, clients
<1>5. CASE UpdateStatus(w)
  <2> PICK c \in Claims :
        /\ status' = [status EXCEPT ![c.by] = c.status]
        /\ Record(c.of, c.status)
        /\ worker' = [worker EXCEPT ![w].claim = c]
    BY <1>5 DEF UpdateStatus
  <2>1. /\ c.of \in Users /\ c.by \in Sessions /\ c.status \in {"online", "offline"}
        /\ c.status = "offline" => Owner[c.by] \in Hidden
    BY SaidOf
  <2>2. recorded' \in [Users -> {"online", "offline"}]
    BY <2>1 DEF Record, TypeOK
  <2>3. worker' \in [Workers -> W]
    BY <1>1
  <2>4. status' \in [Sessions -> {"online", "offline"}] /\ Shown'
    BY <2>1 DEF TypeOK, Shown
  <2> QED
    BY <1>5, <2>2, <2>3, <2>4 DEF UpdateStatus, TypeOK, Elsewhere
<1>6. CASE broadcastClaim(w)
  <2> DEFINE c == worker[w].claim
             said(st) == {u \in {c.of} : c.status = st}
  <2>1. c \in Claims /\ Tell(Online, said("online"), said("offline"))
    BY <1>1, <1>6 DEF broadcastClaim
  <2>2. said("online") \in SUBSET Users /\ said("online") \subseteq Claimed
        /\ said("offline") \in SUBSET Hidden
    BY <2>1, SaidOf
  <2> DEFINE came == said("online")
             gone == said("offline")
  <2>3. came \in SUBSET Users /\ came \subseteq Claimed /\ gone \in SUBSET Hidden
        /\ Tell(Online, came, gone)
    BY <2>1, <2>2
  <2> HIDE DEF came, gone
  <2>4. /\ known' \in [Sessions -> SUBSET Users]
        /\ \A s \in Sessions : known[s] \ Hidden \subseteq known'[s]
        /\ \A s \in Sessions : known'[s] \subseteq known[s] \cup came
    BY <2>3, OnlineSessions, Told
  <2>5. worker' \in [Workers -> W]
    BY <1>1, <1>6 DEF broadcastClaim, Idle
  <2>6. UNCHANGED <<onlineUsers, mu, loop, closed, cancelled, status>>
    BY <1>6 DEF broadcastClaim, clients
  <2>7. TypeOK' /\ Shown'
    BY <1>6, <2>4, <2>5 DEF broadcastClaim, clients, TypeOK, Shown
  <2> QED
    BY <2>3, <2>4, <2>6, <2>7 DEF Elsewhere
<1> QED
  BY <1>2, <1>3, <1>4, <1>5, <1>6 DEF Publish

----------------------------------------------------------------------------
(* The theorems. *)

LEMMA NextIInv == IInv /\ [Next]_vars => IInv'
<1> SUFFICES ASSUME IInv, [Next]_vars PROVE IInv'
  OBVIOUS
<1>1. CASE run
  BY <1>1, addClientIInv, broadcastToAllIInv, tellNewClientIInv, removeClientIInv,
     closeRemovedIInv DEF run
<1>2. CASE \E s \in Sessions :
              \/ Dial(s) \/ Register(s) \/ Disconnect(s) \/ CancelSelf(s) \/ ReadMessages(s)
              \/ WriterCloses(s) \/ GoSilent(s) \/ Heartbeat(s) \/ CallStatus(s)
  BY <1>2, SessionSteps, ElsewhereIInv DEF IInv
<1>3. CASE removeStaleClients \/ dropStaleClient
  BY <1>3, CheckerSteps, ElsewhereIInv DEF IInv
<1>4. CASE \E w \in Workers :
              publishToRoom(w) \/ Publish(w) \/ UpdateStatus(w) \/ broadcastClaim(w)
  BY <1>4, WorkerSteps, ElsewhereIInv DEF IInv
<1>5. CASE UNCHANGED vars
  BY <1>5 DEF vars, IInv, TypeOK, OwnSession, Working, Known, Untold, Online, Deaf, Truthful, Shown
<1> QED
  BY <1>1, <1>2, <1>3, <1>4, <1>5 DEF Next

\* The inductive invariant holds of every state of the program.
THEOREM Invariance == Spec => []IInv
  BY InitIInv, NextIInv, PTL DEF Spec

\* The state keeps its shape and the channels their capacities.
THEOREM TypeCorrect == Spec => []TypeOK
<1>1. IInv => TypeOK
  BY DEF IInv
<1> QED
  BY <1>1, Invariance, PTL

\* Between two requests of addClient and removeClient, everybody online who is
\* open, keeps up and was not given up by its own reader (an inbound timeout) was
\* told of everybody else that no client hides.
THEOREM EveryoneKnows == Spec => []PresenceKnown
<1>1. IInv => PresenceKnown
  BY DEF IInv, Known, Untold, PresenceKnown
<1> QED
  BY <1>1, Invariance, PTL

\* removeClient takes a user offline only for the session the user is online
\* with, and nothing else takes a user offline.
THEOREM NewerStays == Spec => NewerSessionStays
<1> DEFINE Stays == \A u \in Users :
                       onlineUsers[u] # None /\ onlineUsers'[u] = None =>
                          unregister # <<>> /\ onlineUsers[u] = Head(unregister)
<1>1. IInv /\ [Next]_vars => [Stays]_vars
  <2> SUFFICES ASSUME IInv, Next, NEW u \in Users, onlineUsers[u] # None, onlineUsers'[u] = None
               PROVE  unregister # <<>> /\ onlineUsers[u] = Head(unregister)
    OBVIOUS
  <2>0. TypeOK /\ Shown
    BY DEF IInv
  <2>1. onlineUsers' # onlineUsers
    OBVIOUS
  <2>2. ~Elsewhere
    BY <2>1 DEF Elsewhere
  <2>3. run
    BY <2>0, <2>2, SessionSteps, CheckerSteps, WorkerSteps DEF Next
  <2>4. ~addClient
    <3> SUFFICES ASSUME addClient PROVE FALSE
      OBVIOUS
    <3>1. Head(register) \in Sessions
      BY <2>0, HeadTailOf DEF addClient, TypeOK
    <3> QED
      BY <2>0, <3>1, NoneAssumption, OwnerAssumption DEF addClient, TypeOK
  <2>5. removeClient
    BY <2>1, <2>3, <2>4 DEF run, broadcastToAll, tellNewClient, closeRemoved
  <2>6. ASSUME NEW s, IsCurrent(s), onlineUsers' = [onlineUsers EXCEPT ![Owner[s]] = None]
        PROVE  onlineUsers[u] = s
    BY <2>0, <2>6 DEF IsCurrent, TypeOK
  <2> QED
    BY <2>1, <2>5, <2>6 DEF removeClient
<1> QED
  BY <1>1, Invariance, PTL DEF Spec, NewerSessionStays

----------------------------------------------------------------------------
(* The hub keeps an address book. *)

Present == {u \in Users : onlineUsers[u] # None}

\* A step the book does not show, or shows as sessions that stop to hear.
LEMMA HiddenStep ==
  ASSUME UNCHANGED <<onlineUsers, known>>, BookPhase' = BookPhase, Deaf \subseteq Deaf'
  PROVE  [Book!Next]_(Book!vars)
  BY DEF Book!Next, Book!Deafen, Book!vars

LEMMA addClientStep == IInv /\ addClient => Book!Next
<1> SUFFICES ASSUME IInv, addClient PROVE Book!Next
  OBVIOUS
<1> DEFINE s == Head(register)
<1>1. s \in Sessions
  BY HeadTailOf DEF addClient, IInv, TypeOK
<1>2. BookPhase = "settled" /\ BookPhase' = "announcing" /\ UNCHANGED Deaf
  BY DEF addClient, BookPhase, Deaf, clients
<1>3. Book!Arrive(s)
  BY <1>2 DEF addClient, Book!Arrive
<1> QED
  BY <1>1, <1>3 DEF Book!Next

\* A departure shuts the book.
LEMMA removeClientStep == IInv /\ removeClient => [Book!Next]_(Book!vars)
<1> SUFFICES ASSUME IInv, removeClient PROVE [Book!Next]_(Book!vars)
  OBVIOUS
<1> DEFINE s == Head(unregister)
<1>1. s \in Sessions /\ UNCHANGED Deaf
  BY HeadTailOf DEF removeClient, IInv, TypeOK, Deaf, clients
<1>2. CASE IsCurrent(s)
  <2>1. BookPhase = "settled" /\ BookPhase' = "shut"
    BY <1>2 DEF removeClient, BookPhase
  <2>2. Book!Leave(s)
    BY <1>1, <1>2, <2>1 DEF removeClient, IsCurrent, Book!Leave
  <2> QED
    BY <1>1, <2>2 DEF Book!Next
<1>3. CASE ~IsCurrent(s)
  <2>1. BookPhase' = BookPhase
    BY <1>3 DEF removeClient, BookPhase
  <2>2. UNCHANGED <<onlineUsers, known>>
    BY <1>3 DEF removeClient
  <2> QED
    BY <1>1, <2>1, <2>2, HiddenStep
<1> QED
  BY <1>2, <1>3

LEMMA broadcastStep == IInv /\ broadcastToAll => Book!Next
<1> SUFFICES ASSUME IInv, broadcastToAll PROVE Book!Next
  OBVIOUS
<1> DEFINE came == {Owner[loop.session]}
<1>1. loop.pc = "announce" /\ loop.session \in Sessions
  BY DEF broadcastToAll, IInv, Working
<1>2. came \in SUBSET Users /\ came \subseteq Present
  BY <1>1, OwnerAssumption, NoneAssumption DEF Present, IInv, OwnSession
<1>3. /\ Tell(Online, came, {})
      /\ UNCHANGED <<onlineUsers, closed, cancelled>>
      /\ loop'.pc = "tell"
  BY <1>1 DEF broadcastToAll, IInv, TypeOK, clients
<1>4. Online \in SUBSET Sessions /\ {} \in SUBSET Hidden /\ TypeOK
  BY OnlineSessions DEF IInv
<1>5. BookPhase = "announcing" /\ BookPhase' = "announcing" /\ UNCHANGED Deaf
  BY <1>1, <1>3 DEF BookPhase, Deaf
<1> HIDE DEF came
<1>6. /\ known' \in [Sessions -> SUBSET Users]
      /\ \A s \in Sessions : known[s] \ Hidden \subseteq known'[s]
      /\ \A s \in Sessions : known'[s] \subseteq known[s] \cup came
  BY <1>2, <1>3, <1>4, Told
<1>7. Book!Inform
  BY <1>2, <1>3, <1>5, <1>6 DEF Book!Inform, Book!Told, Book!Present, Present
<1> QED
  BY <1>7 DEF Book!Next

\* With the last telling of addClient everybody knows who is there.
LEMMA tellNewClientStep == IInv /\ tellNewClient => Book!Next
<1> SUFFICES ASSUME IInv, tellNewClient PROVE Book!Next
  OBVIOUS
<1> DEFINE S == {loop.session}
           E == Existing(Owner[loop.session])
           V == Invisible(Owner[loop.session])
<1>1. /\ loop.pc = "tell" /\ loop'.pc = "select"
      /\ Tell(S, E \ V, V)
      /\ UNCHANGED <<onlineUsers, closed, cancelled>>
  BY DEF tellNewClient, clients
<1>2. S \in SUBSET Sessions /\ E \subseteq Present /\ E \ V \in SUBSET Users
  BY <1>1 DEF IInv, Working, Existing, Present
<1>3. V \in SUBSET Hidden /\ TypeOK
  BY InvisibleHidden DEF IInv
<1>4. BookPhase = "announcing" /\ BookPhase' = "settled" /\ UNCHANGED Deaf
  BY <1>1 DEF BookPhase, Deaf
<1> HIDE DEF S, E, V
<1>5. /\ known' \in [Sessions -> SUBSET Users]
      /\ \A s \in Sessions : known[s] \ Hidden \subseteq known'[s]
      /\ \A s \in Sessions : known'[s] \subseteq known[s] \cup (E \ V)
  BY <1>1, <1>2, <1>3, Told
<1>6. Book!Told(Present)
  BY <1>1, <1>2, <1>4, <1>5 DEF Book!Told
<1>7. IInv'
  BY tellNewClientIInv
<1>8. ASSUME NEW u \in Present, onlineUsers[u] \notin Deaf
      PROVE  /\ Present \ Hidden \subseteq known'[onlineUsers[u]]
             /\ known'[onlineUsers[u]] \subseteq Present \cup Claimed
  <2> DEFINE s == onlineUsers[u]
  <2>1. s \in Sessions /\ s \in Online \ Deaf /\ TypeOK'
    BY <1>3, <1>7, <1>8 DEF IInv, TypeOK, Present, Online
  <2>2. s \in Online' \ Deaf'
    BY <1>1, <1>4, <2>1 DEF Online
  <2> HIDE DEF s
  <2>3. \A v \in Users \ Hidden : onlineUsers[v] # None => v \in known'[s]
    BY <1>1, <1>7, <2>2 DEF IInv, Known, Untold
  <2>4. \A v \in known'[s] : v \in Users /\ (onlineUsers[v] # None \/ v \in Claimed)
    BY <1>1, <1>7, <2>1 DEF IInv, Truthful, TypeOK
  <2> QED
    BY <2>3, <2>4 DEF s, Present
<1>9. Book!Present = Present
  BY DEF Book!Present, Present
<1>10. Book!Settle
  BY <1>4, <1>6, <1>8, <1>9 DEF Book!Settle
<1> QED
  BY <1>10 DEF Book!Next

LEMMA closeRemovedStep == IInv /\ closeRemoved => [Book!Next]_(Book!vars)
<1> SUFFICES ASSUME IInv, closeRemoved PROVE [Book!Next]_(Book!vars)
  OBVIOUS
<1>1. BookPhase' = BookPhase /\ Deaf \subseteq Deaf' /\ UNCHANGED <<onlineUsers, known>>
  BY DEF closeRemoved, BookPhase, Deaf
<1> QED
  BY <1>1, HiddenStep

LEMMA ElsewhereStep == TypeOK' /\ Elsewhere => [Book!Next]_(Book!vars)
<1> SUFFICES ASSUME TypeOK', Elsewhere PROVE [Book!Next]_(Book!vars)
  OBVIOUS
<1>1. UNCHANGED <<onlineUsers, BookPhase>>
  BY DEF Elsewhere, BookPhase
<1>2. CASE UNCHANGED known /\ closed \subseteq closed' /\ cancelled \subseteq cancelled'
  <2>1. Deaf \subseteq Deaf'
    BY <1>2 DEF Deaf
  <2> QED
    BY <1>1, <1>2, <2>1, HiddenStep
<1>3. CASE /\ UNCHANGED <<closed, cancelled>>
           /\ \A s \in Sessions : /\ known[s] \ Hidden \subseteq known'[s]
                                  /\ known'[s] \subseteq known[s] \cup Claimed
  <2>1. UNCHANGED Deaf /\ known' \in [Sessions -> SUBSET Users]
    BY <1>3 DEF Deaf, TypeOK
  <2>2. Book!Claim
    BY <1>1, <1>3, <2>1 DEF Book!Claim, Book!Told
  <2> QED
    BY <2>2 DEF Book!Next
<1> QED
  BY <1>2, <1>3 DEF Elsewhere

\* The hub's loop, its two channels and everybody who writes to them keep an
\* address book: one arrival at a time, announced before the next; after each
\* announcement everybody online who can hear was told of everybody online and of
\* nobody else, but for the users clients speak of themselves; a departure shuts it.
THEOREM Refinement == Spec => ImplementsBook
<1>1. Init => Book!Init
  <2>1. ASSUME Init PROVE Book!Init
    <3>1. BookPhase = "settled" /\ Deaf \subseteq Sessions
      BY <2>1, FaultAssumption DEF Init, BookPhase, Deaf
    <3> QED
      BY <2>1, <3>1 DEF Init, Book!Init
  <2> QED
    BY <2>1
<1>2. IInv /\ [Next]_vars => [Book!Next]_(Book!vars)
  <2> SUFFICES ASSUME IInv, [Next]_vars PROVE [Book!Next]_(Book!vars)
    OBVIOUS
  <2>1. TypeOK /\ Shown /\ IInv'
    BY NextIInv DEF IInv
  <2>2. CASE run
    BY <2>2, addClientStep, broadcastStep, tellNewClientStep, removeClientStep,
       closeRemovedStep DEF run
  <2>3. CASE Elsewhere
    BY <2>1, <2>3, ElsewhereStep DEF IInv
  <2>4. CASE UNCHANGED vars
    <3>1. BookPhase' = BookPhase /\ Deaf \subseteq Deaf' /\ UNCHANGED <<onlineUsers, known>>
      BY <2>4 DEF vars, BookPhase, Deaf
    <3> QED
      BY <3>1, HiddenStep
  <2> QED
    BY <2>1, <2>2, <2>3, <2>4, SessionSteps, CheckerSteps, WorkerSteps DEF Next
<1> QED
  BY <1>1, <1>2, Invariance, PTL DEF Spec, ImplementsBook, Book!Spec

----------------------------------------------------------------------------
(* What becomes of a departure. *)

\* removeClient never gets past its own broadcast: the loop keeps the lock that
\* broadcastToAll waits for, whatever everybody else does.
THEOREM RemovalNeverEnds ==
  Spec => [][loop.pc = "offline" => loop' = loop /\ mu' = "write"]_vars
<1>1. IInv /\ [Next]_vars => [loop.pc = "offline" => loop' = loop /\ mu' = "write"]_vars
  <2> SUFFICES ASSUME IInv, Next, loop.pc = "offline"
               PROVE  loop' = loop /\ mu' = "write"
    OBVIOUS
  <2>1. TypeOK /\ Shown /\ mu = "write"
    BY DEF IInv, Working
  <2>2. ~run
    BY <2>1 DEF run, addClient, broadcastToAll, tellNewClient, removeClient, closeRemoved
  <2>3. Elsewhere
    BY <2>1, <2>2, SessionSteps, CheckerSteps, WorkerSteps DEF Next
  <2> QED
    BY <2>1, <2>3 DEF Elsewhere
<1> QED
  BY <1>1, Invariance, PTL DEF Spec

\* For that reason the hub itself never tells anybody that a user went offline: a
\* user that was announced to a session stays announced to it, unless a client says
\* otherwise of that user, or said so of its own status.
THEOREM DeparturesUntold ==
  Spec => [][\A s \in Sessions : known[s] \ Hidden \subseteq known'[s]]_vars
<1> DEFINE Kept == \A s \in Sessions : known[s] \ Hidden \subseteq known'[s]
<1>1. IInv /\ [Next]_vars => [Kept]_vars
  <2> SUFFICES ASSUME IInv, Next PROVE Kept
    OBVIOUS
  <2>1. TypeOK /\ Shown /\ Online \in SUBSET Sessions /\ {} \in SUBSET Hidden
    BY OnlineSessions DEF IInv
  <2>2. CASE UNCHANGED known
    BY <2>2
  <2>3. CASE broadcastToAll
    <3>1. loop.pc = "announce" /\ loop.session \in Sessions
      BY <2>3 DEF broadcastToAll, IInv, Working
    <3>2. PICK came \in SUBSET Users : Tell(Online, came, {})
      BY <2>3, <3>1, OwnerAssumption DEF broadcastToAll
    <3> QED
      BY <2>1, <3>2, Told
  <2>4. CASE tellNewClient
    <3> DEFINE S == {loop.session}
               came == Existing(Owner[loop.session]) \ Invisible(Owner[loop.session])
               gone == Invisible(Owner[loop.session])
    <3>1. /\ S \in SUBSET Sessions /\ came \in SUBSET Users /\ gone \in SUBSET Hidden
          /\ Tell(S, came, gone)
      BY <2>4, InvisibleHidden DEF tellNewClient, IInv, Working, Existing
    <3> HIDE DEF S, came, gone
    <3> QED
      BY <2>1, <3>1, Told
  <2>5. CASE addClient \/ removeClient \/ closeRemoved
    BY <2>2, <2>5 DEF addClient, removeClient, closeRemoved
  <2>6. CASE Elsewhere
    BY <2>6 DEF Elsewhere
  <2> QED
    BY <2>1, <2>3, <2>4, <2>5, <2>6, SessionSteps, CheckerSteps, WorkerSteps DEF Next, run
<1> QED
  BY <1>1, Invariance, PTL DEF Spec

----------------------------------------------------------------------------
(* Sessions do not come back. *)

\* A session is asked for once and online at most once: it is in the channel once,
\* not online at the same time, and nowhere before RegisterClient got it in.
Arrivals ==
    /\ \A i, j \in 1 .. Len(register) : register[i] = register[j] => i = j
    /\ \A i \in 1 .. Len(register) :
         dial[register[i]] = "up" /\ onlineUsers[Owner[register[i]]] # register[i]
    /\ \A u \in Users : onlineUsers[u] # None => dial[onlineUsers[u]] = "up"

\* Session s has left the register channel and its user is not online with it.
Gone(s) ==
    /\ dial[s] = "up"
    /\ \A i \in 1 .. Len(register) : register[i] # s
    /\ onlineUsers[Owner[s]] # s

\* What the steps do to the register channel and the map.
LEMMA ArrivalSteps ==
  ASSUME IInv, Next
  PROVE  \/ addClient
         \/ \E t \in Sessions : RegisterClient(t)
         \/ /\ UNCHANGED register
            /\ \/ UNCHANGED <<onlineUsers, dial>>
               \/ UNCHANGED dial /\ \E u : onlineUsers' = [onlineUsers EXCEPT ![u] = None]
               \/ /\ UNCHANGED onlineUsers
                  /\ \E t, d : dial[t] # "up" /\ dial' = [dial EXCEPT ![t] = d] /\ d # "up"
<1>1. CASE addClient \/ \E t \in Sessions : RegisterClient(t)
  BY <1>1
<1>2. CASE removeClient
  <2>1. UNCHANGED <<register, dial>>
    BY <1>2 DEF removeClient, goroutines
  <2>2. UNCHANGED onlineUsers \/ \E u : onlineUsers' = [onlineUsers EXCEPT ![u] = None]
    BY <1>2 DEF removeClient
  <2> QED
    BY <2>1, <2>2
<1>3. ASSUME NEW t \in Sessions, Dial(t) \/ RefuseClient(t)
      PROVE  /\ UNCHANGED <<register, onlineUsers>>
             /\ \E d : dial[t] # "up" /\ dial' = [dial EXCEPT ![t] = d] /\ d # "up"
  BY <1>3 DEF Dial, RefuseClient, directory
<1>4. CASE \E t \in Sessions : Dial(t) \/ RefuseClient(t)
  BY <1>3, <1>4
<1>5. CASE UNCHANGED <<onlineUsers, register, dial>>
  BY <1>5
<1>6. \/ addClient \/ removeClient
      \/ \E t \in Sessions : RegisterClient(t) \/ Dial(t) \/ RefuseClient(t)
      \/ UNCHANGED <<onlineUsers, register, dial>>
  BY DEF Next, run, broadcastToAll, tellNewClient, closeRemoved, Register, Disconnect, CancelSelf,
         ReadMessages, Leave, CloseSelf, WriterCloses, GoSilent, Heartbeat, CallStatus,
         removeStaleClients, dropStaleClient, publishToRoom, Publish, deliver, kickOnFull,
         UpdateStatus, broadcastClaim, directory, goroutines
<1> QED
  BY <1>1, <1>2, <1>4, <1>5, <1>6

LEMMA TakenFromHead ==
  ASSUME IInv, addClient
  PROVE  LET h == Head(register)
         IN /\ register \in Seq(Sessions) /\ register # <<>>
            /\ h \in Sessions /\ h = register[1]
            /\ register' = Tail(register) /\ UNCHANGED dial
            /\ Len(register') = Len(register) - 1
            /\ \A i \in 1 .. Len(register') : i + 1 \in 1 .. Len(register) /\ register'[i] = register[i + 1]
            /\ onlineUsers' = [onlineUsers EXCEPT ![Owner[h]] = h]
  BY DEF addClient, IInv, TypeOK, goroutines

LEMMA PutAtEnd ==
  ASSUME IInv, NEW t \in Sessions, RegisterClient(t)
  PROVE  /\ dial[t] = "dialing" /\ dial' = [dial EXCEPT ![t] = "up"] /\ UNCHANGED onlineUsers
         /\ Len(register') = Len(register) + 1 /\ register \in Seq(Sessions)
         /\ \A i \in 1 .. Len(register') :
              register'[i] = IF i = Len(register) + 1 THEN t ELSE register[i]
  BY DEF RegisterClient, directory, IInv, TypeOK

LEMMA ArrivalsStep == IInv /\ Arrivals /\ [Next]_vars => Arrivals'
<1> SUFFICES ASSUME IInv, Arrivals, [Next]_vars PROVE Arrivals'
  OBVIOUS
<1>1. TypeOK /\ None \notin Sessions /\ \A s \in Sessions : Owner[s] \in Users
  BY OwnerAssumption, NoneAssumption DEF IInv
<1>2. CASE addClient
  <2> DEFINE h == Head(register)
  <2>1. /\ h \in Sessions /\ h = register[1] /\ register # <<>> /\ UNCHANGED dial
        /\ register \in Seq(Sessions) /\ Len(register') = Len(register) - 1
        /\ \A i \in 1 .. Len(register') : i + 1 \in 1 .. Len(register) /\ register'[i] = register[i + 1]
        /\ onlineUsers' = [onlineUsers EXCEPT ![Owner[h]] = h]
    BY <1>2, TakenFromHead
  <2> HIDE DEF h
  <2>2. /\ 1 \in 1 .. Len(register) /\ Len(register) \in Nat
        /\ \A i \in 1 .. Len(register') : i \in Nat /\ i + 1 # 1
    BY <2>1
  <2>3. dial[h] = "up"
    BY <2>1, <2>2 DEF Arrivals
  <2>4. \A i \in 1 .. Len(register') : register'[i] \in Sessions /\ register'[i] # h
    <3> SUFFICES ASSUME NEW i \in 1 .. Len(register')
                 PROVE  register'[i] \in Sessions /\ register'[i] # h
      OBVIOUS
    <3>1. i + 1 \in 1 .. Len(register) /\ register'[i] = register[i + 1]
      BY <2>1
    <3>2. register[i + 1] \in Sessions
      BY <2>1, <3>1
    <3>3. register[i + 1] # register[1]
      BY <2>2, <3>1 DEF Arrivals
    <3> QED
      BY <2>1, <3>1, <3>2, <3>3
  <2>5. \A i, j \in 1 .. Len(register') : register'[i] = register'[j] => i = j
    <3> SUFFICES ASSUME NEW i \in 1 .. Len(register'), NEW j \in 1 .. Len(register'),
                        register'[i] = register'[j]
                 PROVE  i = j
      OBVIOUS
    <3>1. i + 1 = j + 1
      BY <2>1 DEF Arrivals
    <3> QED
      BY <2>2, <3>1
  <2>6. \A i \in 1 .. Len(register') :
          dial'[register'[i]] = "up" /\ onlineUsers'[Owner[register'[i]]] # register'[i]
    <3> SUFFICES ASSUME NEW i \in 1 .. Len(register')
                 PROVE  dial'[register'[i]] = "up" /\ onlineUsers'[Owner[register'[i]]] # register'[i]
      OBVIOUS
    <3>1. dial[register[i + 1]] = "up" /\ onlineUsers[Owner[register[i + 1]]] # register[i + 1]
      BY <2>1 DEF Arrivals
    <3> QED
      BY <1>1, <2>1, <2>4, <3>1 DEF TypeOK
  <2>7. \A u \in Users : onlineUsers'[u] # None => dial'[onlineUsers'[u]] = "up"
    BY <1>1, <2>1, <2>3 DEF Arrivals, TypeOK
  <2> QED
    BY <2>5, <2>6, <2>7 DEF Arrivals
<1>3. ASSUME NEW t \in Sessions, RegisterClient(t)
      PROVE  Arrivals'
  <2>1. /\ dial[t] = "dialing" /\ dial' = [dial EXCEPT ![t] = "up"] /\ UNCHANGED onlineUsers
        /\ Len(register') = Len(register) + 1 /\ register \in Seq(Sessions)
        /\ \A i \in 1 .. Len(register') :
             register'[i] = IF i = Len(register) + 1 THEN t ELSE register[i]
    BY <1>3, PutAtEnd
  <2>2. \A i \in 1 .. Len(register) : register[i] \in Sessions /\ register[i] # t
    BY <2>1 DEF Arrivals
  <2>3. \A i \in 1 .. Len(register') : i = Len(register) + 1 \/ i \in 1 .. Len(register)
    BY <2>1
  <2>4. onlineUsers[Owner[t]] # t
    BY <1>1, <2>1 DEF Arrivals
  <2>5. \A i, j \in 1 .. Len(register') : register'[i] = register'[j] => i = j
    BY <2>1, <2>2, <2>3 DEF Arrivals
  <2>6. \A i \in 1 .. Len(register') :
          dial'[register'[i]] = "up" /\ onlineUsers'[Owner[register'[i]]] # register'[i]
    BY <1>1, <2>1, <2>2, <2>3, <2>4 DEF Arrivals, TypeOK
  <2>7. \A u \in Users : onlineUsers'[u] # None => dial'[onlineUsers'[u]] = "up"
    BY <1>1, <2>1 DEF Arrivals, TypeOK
  <2> QED
    BY <2>5, <2>6, <2>7 DEF Arrivals
<1>4. CASE UNCHANGED <<register, onlineUsers, dial>>
  BY <1>4 DEF Arrivals
<1>5. ASSUME NEW u, UNCHANGED <<register, dial>>, onlineUsers' = [onlineUsers EXCEPT ![u] = None]
      PROVE  Arrivals'
  <2>1. \A i \in 1 .. Len(register) : register[i] \in Sessions
    BY <1>1 DEF TypeOK
  <2>2. \A v \in Users : onlineUsers'[v] \in {onlineUsers[v], None}
    BY <1>1, <1>5 DEF TypeOK
  <2> QED
    BY <1>1, <1>5, <2>1, <2>2 DEF Arrivals
<1>6. ASSUME NEW t, NEW d, UNCHANGED <<register, onlineUsers>>, dial[t] # "up",
             dial' = [dial EXCEPT ![t] = d]
      PROVE  Arrivals'
  <2>1. \A s \in Sessions : dial[s] = "up" => dial'[s] = "up"
    BY <1>1, <1>6 DEF TypeOK
  <2>2. \A i \in 1 .. Len(register) : register[i] \in Sessions
    BY <1>1 DEF TypeOK
  <2> QED
    BY <1>1, <1>6, <2>1, <2>2 DEF Arrivals, TypeOK
<1> QED
  BY <1>2, <1>3, <1>4, <1>5, <1>6, ArrivalSteps DEF vars

\* A session is online once: when a reconnect replaces it, or it is removed, it is
\* gone, and what the heartbeat checker, the workers that kick and the readers still
\* ask for on its behalf, in whichever order, never brings it back.
THEOREM GoneForGood ==
  Spec => [][\A s \in Sessions : Gone(s) \/ IsCurrent(s) =>
               Gone(s)' \/ (IsCurrent(s) /\ IsCurrent(s)')]_vars
<1> DEFINE Stays ==
      \A s \in Sessions : Gone(s) \/ IsCurrent(s) =>
        Gone(s)' \/ (IsCurrent(s) /\ IsCurrent(s)')
<1>1. IInv /\ Arrivals /\ [Next]_vars => [Stays]_vars
  <2> SUFFICES ASSUME IInv, Arrivals, Next, NEW s \in Sessions,
                      Gone(s) \/ IsCurrent(s), ~(IsCurrent(s) /\ IsCurrent(s)')
               PROVE  Gone(s)'
    OBVIOUS
  <2>1. /\ TypeOK /\ Owner[s] \in Users /\ s # None
        /\ dial[s] = "up"
        /\ \A i \in 1 .. Len(register) : register[i] # s
    BY OwnerAssumption, NoneAssumption DEF IInv, Arrivals, Gone, IsCurrent, TypeOK
  <2>2. CASE addClient
    <3> DEFINE h == Head(register)
    <3>1. /\ h \in Sessions /\ h = register[1] /\ register # <<>> /\ UNCHANGED dial
          /\ register \in Seq(Sessions)
          /\ \A i \in 1 .. Len(register') : i + 1 \in 1 .. Len(register) /\ register'[i] = register[i + 1]
          /\ onlineUsers' = [onlineUsers EXCEPT ![Owner[h]] = h]
      BY <2>2, TakenFromHead
    <3> HIDE DEF h
    <3>2. 1 \in 1 .. Len(register)
      BY <3>1
    <3>3. h # s
      BY <2>1, <3>1, <3>2
    <3>4. \A i \in 1 .. Len(register') : register'[i] # s
      BY <2>1, <3>1
    <3>5. onlineUsers'[Owner[s]] # s
      BY <2>1, <3>1, <3>3 DEF Gone, IsCurrent, TypeOK
    <3> QED
      BY <2>1, <3>1, <3>4, <3>5 DEF Gone, IsCurrent
  <2>3. ASSUME NEW t \in Sessions, RegisterClient(t)
        PROVE  Gone(s)'
    <3>1. /\ dial[t] = "dialing" /\ dial' = [dial EXCEPT ![t] = "up"] /\ UNCHANGED onlineUsers
          /\ Len(register') = Len(register) + 1 /\ register \in Seq(Sessions)
          /\ \A i \in 1 .. Len(register') :
               register'[i] = IF i = Len(register) + 1 THEN t ELSE register[i]
      BY <2>3, PutAtEnd
    <3>2. \A i \in 1 .. Len(register') : register'[i] # s
      BY <2>1, <3>1
    <3> QED
      BY <2>1, <3>1, <3>2 DEF Gone, IsCurrent, TypeOK
  <2>4. CASE UNCHANGED register /\ UNCHANGED <<onlineUsers, dial>>
    BY <2>1, <2>4 DEF Gone, IsCurrent
  <2>5. ASSUME NEW u, UNCHANGED <<register, dial>>, onlineUsers' = [onlineUsers EXCEPT ![u] = None]
        PROVE  Gone(s)'
    BY <2>1, <2>5 DEF Gone, IsCurrent, TypeOK
  <2>6. ASSUME NEW t, NEW d, UNCHANGED <<register, onlineUsers>>, dial[t] # "up",
               dial' = [dial EXCEPT ![t] = d]
        PROVE  Gone(s)'
    BY <2>1, <2>6 DEF Gone, IsCurrent, TypeOK
  <2> QED
    BY <2>2, <2>3, <2>4, <2>5, <2>6, ArrivalSteps
<1>2. Init => Arrivals
  BY DEF Init, Arrivals
<1> QED
  BY <1>1, <1>2, ArrivalsStep, Invariance, PTL DEF Spec

=============================================================================
