------------------------- MODULE CallHandlerProofs -------------------------
(***************************************************************************)
(* Proofs about CallHandler, for any number of users, conversations, call  *)
(* objects and workers: the type invariant, and that no call is left       *)
(* behind in activeCalls without anybody in it.                            *)
(***************************************************************************)
EXTENDS CallHandler, TLAPS

\* The places where a goroutine works on a call object it got from activeCalls.
OnCall == Answers \cup {"acceptMark", "expire", "endCall", "clearAll"}

\* The places where a goroutine acts for the user who sent the event.
ForUser == Answers \cup {"register", "markCaller", "markCallees", "acceptMark"}

\* What a goroutine remembers agrees with where it is.
Agrees(t) ==
    /\ t.then # "idle" => t.pc \in {"clear", "clearAll", "endCall"}
    /\ t.pc \in OnCall \/ t.then # "idle" =>
         t.call \in Calls /\ conversation[t.call] # None
    /\ t.pc \in ForUser => t.user \in Users
    /\ t.pc \notin {"idle", "asleep"} => t.conv \in Conversations
    /\ t.hit # None => t.pc \in {"clear", "clearAll"} /\ t.hit \in t.todo

TasksAgree == \A p \in Procs : Agrees(task[p])

\* The call object an initiation is about to register is its own.
Reserved ==
    \A p \in Procs : task[p].pc = "register" =>
        /\ task[p].call \in Calls
        /\ conversation[task[p].call] = None
        /\ \A q \in Procs \ {p} : task[q].call # task[p].call

\* A created call has a caller; the watcher of a call not yet created is at rest.
CallsInv ==
    \A k \in Calls :
        /\ conversation[k] # None => caller[k] \in Users
        /\ conversation[k] = None => task[k] = Idle

\* A call is registered under its own conversation.
RegistryInv ==
    \A cv \in Conversations :
        activeCalls[cv] # None => conversation[activeCalls[cv]] = cv

IInv == TypeOK /\ TasksAgree /\ Reserved /\ CallsInv /\ RegistryInv

----------------------------------------------------------------------------
(* Facts about the helpers. *)

LEMMA IdleTyped == Idle \in Task
  BY DEF Idle, Task, Labels

LEMMA SweptTyped ==
  ASSUME NEW t \in Task
  PROVE  Swept(t) \in Task
<1>1. Participants(t.call) \in SUBSET Users
  BY DEF Participants
<1>2. CASE t.todo # {}
  BY <1>2 DEF Swept
<1>3. CASE t.todo = {} /\ t.then = "endCall"
  BY <1>3 DEF Swept, Task, Labels
<1>4. CASE t.todo = {} /\ t.then = "clearAll"
  BY <1>1, <1>4 DEF Swept, Task, Labels
<1>5. CASE t.todo = {} /\ t.then \notin {"endCall", "clearAll"}
  BY <1>5, IdleTyped DEF Swept
<1> QED
  BY <1>2, <1>3, <1>4, <1>5

LEMMA IdleAgrees == Agrees(Idle)
  BY DEF Agrees, Idle, OnCall, ForUser, Answers

LEMMA SweptAgrees ==
  ASSUME NEW t \in Task, Agrees(t), t.pc \in {"clear", "clearAll"}
  PROVE  /\ Agrees(Swept(t))
         /\ Swept(t).pc # "register"
         /\ Swept(t).call \in {t.call, None}
<1>2. CASE t.todo # {}
  BY <1>2 DEF Swept
<1>3. CASE t.todo = {} /\ t.then = "endCall"
  BY <1>3 DEF Swept, Task, Agrees, OnCall, ForUser, Answers
<1>4. CASE t.todo = {} /\ t.then = "clearAll"
  BY <1>4 DEF Swept, Task, Agrees, OnCall, ForUser, Answers
<1>5. CASE t.todo = {} /\ t.then \notin {"endCall", "clearAll"}
  BY <1>5, IdleAgrees DEF Swept, Idle
<1> QED
  BY <1>2, <1>3, <1>4, <1>5

\* A step that gives one goroutine a new record t and creates no call.
LEMMA OneTask ==
  ASSUME IInv, NEW p \in Procs, NEW t \in Task,
         task' = [task EXCEPT ![p] = t],
         UNCHANGED <<conversation, caller>>,
         Agrees(t),
         t.pc # "register",
         p \in Workers \/ task[p] # Idle,
         \/ t.call \in {None, task[p].call}
         \/ t.call \in Calls /\ conversation[t.call] # None
  PROVE  task' \in [Procs -> Task] /\ TasksAgree' /\ Reserved' /\ CallsInv'
<1>1. task' \in [Procs -> Task]
  BY DEF IInv, TypeOK
<1>2. TasksAgree'
  <2> SUFFICES ASSUME NEW q \in Procs PROVE Agrees(task[q])'
    BY DEF TasksAgree
  <2>1. CASE q = p
    BY <2>1 DEF IInv, TypeOK, Agrees
  <2>2. CASE q # p
    BY <2>2 DEF IInv, TypeOK, TasksAgree, Agrees
  <2> QED
    BY <2>1, <2>2
<1>3. Reserved'
  BY NoneAssumption DEF IInv, TypeOK, Reserved, Procs
<1>4. CallsInv'
  BY ProcsAssumption DEF IInv, TypeOK, CallsInv, Procs
<1> QED
  BY <1>1, <1>2, <1>3, <1>4

\* The record a goroutine gets that goes on to clear the users in S.
LEMMA ClearingTask ==
  ASSUME NEW t \in Task, t.call \in Calls, conversation[t.call] # None, t.hit = None,
         t.conv \in Conversations,
         NEW S \in SUBSET Users, NEW next \in {"idle", "endCall", "clearAll"},
         NEW r, r = Swept([t EXCEPT !.pc = "clear", !.user = None, !.todo = S, !.then = next])
  PROVE  /\ r \in Task
         /\ Agrees(r)
         /\ r.pc # "register"
         /\ r.call \in {t.call, None}
<1> DEFINE u == [t EXCEPT !.pc = "clear", !.user = None, !.todo = S, !.then = next]
<1>1. u \in Task
  BY DEF Task, Labels
<1>2. /\ Agrees(u)
      /\ u.pc = "clear"
      /\ u.call = t.call
  BY DEF Agrees, Task, OnCall, ForUser, Answers
<1>3. r = Swept(u)
  OBVIOUS
<1> HIDE DEF u
<1> QED
  BY <1>1, <1>2, <1>3, SweptTyped, SweptAgrees

LEMMA SetCallStatusTyped ==
  ASSUME TypeOK, NEW u \in Users, NEW s \in ClientStatus,
         NEW cv \in Conversations \cup {None}, SetCallStatus(u, s, cv)
  PROVE  /\ onlineUsers' \subseteq Users
         /\ status' \in [Users -> ClientStatus]
         /\ inConv' \in [Users -> Conversations \cup {None}]
  BY DEF TypeOK, SetCallStatus, clients

----------------------------------------------------------------------------
(* Every action preserves the invariant. *)

LEMMA InitIInv == Init => IInv
<1> SUFFICES ASSUME Init PROVE IInv
  OBVIOUS
<1>1. TypeOK
  BY IdleTyped, ConnectedAssumption
  DEF Init, TypeOK, OverallStatus, ParticipantStatus, ClientStatus, CallStatuses
<1>2. TasksAgree
  BY IdleAgrees DEF Init, TasksAgree
<1>3. Reserved
  BY DEF Init, Reserved, Idle
<1>4. CallsInv /\ RegistryInv
  BY DEF Init, CallsInv, RegistryInv, Procs
<1> QED
  BY <1>1, <1>2, <1>3, <1>4 DEF IInv

LEMMA InitiateStep ==
  ASSUME IInv, NEW w \in Workers, NEW u \in Users, NEW cv \in Conversations,
         NEW k \in Calls, handleCallInitiate(w, u, cv, k)
  PROVE  IInv'
<1> DEFINE free == {v \in Members[cv] : ~Busy(v)}
           t == [Idle EXCEPT !.pc = "register", !.user = u, !.conv = cv, !.call = k, !.todo = free]
<1>1. t \in Task
  BY MembersAssumption, IdleTyped DEF Task, Labels, Idle
<1>2. /\ task' = [task EXCEPT ![w] = t]
      /\ UNCHANGED <<activeCalls, conversation, caller, callStatus, participants,
                     onlineUsers, status, inConv>>
      /\ conversation[k] = None
      /\ \A p \in Procs : task[p].call # k
      /\ w \in Procs /\ w \notin Calls
  BY ProcsAssumption DEF handleCallInitiate, Fresh, registry, clients, Procs
<1>3. /\ t.pc = "register" /\ t.user = u /\ t.conv = cv /\ t.call = k
      /\ t.then = "idle" /\ t.hit = None
  BY DEF Idle
<1> HIDE DEF t
<1>4. TypeOK'
  BY <1>1, <1>2 DEF IInv, TypeOK
<1>5. TasksAgree'
  BY <1>2, <1>3 DEF IInv, TypeOK, TasksAgree, Agrees, OnCall, ForUser, Answers
<1>6. Reserved'
  BY <1>2, <1>3 DEF IInv, TypeOK, Reserved
<1>7. CallsInv' /\ RegistryInv'
  BY <1>2 DEF IInv, TypeOK, CallsInv, RegistryInv, Procs
<1> QED
  BY <1>4, <1>5, <1>6, <1>7 DEF IInv

\* The records a worker holds while it marks the callees in S.
LEMMA MarkingFacts ==
  ASSUME NEW u \in Users, NEW cv \in Conversations, NEW k \in Calls,
         NEW S \in SUBSET Users
  PROVE  /\ Marking(u, cv, k, S) \in Task
         /\ Agrees(Marking(u, cv, k, S))
         /\ Marking(u, cv, k, S).pc # "register"
         /\ Marking(u, cv, k, S).call \in {k, None}
<1>1. CASE S = {}
  BY <1>1, IdleTyped, IdleAgrees DEF Marking, Idle
<1>2. CASE S # {}
  BY <1>2 DEF Marking, Idle, Task, Labels, Agrees, OnCall, ForUser, Answers
<1> QED
  BY <1>1, <1>2

\* A step that creates call k, starts its watcher and lets worker w go on with
\* record t about k.
LEMMA CreateCall ==
  ASSUME IInv, NEW w \in Workers, NEW k \in Calls, NEW t \in Task,
         NEW cv \in Conversations, NEW u \in Users,
         conversation[k] = None,
         \A q \in Procs \ {w} : task[q].call # k,
         conversation' = [conversation EXCEPT ![k] = cv],
         caller' = [caller EXCEPT ![k] = u],
         task' = [task EXCEPT ![w] = t, ![k] = [Idle EXCEPT !.pc = "asleep"]],
         Agrees(t), t.pc # "register", t.call \in {k, None}
  PROVE  task' \in [Procs -> Task] /\ TasksAgree' /\ Reserved' /\ CallsInv'
<1> DEFINE a == [Idle EXCEPT !.pc = "asleep"]
<1>1. a \in Task /\ a.pc = "asleep" /\ a.call = None /\ a.then = "idle"
      /\ a.hit = None
  BY IdleTyped DEF Task, Labels, Idle
<1>2. /\ task' = [task EXCEPT ![w] = t, ![k] = a]
      /\ w \in Procs /\ k \in Procs /\ w # k
      /\ cv # None /\ None \notin Calls
  BY ProcsAssumption, NoneAssumption DEF Procs
<1> HIDE DEF a
<1>3. /\ task' \in [Procs -> Task]
      /\ task'[w] = t /\ task'[k] = a
      /\ \A q \in Procs \ {w, k} : task'[q] = task[q]
  BY <1>1, <1>2 DEF IInv, TypeOK
<1>4. /\ conversation'[k] = cv
      /\ \A c \in Calls \ {k} : conversation'[c] = conversation[c]
      /\ \A c \in Calls : conversation[c] # None => conversation'[c] # None
  BY <1>2 DEF IInv, TypeOK
<1>5. TasksAgree'
  <2> SUFFICES ASSUME NEW q \in Procs PROVE Agrees(task[q])'
    BY DEF TasksAgree
  <2>1. CASE q = w
    BY <2>1, <1>3, <1>4 DEF Agrees
  <2>2. CASE q = k
    BY <2>2, <1>1, <1>3 DEF Agrees, OnCall, ForUser, Answers
  <2>3. CASE q \notin {w, k}
    BY <2>3, <1>3, <1>4 DEF IInv, TasksAgree, Agrees
  <2> QED
    BY <2>1, <2>2, <2>3
<1>6. Reserved'
  <2> SUFFICES ASSUME NEW q \in Procs, task'[q].pc = "register"
               PROVE  /\ task'[q].call \in Calls
                      /\ conversation'[task'[q].call] = None
                      /\ \A r \in Procs \ {q} : task'[r].call # task'[q].call
    BY DEF Reserved
  <2>1. q \notin {w, k}
    BY <1>1, <1>3
  <2>2. /\ task'[q] = task[q]
        /\ task[q].call \in Calls /\ task[q].call # k
        /\ \A r \in Procs \ {q} : task[r].call # task[q].call
        /\ conversation[task[q].call] = None
    BY <2>1, <1>3 DEF IInv, Reserved
  <2>3. ASSUME NEW r \in Procs \ {q}
        PROVE  task'[r].call # task[q].call
    <3>1. CASE r = w
      BY <3>1, <2>2, <1>2, <1>3
    <3>2. CASE r = k
      BY <3>2, <2>2, <1>1, <1>2, <1>3
    <3>3. CASE r \notin {w, k}
      BY <3>3, <2>2, <1>3
    <3> QED
      BY <3>1, <3>2, <3>3
  <2> QED
    BY <2>2, <2>3, <1>4
<1>7. CallsInv'
  BY <1>2, <1>3, <1>4, ProcsAssumption DEF IInv, TypeOK, CallsInv, Procs
<1> QED
  BY <1>3, <1>5, <1>6, <1>7

LEMMA RegisterStep ==
  ASSUME IInv, NEW w \in Workers, registerCall(w)
  PROVE  IInv'
<1> DEFINE k == task[w].call
           mark == [task[w] EXCEPT !.pc = "markCaller"]
<1>1. /\ w \in Procs /\ task[w] \in Task
      /\ task[w].pc = "register" /\ task[w].then = "idle" /\ task[w].hit = None
      /\ task[w].user \in Users /\ task[w].conv \in Conversations
      /\ k \in Calls /\ conversation[k] = None
      /\ \A q \in Procs \ {w} : task[q].call # k
  BY DEF registerCall, IInv, TypeOK, TasksAgree, Agrees, Reserved, ForUser, Procs
<1>2. PICK missing \in SUBSET (task[w].todo \cap Flaky) :
        IF task[w].user \notin missing
        THEN /\ activeCalls' = [activeCalls EXCEPT ![task[w].conv] = k]
             /\ conversation' = [conversation EXCEPT ![k] = task[w].conv]
             /\ caller' = [caller EXCEPT ![k] = task[w].user]
             /\ callStatus' = [callStatus EXCEPT ![k] = "ringing"]
             /\ participants' = [participants EXCEPT ![k] =
                  [NewParticipants(task[w].todo, missing) EXCEPT ![task[w].user] = "accepted"]]
             /\ task' = [task EXCEPT ![w].pc = "markCaller",
                                     ![k] = [Idle EXCEPT !.pc = "asleep"]]
        ELSE /\ Finish(w)
             /\ UNCHANGED <<registry, callStatus, participants>>
  BY DEF registerCall
<1>3. UNCHANGED <<onlineUsers, status, inConv>>
  BY DEF registerCall, clients
<1>4. CASE task[w].user \notin missing
  <2>1. mark \in Task /\ Agrees(mark) /\ mark.pc # "register" /\ mark.call = k
    BY <1>1 DEF Task, Labels, Agrees, OnCall, ForUser, Answers
  <2>2. w # k
    BY <1>1, ProcsAssumption
  <2>3. task' = [task EXCEPT ![w] = mark, ![k] = [Idle EXCEPT !.pc = "asleep"]]
    BY <1>2, <1>4, <2>2
  <2> HIDE DEF mark
  <2>4. task' \in [Procs -> Task] /\ TasksAgree' /\ Reserved' /\ CallsInv'
    <3>1. /\ conversation' = [conversation EXCEPT ![k] = task[w].conv]
          /\ caller' = [caller EXCEPT ![k] = task[w].user]
      BY <1>2, <1>4
    <3> HIDE DEF k
    <3> QED
      BY <1>1, <2>1, <2>3, <3>1, CreateCall
  <2>5. NewParticipants(task[w].todo, missing) \in [Users -> ParticipantStatus]
    BY DEF NewParticipants, ParticipantStatus
  <2>6. TypeOK'
    <3>1. /\ activeCalls' \in [Conversations -> Calls \cup {None}]
          /\ conversation' \in [Calls -> Conversations \cup {None}]
          /\ caller' \in [Calls -> Users \cup {None}]
      BY <1>1, <1>2, <1>4 DEF IInv, TypeOK
    <3>2. callStatus' \in [Calls -> OverallStatus]
      BY <1>1, <1>2, <1>4 DEF IInv, TypeOK, OverallStatus
    <3>3. [NewParticipants(task[w].todo, missing) EXCEPT ![task[w].user] = "accepted"]
            \in [Users -> ParticipantStatus]
      BY <1>1, <2>5 DEF ParticipantStatus, Answered
    <3>4. participants' \in [Calls -> [Users -> ParticipantStatus]]
      BY <1>1, <1>2, <1>4, <3>3 DEF IInv, TypeOK
    <3> QED
      BY <1>3, <2>4, <3>1, <3>2, <3>4 DEF IInv, TypeOK
  <2>7. RegistryInv'
    <3>1. /\ activeCalls' = [activeCalls EXCEPT ![task[w].conv] = k]
          /\ conversation' = [conversation EXCEPT ![k] = task[w].conv]
      BY <1>2, <1>4
    <3> HIDE DEF k
    <3> QED
      BY <1>1, <3>1, NoneAssumption DEF IInv, TypeOK, RegistryInv
  <2> QED
    BY <2>4, <2>6, <2>7 DEF IInv
<1>5. CASE task[w].user \in missing
  <2>1. /\ task' = [task EXCEPT ![w] = Idle]
        /\ UNCHANGED <<activeCalls, conversation, caller, callStatus, participants>>
    BY <1>2, <1>5 DEF Finish, registry
  <2>2. Idle.pc # "register" /\ Idle.call = None
    BY DEF Idle
  <2>3. task' \in [Procs -> Task] /\ TasksAgree' /\ Reserved' /\ CallsInv'
    BY <1>1, <2>1, <2>2, IdleTyped, IdleAgrees, OneTask
  <2>4. TypeOK' /\ RegistryInv'
    BY <1>3, <2>1, <2>3 DEF IInv, TypeOK, RegistryInv
  <2> QED
    BY <2>3, <2>4 DEF IInv
<1> QED
  BY <1>4, <1>5

LEMMA SetUserTyped ==
  ASSUME IInv, NEW u \in Users, NEW cv \in Conversations,
         setUserBusy(u, cv) \/ setUserHavingCall(u, cv)
  PROVE  /\ onlineUsers' \subseteq Users
         /\ status' \in [Users -> ClientStatus]
         /\ inConv' \in [Users -> Conversations \cup {None}]
<1>1. "in_call" \in ClientStatus /\ "ringing" \in ClientStatus
  BY DEF ClientStatus, CallStatuses
<1> QED
  BY <1>1, SetCallStatusTyped DEF IInv, setUserBusy, setUserHavingCall

LEMMA JoinStep ==
  ASSUME IInv, NEW w \in Workers, NEW u \in Users, NEW cv \in Conversations,
         NEW k \in Calls, NEW S \in JoinCallees, raiseJoiningRequest(w, u, cv, k, S)
  PROVE  IInv'
<1> DEFINE t == Marking(u, cv, k, S \ {u})
<1>1. S \ {u} \in SUBSET Users
  BY JoinAssumption
<1>2. /\ w \in Procs
      /\ conversation[k] = None
      /\ \A q \in Procs \ {w} : task[q].call # k
      /\ conversation' = [conversation EXCEPT ![k] = cv]
      /\ caller' = [caller EXCEPT ![k] = u]
      /\ callStatus' = [callStatus EXCEPT ![k] = "ringing"]
      /\ task' = [task EXCEPT ![w] = t, ![k] = [Idle EXCEPT !.pc = "asleep"]]
      /\ setUserBusy(u, cv)
      /\ UNCHANGED activeCalls
  BY DEF raiseJoiningRequest, Fresh, Procs
<1>3. PICK missing \in SUBSET ((S \cup {u}) \cap Flaky) :
        participants' = [participants EXCEPT ![k] = NewParticipants(S \cup {u}, missing)]
  BY DEF raiseJoiningRequest
<1>4. /\ t \in Task
      /\ Agrees(t)
      /\ t.pc # "register"
      /\ t.call \in {k, None}
  BY <1>1, MarkingFacts
<1> HIDE DEF t
<1>5. task' \in [Procs -> Task] /\ TasksAgree' /\ Reserved' /\ CallsInv'
  BY <1>2, <1>4, CreateCall
<1>6. TypeOK'
  <2>1. /\ conversation' \in [Calls -> Conversations \cup {None}]
        /\ caller' \in [Calls -> Users \cup {None}]
    BY <1>2 DEF IInv, TypeOK
  <2>2. callStatus' \in [Calls -> OverallStatus]
    BY <1>2 DEF IInv, TypeOK, OverallStatus
  <2>3. NewParticipants(S \cup {u}, missing) \in [Users -> ParticipantStatus]
    BY DEF NewParticipants, ParticipantStatus
  <2>4. participants' \in [Calls -> [Users -> ParticipantStatus]]
    BY <1>3, <2>3 DEF IInv, TypeOK
  <2> QED
    BY <1>2, <1>5, <2>1, <2>2, <2>4, SetUserTyped DEF IInv, TypeOK
<1>7. RegistryInv'
  BY <1>2, NoneAssumption DEF IInv, TypeOK, RegistryInv
<1> QED
  BY <1>5, <1>6, <1>7 DEF IInv

LEMMA MarkStep ==
  ASSUME IInv, NEW w \in Workers, markCaller(w) \/ markCallees(w) \/ acceptMark(w)
  PROVE  IInv'
<1>1. /\ w \in Procs /\ task[w] \in Task
      /\ task[w].user \in Users /\ task[w].conv \in Conversations
      /\ UNCHANGED <<activeCalls, conversation, caller, callStatus, participants>>
  BY DEF markCaller, markCallees, acceptMark, registry, IInv, TypeOK, TasksAgree,
         Agrees, ForUser, Procs
<1>2. PICK v \in Users, t \in Task :
        /\ task' = [task EXCEPT ![w] = t]
        /\ setUserBusy(v, task[w].conv) \/ setUserHavingCall(v, task[w].conv)
        /\ Agrees(t) /\ t.pc # "register"
        /\ t.call \in {task[w].call, None}
  <2>1. CASE acceptMark(w)
    BY <2>1, <1>1, IdleTyped, IdleAgrees DEF acceptMark, Finish, Idle
  <2>2. ASSUME NEW S \in SUBSET Users, task[w].call \in Calls \cup {None}
        PROVE  LET m == Marking(task[w].user, task[w].conv, task[w].call, S)
               IN  /\ m \in Task /\ Agrees(m) /\ m.pc # "register"
                   /\ m.call \in {task[w].call, None}
    <3>1. CASE S = {}
      BY <3>1, IdleTyped, IdleAgrees DEF Marking, Idle
    <3>2. CASE S # {}
      BY <3>2, <1>1 DEF Marking, Idle, Task, Labels, Agrees, OnCall, ForUser, Answers
    <3> QED
      BY <3>1, <3>2
  <2>3. CASE markCaller(w)
    BY <2>2, <2>3, <1>1 DEF markCaller, Task
  <2>4. CASE markCallees(w)
    BY <2>2, <2>4, <1>1 DEF markCallees, Task
  <2> QED
    BY <2>1, <2>3, <2>4
<1>3. task' \in [Procs -> Task] /\ TasksAgree' /\ Reserved' /\ CallsInv'
  BY <1>1, <1>2, OneTask
<1>4. TypeOK' /\ RegistryInv'
  BY <1>1, <1>2, <1>3, SetUserTyped DEF IInv, TypeOK, RegistryInv
<1> QED
  BY <1>3, <1>4 DEF IInv

\* The lookups: a worker that was idle starts a handler or the clearing of a status.
LEMMA LookupStep ==
  ASSUME IInv, NEW w \in Workers, NEW u \in Users, NEW cv \in Conversations,
         \/ \E label \in Answers : getActiveCall(w, u, cv, label)
         \/ CallNotFound(w, u, cv)
         \/ handleCallCancel(w, u, cv)
  PROVE  IInv'
<1>1. /\ w \in Procs /\ task[w] = Idle
      /\ UNCHANGED <<activeCalls, conversation, caller, callStatus, participants,
                     onlineUsers, status, inConv>>
  BY DEF getActiveCall, CallNotFound, handleCallCancel, registry, clients, Procs
<1>2. activeCalls[cv] # None =>
        activeCalls[cv] \in Calls /\ conversation[activeCalls[cv]] # None
  BY NoneAssumption DEF IInv, TypeOK, RegistryInv
<1> DEFINE Good(t) == /\ t \in Task
                      /\ task' = [task EXCEPT ![w] = t]
                      /\ Agrees(t) /\ t.pc # "register"
                      /\ t.call = None \/ (t.call \in Calls /\ conversation[t.call] # None)
<1>3. \E t : Good(t)
  <2>1. ASSUME NEW label \in Answers, getActiveCall(w, u, cv, label)
        PROVE  Good([Idle EXCEPT !.pc = label, !.user = u, !.conv = cv, !.call = activeCalls[cv]])
    BY <2>1, <1>2 DEF getActiveCall, Idle, Task, Labels, Agrees, OnCall, ForUser, Answers
  <2>2. ASSUME CallNotFound(w, u, cv)
        PROVE  Good([Idle EXCEPT !.pc = "clear", !.conv = cv, !.todo = {u}])
    BY <2>2 DEF CallNotFound, Idle, Task, Labels, Agrees, OnCall, ForUser, Answers
  <2>3. ASSUME handleCallCancel(w, u, cv)
        PROVE  Good([Idle EXCEPT !.pc = "clearAll", !.conv = cv, !.call = activeCalls[cv],
                       !.todo = Participants(activeCalls[cv]), !.then = "endCall"])
    BY <2>3, <1>2 DEF handleCallCancel, Idle, Task, Labels, Agrees, OnCall, ForUser,
                      Answers, Participants
  <2> HIDE DEF Good
  <2> QED
    BY <2>1, <2>2, <2>3
<1>4. task' \in [Procs -> Task] /\ TasksAgree' /\ Reserved' /\ CallsInv'
  BY <1>1, <1>3, OneTask
<1>5. TypeOK' /\ RegistryInv'
  BY <1>1, <1>4 DEF IInv, TypeOK, RegistryInv
<1> QED
  BY <1>4, <1>5 DEF IInv

\* One participant's status changes and the worker goes on with record t.
LEMMA ParticipantStep ==
  ASSUME IInv, NEW p \in Procs, NEW t \in Task,
         p \in Workers \/ task[p] # Idle,
         task' = [task EXCEPT ![p] = t],
         Agrees(t), t.pc # "register", t.call \in {None, task[p].call},
         participants' \in [Calls -> [Users -> ParticipantStatus]],
         callStatus' \in [Calls -> OverallStatus],
         UNCHANGED <<activeCalls, conversation, caller, onlineUsers, status, inConv>>
  PROVE  IInv'
<1>1. task' \in [Procs -> Task] /\ TasksAgree' /\ Reserved' /\ CallsInv'
  BY OneTask
<1>2. TypeOK' /\ RegistryInv'
  BY <1>1 DEF IInv, TypeOK, RegistryInv
<1> QED
  BY <1>1, <1>2 DEF IInv

LEMMA OnCallFacts ==
  ASSUME IInv, NEW w \in Procs, task[w].pc \in Answers
  PROVE  /\ task[w] \in Task
         /\ task[w].call \in Calls /\ conversation[task[w].call] # None
         /\ task[w].user \in Users /\ task[w].conv \in Conversations
         /\ task[w].then = "idle" /\ task[w].hit = None
  BY DEF IInv, TypeOK, TasksAgree, Agrees, OnCall, ForUser, Answers

LEMMA AcceptStep ==
  ASSUME IInv, NEW w \in Workers, handleCallAccept(w)
  PROVE  IInv'
<1> DEFINE k == task[w].call
           u == task[w].user
           mark == [task[w] EXCEPT !.pc = "acceptMark"]
<1>1. w \in Procs /\ task[w].pc = "accept"
  BY DEF Procs, handleCallAccept, Sender
<1>2. /\ task[w] \in Task /\ k \in Calls /\ conversation[k] # None
      /\ u \in Users /\ task[w].conv \in Conversations /\ task[w].then = "idle"
      /\ task[w].hit = None
  BY <1>1, OnCallFacts DEF Answers
<1>3. UNCHANGED <<activeCalls, conversation, caller, onlineUsers, status, inConv>>
  BY DEF handleCallAccept, registry, clients
<1>4. CASE CanAccept(k, u)
  <2>1. /\ participants' = [participants EXCEPT ![k][u] = "accepted"]
        /\ callStatus' = [callStatus EXCEPT ![k] = StatusAfterAccept(@)]
        /\ task' = [task EXCEPT ![w] = mark]
    BY <1>4, <1>1 DEF handleCallAccept, Goto
  <2>2. /\ mark \in Task /\ Agrees(mark) /\ mark.pc # "register" /\ mark.call = k
    BY <1>2 DEF Task, Labels, Agrees, OnCall, ForUser, Answers
  <2>3. participants' \in [Calls -> [Users -> ParticipantStatus]]
    BY <1>2, <2>1 DEF IInv, TypeOK, ParticipantStatus, Answered
  <2>4. callStatus' \in [Calls -> OverallStatus]
    BY <1>2, <2>1 DEF IInv, TypeOK, OverallStatus, StatusAfterAccept
  <2> HIDE DEF mark, k, u
  <2> QED
    BY <1>1, <1>3, <2>1, <2>2, <2>3, <2>4, ParticipantStep DEF k
<1>5. CASE ~CanAccept(k, u)
  <2>1. /\ UNCHANGED <<callStatus, participants>>
        /\ task' = [task EXCEPT ![w] = Idle]
    BY <1>5 DEF handleCallAccept, Finish
  <2> QED
    BY <1>1, <1>3, <2>1, IdleTyped, IdleAgrees, ParticipantStep DEF IInv, TypeOK, Idle
<1> QED
  BY <1>4, <1>5

LEMMA DepartStep ==
  ASSUME IInv, NEW w \in Workers, NEW label \in Answers, NEW s \in Answered,
         Depart(w, label, s)
  PROVE  IInv'
<1> DEFINE k == task[w].call
           u == task[w].user
           next == IF EndsAfter(label, Counted(k, u, s)) THEN "endCall" ELSE "idle"
           r == Swept([task[w] EXCEPT !.pc = "clear", !.user = None, !.todo = {u},
                                      !.then = next])
<1>1. w \in Procs /\ task[w].pc \in Answers
  BY DEF Procs, Depart, Sender
<1>2. /\ task[w] \in Task /\ k \in Calls /\ conversation[k] # None
      /\ u \in Users /\ task[w].conv \in Conversations /\ task[w].hit = None
  BY <1>1, OnCallFacts
<1>3. /\ UNCHANGED <<activeCalls, conversation, caller, callStatus, onlineUsers, status, inConv>>
      /\ participants' = [participants EXCEPT ![k][u] = s]
      /\ task' = [task EXCEPT ![w] = r]
  BY <1>1 DEF Depart, ClearThen, registry, clients, IInv, TypeOK
<1>4. next \in {"idle", "endCall", "clearAll"} /\ {u} \in SUBSET Users
  BY <1>2
<1>5. /\ r \in Task /\ Agrees(r) /\ r.pc # "register"
      /\ r.call \in {k, None}
  <2> HIDE DEF next
  <2> QED
    BY <1>2, <1>4, ClearingTask
<1>6. participants' \in [Calls -> [Users -> ParticipantStatus]]
  BY <1>2, <1>3 DEF IInv, TypeOK, ParticipantStatus
<1>7. callStatus' \in [Calls -> OverallStatus]
  BY <1>3 DEF IInv, TypeOK
<1> HIDE DEF r, u
<1> QED
  BY <1>1, <1>3, <1>5, <1>6, <1>7, ParticipantStep

LEMMA DismissStep ==
  ASSUME IInv, NEW w \in Workers, handleCallDismiss(w)
  PROVE  IInv'
<1>1. w \in Procs /\ task[w].pc = "dismiss"
  BY DEF Procs, handleCallDismiss, Sender
<1>2. task[w].call \in Calls /\ task[w].user \in Users
  BY <1>1, OnCallFacts DEF Answers
<1>3. /\ participants' = [participants EXCEPT ![task[w].call][task[w].user] = "dismissed"]
      /\ task' = [task EXCEPT ![w] = Idle]
      /\ UNCHANGED <<activeCalls, conversation, caller, callStatus, onlineUsers, status, inConv>>
  BY DEF handleCallDismiss, Finish, registry, clients
<1>4. participants' \in [Calls -> [Users -> ParticipantStatus]]
  BY <1>2, <1>3 DEF IInv, TypeOK, ParticipantStatus, Answered
<1>5. callStatus' \in [Calls -> OverallStatus]
  BY <1>3 DEF IInv, TypeOK
<1> QED
  BY <1>1, <1>3, <1>4, <1>5, IdleTyped, IdleAgrees, ParticipantStep DEF Idle

LEMMA StrangerStep ==
  ASSUME IInv, NEW w \in Workers, RefuseStranger(w) \/ ClearStranger(w)
  PROVE  IInv'
<1> DEFINE u == task[w].user
           r == Swept([task[w] EXCEPT !.pc = "clear", !.user = None, !.todo = {u},
                                      !.then = "idle"])
<1>1. /\ w \in Procs /\ task[w].pc \in Answers
      /\ UNCHANGED <<activeCalls, conversation, caller, callStatus, participants,
                     onlineUsers, status, inConv>>
  BY DEF Procs, RefuseStranger, ClearStranger, Stranger, Answers, registry, clients
<1>2. /\ task[w] \in Task /\ task[w].call \in Calls /\ conversation[task[w].call] # None
      /\ u \in Users /\ task[w].conv \in Conversations /\ task[w].hit = None
  BY <1>1, OnCallFacts
<1>3. /\ participants' \in [Calls -> [Users -> ParticipantStatus]]
      /\ callStatus' \in [Calls -> OverallStatus]
  BY <1>1 DEF IInv, TypeOK
<1>4. CASE RefuseStranger(w)
  BY <1>1, <1>3, <1>4, IdleTyped, IdleAgrees, ParticipantStep
  DEF RefuseStranger, Finish, Idle
<1>5. CASE ClearStranger(w)
  <2>1. task' = [task EXCEPT ![w] = r]
    BY <1>1, <1>5 DEF ClearStranger, ClearThen, IInv, TypeOK
  <2>2. {u} \in SUBSET Users
    BY <1>2
  <2>3. /\ r \in Task /\ Agrees(r) /\ r.pc # "register"
        /\ r.call \in {task[w].call, None}
    BY <1>2, <2>2, ClearingTask
  <2> HIDE DEF r
  <2> QED
    BY <1>1, <1>3, <2>1, <2>3, ParticipantStep
<1> QED
  BY <1>4, <1>5

LEMMA ClearStep ==
  ASSUME IInv, NEW p \in Procs, clearCheck(p) \/ clearWrite(p)
  PROVE  IInv'
<1>1. /\ task[p] \in Task /\ task[p].pc \in {"clear", "clearAll"} /\ task[p] # Idle
      /\ Agrees(task[p])
      /\ UNCHANGED <<activeCalls, conversation, caller, callStatus, participants>>
  BY DEF clearCheck, clearWrite, registry, IInv, TypeOK, TasksAgree, Idle
<1>2. /\ participants' \in [Calls -> [Users -> ParticipantStatus]]
      /\ callStatus' \in [Calls -> OverallStatus]
  BY <1>1 DEF IInv, TypeOK
<1>3. ASSUME NEW t \in Task, Agrees(t), t.pc \in {"clear", "clearAll"},
             t.call = task[p].call
      PROVE  /\ Swept(t) \in Task /\ Agrees(Swept(t)) /\ Swept(t).pc # "register"
             /\ Swept(t).call \in {None, task[p].call}
  BY <1>3, SweptTyped, SweptAgrees
<1>4. CASE clearCheck(p)
  <2>1. PICK v \in task[p].todo :
          IF v \in onlineUsers /\ inConv[v] = task[p].conv
          THEN task' = [task EXCEPT ![p].hit = v]
          ELSE task' = [task EXCEPT ![p] = Swept([task[p] EXCEPT !.todo = @ \ {v}])]
    BY <1>1, <1>4 DEF clearCheck, Task
  <2>2. task[p].hit = None /\ UNCHANGED <<onlineUsers, status, inConv>>
    BY <1>4 DEF clearCheck, clients
  <2> DEFINE hit == [task[p] EXCEPT !.hit = v]
             rest == [task[p] EXCEPT !.todo = @ \ {v}]
  <2>3. /\ hit \in Task /\ Agrees(hit) /\ hit.pc # "register" /\ hit.call = task[p].call
        /\ rest \in Task /\ Agrees(rest) /\ rest.pc = task[p].pc /\ rest.call = task[p].call
    BY <1>1, <2>2 DEF Task, Agrees
  <2>4. task' = [task EXCEPT ![p] = hit] \/ task' = [task EXCEPT ![p] = Swept(rest)]
    BY <2>1
  <2> HIDE DEF hit, rest
  <2> QED
    BY <1>1, <1>2, <1>3, <2>2, <2>3, <2>4, ParticipantStep
<1>5. CASE clearWrite(p)
  <2> DEFINE rest == [task[p] EXCEPT !.hit = None, !.todo = @ \ {task[p].hit}]
  <2>1. /\ task' = [task EXCEPT ![p] = Swept(rest)]
        /\ task[p].hit \in Users
        /\ SetCallStatus(task[p].hit, "online", None)
    BY <1>1, <1>5 DEF clearWrite, Task
  <2>2. rest \in Task /\ Agrees(rest) /\ rest.pc = task[p].pc /\ rest.call = task[p].call
    BY <1>1 DEF Task, Agrees
  <2> HIDE DEF rest
  <2>3. task' \in [Procs -> Task] /\ TasksAgree' /\ Reserved' /\ CallsInv'
    BY <1>1, <1>3, <2>1, <2>2, OneTask
  <2>4. "online" \in ClientStatus
    BY DEF ClientStatus, CallStatuses
  <2>5. /\ onlineUsers' \subseteq Users
        /\ status' \in [Users -> ClientStatus]
        /\ inConv' \in [Users -> Conversations \cup {None}]
    BY <2>1, <2>4, SetCallStatusTyped DEF IInv
  <2>6. TypeOK' /\ RegistryInv'
    BY <1>1, <2>3, <2>5 DEF IInv, TypeOK, RegistryInv
  <2> QED
    BY <2>3, <2>6 DEF IInv
<1> QED
  BY <1>4, <1>5

LEMMA EndCallStep ==
  ASSUME IInv, NEW p \in Procs, endCall(p)
  PROVE  IInv'
<1> DEFINE k == task[p].call
           S == {caller[k]}
           r == Swept([task[p] EXCEPT !.pc = "clear", !.user = None, !.todo = S,
                                      !.then = "clearAll"])
<1>1. /\ task[p] \in Task /\ task[p].pc = "endCall" /\ task[p] # Idle
      /\ k \in Calls /\ conversation[k] # None /\ task[p].conv \in Conversations
      /\ S \in SUBSET Users /\ task[p].hit = None
      /\ UNCHANGED <<conversation, caller, callStatus, participants, onlineUsers, status, inConv>>
  BY DEF endCall, IInv, TypeOK, TasksAgree, Agrees, OnCall, CallsInv, clients, Idle
<1>2. /\ task' = [task EXCEPT ![p] = r]
      /\ activeCalls' = [activeCalls EXCEPT ![conversation[k]] = None]
  BY DEF endCall, ClearThen, Unregister, IInv, TypeOK
<1>3. /\ r \in Task /\ Agrees(r) /\ r.pc # "register"
      /\ r.call \in {k, None}
  <2> HIDE DEF S
  <2> QED
    BY <1>1, ClearingTask
<1> HIDE DEF r
<1>4. task' \in [Procs -> Task] /\ TasksAgree' /\ Reserved' /\ CallsInv'
  BY <1>1, <1>2, <1>3, OneTask
<1>5. TypeOK' /\ RegistryInv'
  BY <1>1, <1>2, <1>4 DEF IInv, TypeOK, RegistryInv
<1> QED
  BY <1>4, <1>5 DEF IInv

LEMMA WakeStep ==
  ASSUME IInv, NEW k \in Calls, watcherWake(k)
  PROVE  IInv'
<1>1. /\ k \in Procs /\ task[k].pc = "asleep" /\ task[k] # Idle
      /\ UNCHANGED <<activeCalls, conversation, caller, callStatus, participants,
                     onlineUsers, status, inConv>>
  BY DEF watcherWake, registry, clients, Procs, Idle
<1>2. conversation[k] \in Conversations
  BY <1>1 DEF IInv, TypeOK, CallsInv
<1> DEFINE c == activeCalls[conversation[k]]
           t == [Idle EXCEPT !.pc = "expire", !.conv = conversation[k], !.call = c]
<1>3. c # None => c \in Calls /\ conversation[c] # None
  BY <1>2, NoneAssumption DEF IInv, TypeOK, RegistryInv
<1>4. /\ participants' \in [Calls -> [Users -> ParticipantStatus]]
      /\ callStatus' \in [Calls -> OverallStatus]
  BY <1>1 DEF IInv, TypeOK
<1>5. CASE c = None
  BY <1>1, <1>4, <1>5, IdleTyped, IdleAgrees, ParticipantStep
  DEF watcherWake, NothingToExpire, Finish, Idle
<1>6. CASE c # None
  <2>1. task' = [task EXCEPT ![k] = t]
    BY <1>6 DEF watcherWake, NothingToExpire
  <2>2. t \in Task /\ Agrees(t) /\ t.pc # "register" /\ t.call = c
    BY <1>2, <1>3, <1>6
    DEF Idle, Task, Labels, Agrees, OnCall, ForUser, Answers
  <2> HIDE DEF t, c
  <2>3. task' \in [Procs -> Task] /\ TasksAgree' /\ Reserved' /\ CallsInv'
    BY <1>1, <1>3, <1>6, <2>1, <2>2, OneTask
  <2>4. TypeOK' /\ RegistryInv'
    BY <1>1, <2>3 DEF IInv, TypeOK, RegistryInv
  <2> QED
    BY <2>3, <2>4 DEF IInv
<1> QED
  BY <1>5, <1>6

LEMMA ExpireStep ==
  ASSUME IInv, NEW k \in Calls, startCallTimeoutWatcher(k)
  PROVE  IInv'
<1> DEFINE c == task[k].call
           ps == [u \in Users |-> IF u \in Late(c) THEN "timeout" ELSE participants[c][u]]
           next == IF EndsAfterExpiry(k, ps) THEN "endCall" ELSE "idle"
           S == Late(c)
           r == Swept([task[k] EXCEPT !.pc = "clear", !.user = None, !.todo = S,
                                      !.then = next])
<1>1. /\ k \in Procs /\ task[k] \in Task /\ task[k].pc = "expire" /\ task[k] # Idle
      /\ c \in Calls /\ conversation[c] # None /\ task[k].conv \in Conversations
      /\ task[k].hit = None
      /\ UNCHANGED <<activeCalls, conversation, caller, callStatus, onlineUsers, status, inConv>>
  BY DEF startCallTimeoutWatcher, IInv, TypeOK, TasksAgree, Agrees, OnCall, registry,
         clients, Procs, Idle
<1>2. /\ participants' = [participants EXCEPT ![c] = ps]
      /\ task' = [task EXCEPT ![k] = r]
  BY <1>1 DEF startCallTimeoutWatcher, ClearThen, IInv, TypeOK
<1>3. ps \in [Users -> ParticipantStatus]
  BY <1>1 DEF IInv, TypeOK, ParticipantStatus, Answered
<1>4. S \in SUBSET Users /\ next \in {"idle", "endCall", "clearAll"}
  BY DEF Late
<1>5. /\ r \in Task /\ Agrees(r) /\ r.pc # "register"
      /\ r.call \in {c, None}
  <2> HIDE DEF next, S
  <2> QED
    BY <1>1, <1>4, ClearingTask
<1>6. /\ participants' \in [Calls -> [Users -> ParticipantStatus]]
      /\ callStatus' \in [Calls -> OverallStatus]
  <2> HIDE DEF ps
  <2> QED
    BY <1>1, <1>2, <1>3 DEF IInv, TypeOK
<1> HIDE DEF r
<1> QED
  BY <1>1, <1>2, <1>5, <1>6, ParticipantStep

LEMMA ConnectStep ==
  ASSUME IInv, NEW u \in Users, Connect(u)
  PROVE  IInv'
<1> DEFINE rest(p) == [task[p] EXCEPT !.hit = None, !.todo = @ \ {u}]
<1>1. /\ task' = [p \in Procs |-> IF task[p].hit = u THEN Swept(rest(p)) ELSE task[p]]
      /\ UNCHANGED <<activeCalls, conversation, caller, callStatus, participants>>
      /\ onlineUsers' \subseteq Users
      /\ status' \in [Users -> ClientStatus]
      /\ inConv' \in [Users -> Conversations \cup {None}]
  BY DEF Connect, registry, IInv, TypeOK, ClientStatus, CallStatuses
<1>2. ASSUME NEW p \in Procs, task[p].hit = u
      PROVE  /\ Swept(rest(p)) \in Task
             /\ Agrees(Swept(rest(p)))
             /\ Swept(rest(p)).pc # "register"
             /\ Swept(rest(p)).call \in {task[p].call, None}
             /\ task[p] # Idle
  <2>1. /\ task[p] \in Task /\ Agrees(task[p]) /\ u # None
        /\ task[p].pc \in {"clear", "clearAll"}
    BY <1>2, NoneAssumption DEF IInv, TypeOK, TasksAgree, Agrees
  <2>2. /\ rest(p) \in Task /\ Agrees(rest(p))
        /\ rest(p).pc \in {"clear", "clearAll"} /\ rest(p).call = task[p].call
    BY <2>1 DEF Task, Agrees
  <2> HIDE DEF rest
  <2> QED
    BY <2>1, <2>2, SweptTyped, SweptAgrees DEF Idle
<1> HIDE DEF rest
<1>3. ASSUME NEW p \in Procs
      PROVE  /\ task'[p] \in Task
             /\ Agrees(task'[p])
             /\ task'[p] = task[p] \/ ( /\ task'[p].pc # "register"
                                        /\ task'[p].call \in {task[p].call, None}
                                        /\ task[p] # Idle )
  BY <1>1, <1>2 DEF IInv, TypeOK, TasksAgree
<1>4. TypeOK'
  BY <1>1, <1>3 DEF IInv, TypeOK
<1>5. TasksAgree'
  BY <1>1, <1>3 DEF TasksAgree, Agrees
<1>6. Reserved'
  <2> SUFFICES ASSUME NEW p \in Procs, task'[p].pc = "register"
               PROVE  /\ task'[p].call \in Calls
                      /\ conversation'[task'[p].call] = None
                      /\ \A q \in Procs \ {p} : task'[q].call # task'[p].call
    BY DEF Reserved
  <2>1. task'[p] = task[p]
    BY <1>3
  <2>2. None \notin Calls
    BY NoneAssumption DEF Procs
  <2> QED
    BY <1>1, <1>3, <2>1, <2>2 DEF IInv, Reserved
<1>7. CallsInv' /\ RegistryInv'
  BY <1>1, <1>3 DEF IInv, CallsInv, RegistryInv, Procs
<1> QED
  BY <1>4, <1>5, <1>6, <1>7 DEF IInv

LEMMA UpdateStep ==
  ASSUME IInv, NEW u \in Users, NEW s \in Settable, UpdateStatus(u, s)
  PROVE  IInv'
<1>1. /\ UNCHANGED <<activeCalls, conversation, caller, callStatus, participants,
                     onlineUsers, inConv, task>>
      /\ status' = [status EXCEPT ![u] = s]
      /\ s \in ClientStatus
  BY DEF UpdateStatus, registry, ClientStatus
<1>2. TypeOK'
  BY <1>1 DEF IInv, TypeOK
<1>3. TasksAgree' /\ Reserved' /\ CallsInv' /\ RegistryInv'
  BY <1>1 DEF IInv, TasksAgree, Agrees, Reserved, CallsInv, RegistryInv
<1> QED
  BY <1>2, <1>3 DEF IInv

LEMMA StutterStep ==
  ASSUME IInv, UNCHANGED vars
  PROVE  IInv'
BY DEF vars, IInv, TypeOK, TasksAgree, Agrees, Reserved, CallsInv, RegistryInv

LEMMA NextIInv ==
  ASSUME IInv, [Next]_vars
  PROVE  IInv'
<1>1. ASSUME NEW w \in Workers, NEW u \in Users, NEW cv \in Conversations, Receive(w, u, cv)
      PROVE  IInv'
  BY <1>1, InitiateStep, JoinStep, LookupStep DEF Receive
<1>2. ASSUME NEW w \in Workers, Handle(w)
      PROVE  IInv'
  <2>1. CASE handleCallReject(w) \/ handleCallTimeout(w) \/ handleCallEnd(w)
    <3>1. /\ {"reject", "timeout", "leave"} \subseteq Answers
          /\ {"rejected", "timeout", "left"} \subseteq Answered
      BY DEF Answers, Answered
    <3> QED
      BY <2>1, <3>1, DepartStep DEF handleCallReject, handleCallTimeout, handleCallEnd
  <2> QED
    BY <1>2, <2>1, RegisterStep, MarkStep, AcceptStep, DismissStep, StrangerStep DEF Handle
<1>3. ASSUME NEW k \in Calls, Watch(k)
      PROVE  IInv'
  BY <1>3, WakeStep, ExpireStep DEF Watch
<1>4. ASSUME NEW p \in Procs, Clear(p)
      PROVE  IInv'
  BY <1>4, ClearStep, EndCallStep DEF Clear
<1> QED
  BY <1>1, <1>2, <1>3, <1>4, ConnectStep, UpdateStep, StutterStep DEF Next

\* The inductive invariant holds of every behaviour.
THEOREM Invariance == Spec => []IInv
BY InitIInv, NextIInv, PTL DEF Spec

\* Type correctness of the call subsystem.
THEOREM TypeCorrect == Spec => []TypeOK
<1>1. IInv => TypeOK
  BY DEF IInv
<1> QED
  BY <1>1, Invariance, PTL

----------------------------------------------------------------------------
(* No call is left behind in activeCalls. *)

\* A goroutine keeps its decision to end a call until endCall carries it out.
\* When one goroutine gets record t, the other decisions are untouched.
LEMMA EndingKept ==
  ASSUME IInv, NEW p \in Procs, NEW t,
         task' = [task EXCEPT ![p] = t],
         task[p].then = "endCall" => t.then = "endCall" /\ t.call = task[p].call
  PROVE  \A k \in Calls : Ending(k) => Ending(k)'
BY DEF Ending, IInv, TypeOK

LEMMA SweptEnding ==
  ASSUME NEW t \in Task, t.then = "endCall"
  PROVE  Swept(t).then = "endCall" /\ Swept(t).call = t.call
<1>1. CASE t.todo # {}
  BY <1>1 DEF Swept
<1>2. CASE t.todo = {}
  BY <1>2 DEF Swept, Task
<1> QED
  BY <1>1, <1>2

\* A step that registers and removes no call and touches one call's participants.
LEMMA AliveKept ==
  ASSUME IInv, ActiveCallAlive, UNCHANGED activeCalls,
         \A k \in Calls : Ending(k) => Ending(k)',
         NEW c \in Calls, NEW ps,
         \/ UNCHANGED participants
         \/ /\ participants' = [participants EXCEPT ![c] = ps]
            /\ \/ \E u \in Users : ps[u] \in {"ringing", "accepted", "dismissed"}
               \/ Ending(c)'
               \/ \A cv \in Conversations : activeCalls[cv] # c
  PROVE  ActiveCallAlive'
<1> SUFFICES ASSUME NEW cv \in Conversations, NEW k \in Calls, activeCalls[cv] = k
             PROVE  Peopled(k)' \/ Ending(k)'
  BY DEF ActiveCallAlive, Peopled, Ending, IInv, TypeOK
<1>1. Peopled(k) \/ Ending(k)
  BY NoneAssumption DEF ActiveCallAlive, Procs
<1>2. CASE Ending(k)
  BY <1>2
<1>3. CASE Peopled(k) /\ participants'[k] = participants[k]
  BY <1>3 DEF Peopled
<1>4. CASE participants'[k] # participants[k]
  <2>1. k = c /\ participants'[k] = ps
    BY <1>4 DEF IInv, TypeOK
  <2>2. (\E u \in Users : ps[u] \in {"ringing", "accepted", "dismissed"}) \/ Ending(c)'
    BY <1>4, <2>1
  <2> QED
    BY <2>1, <2>2 DEF Peopled
<1> QED
  BY <1>1, <1>2, <1>3, <1>4

LEMMA AliveOtherSteps ==
  ASSUME IInv, ActiveCallAlive, NEW p \in Procs, NEW t,
         UNCHANGED <<activeCalls, participants>>,
         task' = [task EXCEPT ![p] = t],
         task[p].then = "endCall" => t.then = "endCall" /\ t.call = task[p].call
  PROVE  ActiveCallAlive'
<1>1. \A k \in Calls : Ending(k) => Ending(k)'
  BY EndingKept
<1> SUFFICES ASSUME NEW cv \in Conversations, NEW k \in Calls, activeCalls[cv] = k
             PROVE  Peopled(k)' \/ Ending(k)'
  BY DEF ActiveCallAlive, Peopled, Ending, IInv, TypeOK
<1>2. Peopled(k) \/ Ending(k)
  BY NoneAssumption DEF ActiveCallAlive, Procs
<1> QED
  BY <1>1, <1>2 DEF Peopled

LEMMA NotEnding ==
  ASSUME IInv, NEW p \in Procs, task[p].pc \notin {"clear", "clearAll", "endCall"}
  PROVE  task[p].then = "idle"
BY DEF IInv, TasksAgree, Agrees

LEMMA AliveReceive ==
  ASSUME IInv, ActiveCallAlive, NEW w \in Workers, NEW u \in Users,
         NEW cv \in Conversations, Receive(w, u, cv)
  PROVE  ActiveCallAlive'
<1>1. w \in Procs /\ task[w] = Idle /\ task[w].then = "idle"
  <2>1. w \in Procs
    BY DEF Procs
  <2>2. task[w] = Idle
    BY DEF Receive, handleCallInitiate, raiseJoiningRequest, getActiveCall,
           CallNotFound, handleCallCancel
  <2> QED
    BY <2>1, <2>2 DEF Idle
<1>2. ASSUME NEW k \in Calls, NEW S \in JoinCallees, raiseJoiningRequest(w, u, cv, k, S)
      PROVE  ActiveCallAlive'
  <2>1. /\ conversation[k] = None /\ UNCHANGED activeCalls
        /\ \E ps : participants' = [participants EXCEPT ![k] = ps]
        /\ \A q \in Procs \ {w, k} : task'[q] = task[q]
        /\ task[k].then = "idle"
    <3>1. conversation[k] = None /\ UNCHANGED activeCalls
      BY <1>2 DEF raiseJoiningRequest, Fresh
    <3>2. \E ps : participants' = [participants EXCEPT ![k] = ps]
      BY <1>2 DEF raiseJoiningRequest
    <3>3. PICK a, b : task' = [task EXCEPT ![w] = a, ![k] = b]
      BY <1>2 DEF raiseJoiningRequest
    <3>4. \A q \in Procs \ {w, k} : task'[q] = task[q]
      BY <3>3 DEF IInv, TypeOK
    <3>5. task[k].then = "idle"
      BY <3>1 DEF IInv, CallsInv, Idle
    <3> QED
      BY <3>1, <3>2, <3>4, <3>5
  <2>2. \A c \in Calls : Ending(c) => Ending(c)'
    BY <1>1, <2>1 DEF Ending
  <2>3. \A c \in Conversations : activeCalls[c] # k
    BY <2>1, NoneAssumption DEF IInv, RegistryInv, Procs
  <2> QED
    BY <2>1, <2>2, <2>3, AliveKept
<1>3. ASSUME NEW k \in Calls, handleCallInitiate(w, u, cv, k)
      PROVE  ActiveCallAlive'
  BY <1>1, <1>3, AliveOtherSteps DEF handleCallInitiate, registry
<1>4. ASSUME NEW label \in Answers, getActiveCall(w, u, cv, label)
      PROVE  ActiveCallAlive'
  BY <1>1, <1>4, AliveOtherSteps DEF getActiveCall, registry
<1>5. CASE CallNotFound(w, u, cv)
  BY <1>1, <1>5, AliveOtherSteps DEF CallNotFound, registry
<1>6. CASE handleCallCancel(w, u, cv)
  BY <1>1, <1>6, AliveOtherSteps DEF handleCallCancel, registry
<1> QED
  BY <1>2, <1>3, <1>4, <1>5, <1>6 DEF Receive

LEMMA AliveRegister ==
  ASSUME IInv, ActiveCallAlive, NEW w \in Workers, registerCall(w)
  PROVE  ActiveCallAlive'
<1> DEFINE k == task[w].call
           cw == task[w].conv
           u == task[w].user
<1>1. /\ w \in Procs /\ task[w].pc = "register" /\ task[w].then = "idle"
      /\ u \in Users /\ cw \in Conversations
      /\ k \in Calls /\ conversation[k] = None /\ task[k].then = "idle"
  BY DEF registerCall, IInv, TypeOK, TasksAgree, Agrees, Reserved, CallsInv, ForUser,
         Procs, Idle
<1>2. \/ UNCHANGED <<activeCalls, participants>> /\ task' = [task EXCEPT ![w] = Idle]
      \/ /\ activeCalls' = [activeCalls EXCEPT ![cw] = k]
         /\ \E ps : /\ participants' = [participants EXCEPT ![k] = [ps EXCEPT ![u] = "accepted"]]
                    /\ ps \in [Users -> ParticipantStatus]
         /\ \A q \in Procs \ {w, k} : task'[q] = task[q]
  <2>1. \A missing : NewParticipants(task[w].todo, missing) \in [Users -> ParticipantStatus]
    BY DEF NewParticipants, ParticipantStatus
  <2> QED
    BY <1>1, <2>1 DEF registerCall, registry, Finish, IInv, TypeOK
<1>3. CASE UNCHANGED <<activeCalls, participants>> /\ task' = [task EXCEPT ![w] = Idle]
  BY <1>1, <1>3, AliveOtherSteps
<1>4. ASSUME activeCalls' = [activeCalls EXCEPT ![cw] = k],
             NEW ps \in [Users -> ParticipantStatus],
             participants' = [participants EXCEPT ![k] = [ps EXCEPT ![u] = "accepted"]],
             \A q \in Procs \ {w, k} : task'[q] = task[q]
      PROVE  ActiveCallAlive'
  <2> HIDE DEF k, cw, u
  <2>1. \A c \in Calls : Ending(c) => Ending(c)'
    BY <1>1, <1>4 DEF Ending
  <2>2. u \in Users /\ participants'[k][u] = "accepted"
    BY <1>1, <1>4 DEF IInv, TypeOK
  <2>3. ASSUME NEW cv \in Conversations, NEW c \in Calls, c # k, activeCalls[cv] = c
        PROVE  Peopled(c)' \/ Ending(c)'
    <3>1. Peopled(c) \/ Ending(c)
      BY <2>3, NoneAssumption DEF ActiveCallAlive, Procs
    <3>2. participants'[c] = participants[c]
      BY <1>4, <2>3 DEF IInv, TypeOK
    <3> QED
      BY <2>1, <3>1, <3>2 DEF Peopled
  <2>4. ASSUME NEW cv \in Conversations, NEW c \in Calls, activeCalls'[cv] = c
        PROVE  c = k \/ activeCalls[cv] = c
    BY <1>1, <1>4, <2>4 DEF IInv, TypeOK
  <2>5. activeCalls' \in [Conversations -> Calls \cup {None}]
    BY <1>1, <1>4 DEF IInv, TypeOK
  <2>6. ASSUME NEW cv \in Conversations, NEW c \in Calls, activeCalls'[cv] = c
        PROVE  Peopled(c)' \/ Ending(c)'
    <3>1. CASE c = k
      BY <2>2, <3>1 DEF Peopled
    <3>2. CASE c # k
      BY <2>3, <2>4, <2>6, <3>2
    <3> QED
      BY <3>1, <3>2
  <2> QED
    BY <2>5, <2>6 DEF ActiveCallAlive, Peopled, Ending
<1> QED
  BY <1>2, <1>3, <1>4

LEMMA AliveMark ==
  ASSUME IInv, ActiveCallAlive, NEW w \in Workers,
         markCaller(w) \/ markCallees(w) \/ acceptMark(w)
         \/ RefuseStranger(w) \/ ClearStranger(w)
  PROVE  ActiveCallAlive'
<1>1. w \in Procs /\ task[w].pc \notin {"clear", "clearAll", "endCall"}
  BY DEF markCaller, markCallees, acceptMark, RefuseStranger, ClearStranger, Stranger, Procs
<1>2. task[w].then = "idle"
  BY <1>1, NotEnding
<1>3. UNCHANGED <<activeCalls, participants>>
  BY DEF markCaller, markCallees, acceptMark, RefuseStranger, ClearStranger, Stranger, registry
<1>4. \E t : task' = [task EXCEPT ![w] = t]
  <2>1. CASE markCaller(w)
    BY <2>1 DEF markCaller
  <2>2. CASE markCallees(w)
    BY <2>2 DEF markCallees
  <2>3. CASE acceptMark(w)
    BY <2>3 DEF acceptMark, Finish
  <2>4. CASE RefuseStranger(w)
    BY <2>4 DEF RefuseStranger, Finish
  <2>5. CASE ClearStranger(w)
    BY <2>5 DEF ClearStranger, ClearThen
  <2> QED
    BY <2>1, <2>2, <2>3, <2>4, <2>5
<1> QED
  BY <1>1, <1>2, <1>3, <1>4, AliveOtherSteps

LEMMA AliveAccept ==
  ASSUME IInv, ActiveCallAlive, NEW w \in Workers, handleCallAccept(w) \/ handleCallDismiss(w)
  PROVE  ActiveCallAlive'
<1> DEFINE k == task[w].call
           u == task[w].user
<1>1. w \in Procs /\ task[w].pc \in Answers
  BY DEF handleCallAccept, handleCallDismiss, Sender, Answers, Procs
<1>2. k \in Calls /\ u \in Users /\ task[w].then = "idle"
  BY <1>1, OnCallFacts
<1>3. /\ UNCHANGED activeCalls
      /\ \E t : task' = [task EXCEPT ![w] = t]
      /\ \/ UNCHANGED participants
         \/ participants' = [participants EXCEPT ![k][u] = "accepted"]
         \/ participants' = [participants EXCEPT ![k][u] = "dismissed"]
  BY DEF handleCallAccept, handleCallDismiss, Goto, Finish, registry
<1>4. \A c \in Calls : Ending(c) => Ending(c)'
  BY <1>1, <1>2, <1>3, EndingKept
<1>5. ASSUME NEW s \in {"accepted", "dismissed"}, participants' = [participants EXCEPT ![k][u] = s]
      PROVE  ActiveCallAlive'
  <2> DEFINE ps == [participants[k] EXCEPT ![u] = s]
  <2>1. participants' = [participants EXCEPT ![k] = ps]
    BY <1>5
  <2>2. u \in Users /\ ps[u] \in {"ringing", "accepted", "dismissed"}
    BY <1>2 DEF IInv, TypeOK
  <2> HIDE DEF ps, u, k
  <2> QED
    BY <1>2, <1>3, <1>4, <2>1, <2>2, AliveKept
<1>6. CASE UNCHANGED participants
  BY <1>2, <1>3, <1>4, <1>6, AliveKept
<1> QED
  BY <1>3, <1>5, <1>6

\* The last to go commits its goroutine to ending the call in the same step.
LEMMA AliveDepart ==
  ASSUME IInv, ActiveCallAlive, NEW w \in Workers, NEW label \in Answers,
         NEW s \in Answered, Depart(w, label, s)
  PROVE  ActiveCallAlive'
<1> DEFINE k == task[w].call
           u == task[w].user
           ps == [participants[k] EXCEPT ![u] = s]
           next == IF EndsAfter(label, ps) THEN "endCall" ELSE "idle"
           t == [task[w] EXCEPT !.pc = "clear", !.user = None, !.todo = {u}, !.then = next]
<1>1. w \in Procs /\ task[w].pc \in Answers
  BY DEF Depart, Sender, Procs
<1>2. task[w] \in Task /\ k \in Calls /\ u \in Users /\ task[w].then = "idle"
  BY <1>1, OnCallFacts
<1>3. /\ UNCHANGED activeCalls
      /\ participants' = [participants EXCEPT ![k] = ps]
      /\ task' = [task EXCEPT ![w] = Swept(t)]
  BY <1>1 DEF Depart, ClearThen, Counted, registry, IInv, TypeOK
<1>4. \A c \in Calls : Ending(c) => Ending(c)'
  BY <1>1, <1>2, <1>3, EndingKept
<1>5. \/ \E v \in Users : ps[v] \in {"ringing", "accepted", "dismissed"}
      \/ \A c \in Calls : c = k => Ending(c)'
  <2>1. CASE ~EndsAfter(label, ps)
    BY <2>1 DEF EndsAfter, NobodyLeft, SomeoneAccepted, SomeoneRinging
  <2>2. CASE EndsAfter(label, ps)
    <3>1. t \in Task /\ t.then = "endCall" /\ t.call = k
      BY <1>2, <2>2 DEF Task, Labels
    <3>2. Swept(t).then = "endCall" /\ Swept(t).call = k
      BY <3>1, SweptEnding
    <3>3. task'[w] = Swept(t)
      BY <1>1, <1>3 DEF IInv, TypeOK
    <3> HIDE DEF t
    <3>4. \E p \in Procs : task'[p].call = k /\ task'[p].then = "endCall"
      BY <1>1, <3>2, <3>3
    <3> QED
      BY <3>4 DEF Ending
  <2> QED
    BY <2>1, <2>2
<1>6. PICK c \in Calls : c = k
  BY <1>2
<1>7. participants' = [participants EXCEPT ![c] = ps]
  BY <1>3, <1>6
<1> HIDE DEF ps, k
<1> QED
  BY <1>3, <1>4, <1>5, <1>6, <1>7, AliveKept

\* A watcher that times the last ringing participants out ends the call unless
\* somebody has accepted.
LEMMA AliveExpire ==
  ASSUME IInv, ActiveCallAlive, NEW k \in Calls, startCallTimeoutWatcher(k)
  PROVE  ActiveCallAlive'
<1> DEFINE c == task[k].call
           ps == [u \in Users |-> IF u \in Late(c) THEN "timeout" ELSE participants[c][u]]
           next == IF EndsAfterExpiry(k, ps) THEN "endCall" ELSE "idle"
           t == [task[k] EXCEPT !.pc = "clear", !.user = None, !.todo = Late(c), !.then = next]
<1>1. /\ k \in Procs /\ task[k] \in Task /\ task[k].then = "idle" /\ c \in Calls
  BY DEF startCallTimeoutWatcher, IInv, TypeOK, TasksAgree, Agrees, OnCall, Procs
<1>2. /\ UNCHANGED activeCalls
      /\ participants' = [participants EXCEPT ![c] = ps]
      /\ task' = [task EXCEPT ![k] = Swept(t)]
  BY <1>1 DEF startCallTimeoutWatcher, ClearThen, registry, IInv, TypeOK
<1>3. \A d \in Calls : Ending(d) => Ending(d)'
  BY <1>1, <1>2, EndingKept
<1>4. \/ \E v \in Users : ps[v] \in {"ringing", "accepted", "dismissed"}
      \/ \A d \in Calls : d = c => Ending(d)'
  <2>1. CASE ~EndsAfterExpiry(k, ps)
    <3> HIDE DEF ps
    <3> QED
      BY <2>1 DEF EndsAfterExpiry, NobodyLeft, SomeoneAccepted, SomeoneRinging
  <2>2. CASE EndsAfterExpiry(k, ps)
    <3>1. t \in Task /\ t.then = "endCall" /\ t.call = c
      BY <1>1, <2>2 DEF Task, Labels, Late
    <3>2. Swept(t).then = "endCall" /\ Swept(t).call = c
      BY <3>1, SweptEnding
    <3>3. task'[k] = Swept(t)
      BY <1>1, <1>2 DEF IInv, TypeOK
    <3> HIDE DEF t
    <3>4. \E p \in Procs : task'[p].call = c /\ task'[p].then = "endCall"
      BY <1>1, <3>2, <3>3
    <3> QED
      BY <3>4 DEF Ending
  <2> QED
    BY <2>1, <2>2
<1>5. PICK d \in Calls : d = c
  BY <1>1
<1>6. participants' = [participants EXCEPT ![d] = ps]
  BY <1>2, <1>5
<1> HIDE DEF ps, c
<1> QED
  BY <1>2, <1>3, <1>4, <1>5, <1>6, AliveKept

LEMMA AliveClear ==
  ASSUME IInv, ActiveCallAlive, NEW p \in Procs, clearCheck(p) \/ clearWrite(p)
  PROVE  ActiveCallAlive'
<1>1. /\ task[p] \in Task
      /\ UNCHANGED <<activeCalls, participants>>
  BY DEF clearCheck, clearWrite, registry, IInv, TypeOK
<1>2. ASSUME NEW t \in Task, t.then = task[p].then, t.call = task[p].call,
             task' = [task EXCEPT ![p] = t] \/ task' = [task EXCEPT ![p] = Swept(t)]
      PROVE  ActiveCallAlive'
  BY <1>1, <1>2, SweptEnding, AliveOtherSteps
<1>3. \E t \in Task : /\ t.then = task[p].then /\ t.call = task[p].call
                      /\ \/ task' = [task EXCEPT ![p] = t]
                         \/ task' = [task EXCEPT ![p] = Swept(t)]
  <2>1. CASE clearCheck(p)
    <3>1. PICK v \in task[p].todo :
            \/ task' = [task EXCEPT ![p] = [task[p] EXCEPT !.hit = v]]
            \/ task' = [task EXCEPT ![p] = Swept([task[p] EXCEPT !.todo = @ \ {v}])]
      BY <2>1 DEF clearCheck
    <3>2. /\ [task[p] EXCEPT !.hit = v] \in Task
          /\ [task[p] EXCEPT !.todo = @ \ {v}] \in Task
      BY <1>1 DEF Task
    <3> QED
      BY <1>1, <3>1, <3>2 DEF Task
  <2>2. CASE clearWrite(p)
    <3> DEFINE r == [task[p] EXCEPT !.hit = None, !.todo = @ \ {task[p].hit}]
    <3>1. task' = [task EXCEPT ![p] = Swept(r)]
      BY <2>2 DEF clearWrite
    <3>2. r \in Task /\ r.then = task[p].then /\ r.call = task[p].call
      BY <1>1 DEF Task
    <3> HIDE DEF r
    <3> QED
      BY <3>1, <3>2
  <2> QED
    BY <2>1, <2>2
<1> QED
  BY <1>2, <1>3

LEMMA AliveEndCall ==
  ASSUME IInv, ActiveCallAlive, NEW p \in Procs, endCall(p)
  PROVE  ActiveCallAlive'
<1>1. /\ task[p].pc = "endCall" /\ task[p].call \in Calls
      /\ \E r : task' = [task EXCEPT ![p] = r]
      /\ activeCalls' = [activeCalls EXCEPT ![conversation[task[p].call]] = None]
      /\ UNCHANGED participants
  BY DEF endCall, ClearThen, Unregister, IInv, TasksAgree, Agrees, OnCall
<1> SUFFICES ASSUME NEW cv \in Conversations, NEW k \in Calls, activeCalls'[cv] = k
             PROVE  Peopled(k)' \/ Ending(k)'
  <2>1. activeCalls' \in [Conversations -> Calls \cup {None}]
    BY <1>1 DEF IInv, TypeOK
  <2> QED
    BY <2>1 DEF ActiveCallAlive, Peopled, Ending
<1>2. activeCalls[cv] = k /\ k # task[p].call
  BY <1>1, NoneAssumption DEF IInv, TypeOK, RegistryInv, Procs
<1>3. Peopled(k) \/ Ending(k)
  BY <1>2, NoneAssumption DEF ActiveCallAlive, Procs
<1>4. Ending(k) => Ending(k)'
  BY <1>1, <1>2 DEF Ending, IInv, TypeOK
<1> QED
  BY <1>1, <1>3, <1>4 DEF Peopled

LEMMA AliveWake ==
  ASSUME IInv, ActiveCallAlive, NEW k \in Calls, watcherWake(k)
  PROVE  ActiveCallAlive'
<1>1. /\ k \in Procs /\ task[k].pc = "asleep" /\ UNCHANGED <<activeCalls, participants>>
  BY DEF watcherWake, registry, Procs
<1>2. \E t : task' = [task EXCEPT ![k] = t]
  BY DEF watcherWake, Finish
<1>3. task[k].then = "idle"
  BY <1>1, NotEnding
<1> QED
  BY <1>1, <1>2, <1>3, AliveOtherSteps

LEMMA AliveConnect ==
  ASSUME IInv, ActiveCallAlive, NEW u \in Users, Connect(u)
  PROVE  ActiveCallAlive'
<1>1. UNCHANGED <<activeCalls, participants>>
  BY DEF Connect, registry
<1>2. ASSUME NEW p \in Procs, task[p].then = "endCall"
      PROVE  task'[p].then = "endCall" /\ task'[p].call = task[p].call
  <2> DEFINE r == [task[p] EXCEPT !.hit = None, !.todo = @ \ {u}]
  <2>1. task[p] \in Task
    BY DEF IInv, TypeOK
  <2>2. r \in Task /\ r.then = "endCall" /\ r.call = task[p].call
    BY <1>2, <2>1 DEF Task
  <2>3. task'[p] = task[p] \/ task'[p] = Swept(r)
    BY DEF Connect
  <2> HIDE DEF r
  <2> QED
    BY <1>2, <2>2, <2>3, SweptEnding
<1> SUFFICES ASSUME NEW cv \in Conversations, NEW k \in Calls, activeCalls[cv] = k
             PROVE  Peopled(k)' \/ Ending(k)'
  BY <1>1 DEF ActiveCallAlive, Peopled, Ending, IInv, TypeOK
<1>3. Peopled(k) \/ Ending(k)
  BY NoneAssumption DEF ActiveCallAlive, Procs
<1> QED
  BY <1>1, <1>2, <1>3 DEF Peopled, Ending

LEMMA NextAlive ==
  ASSUME IInv, ActiveCallAlive, [Next]_vars
  PROVE  ActiveCallAlive'
<1>1. ASSUME NEW w \in Workers, Handle(w)
      PROVE  ActiveCallAlive'
  <2>1. CASE handleCallReject(w) \/ handleCallTimeout(w) \/ handleCallEnd(w)
    <3>1. /\ {"reject", "timeout", "leave"} \subseteq Answers
          /\ {"rejected", "timeout", "left"} \subseteq Answered
      BY DEF Answers, Answered
    <3> QED
      BY <2>1, <3>1, AliveDepart DEF handleCallReject, handleCallTimeout, handleCallEnd
  <2> QED
    BY <1>1, <2>1, AliveRegister, AliveMark, AliveAccept DEF Handle
<1>2. ASSUME NEW k \in Calls, Watch(k)
      PROVE  ActiveCallAlive'
  BY <1>2, AliveWake, AliveExpire DEF Watch
<1>3. ASSUME NEW p \in Procs, Clear(p)
      PROVE  ActiveCallAlive'
  BY <1>3, AliveClear, AliveEndCall DEF Clear
<1>4. ASSUME NEW u \in Users, NEW s \in Settable, UpdateStatus(u, s)
      PROVE  ActiveCallAlive'
  BY <1>4 DEF UpdateStatus, registry, ActiveCallAlive, Peopled, Ending
<1>5. CASE UNCHANGED vars
  BY <1>5 DEF vars, ActiveCallAlive, Peopled, Ending
<1> QED
  BY <1>1, <1>2, <1>3, <1>4, <1>5, AliveReceive, AliveConnect DEF Next

\* No call is ever left behind in activeCalls: as long as it is registered,
\* somebody is in it or some goroutine is on its way to endCall.
THEOREM NoAbandonedCall == Spec => []ActiveCallAlive
<1>1. Init => ActiveCallAlive
  BY DEF Init, ActiveCallAlive
<1> QED
  BY <1>1, InitIInv, NextIInv, NextAlive, PTL DEF Spec

=============================================================================
