--------------------------- MODULE CallEndProofs ---------------------------
(***************************************************************************)
(* Proofs about CallHandler, for any number of users, conversations, call  *)
(* objects and workers: how ringing and calls come to their end.  Nobody    *)
(* is rung without a watcher to come, and nobody who has decided to end a   *)
(* call forgets it.  That watchers wake and handlers go on is fairness and  *)
(* left to TLC.                                                             *)
(***************************************************************************)
EXTENDS CallAnswerProofs

\* The places where a goroutine waits for its timer, times out, clears and ends.
Ends == {"asleep", "expire", "clear", "clearAll", "endCall"}

\* Nobody but the goroutine itself moves it from there; a reconnect may take a
\* user off the hands of one that is clearing.
LEMMA OnItsOwn ==
  ASSUME IInv, [Next]_vars, NEW p \in Procs, task[p].pc \in Ends
  PROVE  \/ task'[p] = task[p]
         \/ p \in Calls /\ Watch(p)
         \/ Clear(p)
         \/ \E u \in Users : Connect(u)
<1>1. TypeOK /\ task[p] # Idle
  BY DEF IInv, Ends, Idle
<1>2. ASSUME NEW w \in Workers, NEW u \in Users, NEW cv \in Conversations, Receive(w, u, cv)
      PROVE  task'[p] = task[p]
  <2>1. task[w] = Idle /\ w # p
    BY <1>1, <1>2 DEF Receive, handleCallInitiate, raiseJoiningRequest, getActiveCall,
                      CallNotFound, handleCallCancel
  <2>2. CASE \E k \in Calls, S \in JoinCallees : raiseJoiningRequest(w, u, cv, k, S)
    <3> PICK k \in Calls, S \in JoinCallees : raiseJoiningRequest(w, u, cv, k, S)
      BY <2>2
    <3>1. conversation[k] = None /\ task[k] = Idle
      BY DEF raiseJoiningRequest, Fresh, IInv, CallsInv
    <3>2. \E a, b : task' = [task EXCEPT ![w] = a, ![k] = b]
      BY DEF raiseJoiningRequest
    <3> QED
      BY <1>1, <2>1, <3>1, <3>2 DEF TypeOK
  <2>3. CASE \E t : task' = [task EXCEPT ![w] = t]
    BY <1>1, <2>1, <2>3 DEF TypeOK
  <2> QED
    BY <1>2, <2>2, <2>3 DEF Receive, handleCallInitiate, getActiveCall, CallNotFound,
                            handleCallCancel
<1>3. ASSUME NEW w \in Workers, Handle(w)
      PROVE  task'[p] = task[p]
  <2>1. w # p
    BY <1>3 DEF Handle, registerCall, markCaller, markCallees, handleCallAccept, acceptMark,
       handleCallReject, handleCallTimeout, handleCallEnd, Depart, handleCallDismiss,
       RefuseStranger, ClearStranger, Sender, Stranger, Ends
  <2>2. CASE registerCall(w)
    <3>1. w \in Procs /\ task[w].pc = "register"
      BY <2>2 DEF registerCall, Procs
    <3>2. task[w].call \in Calls /\ task[task[w].call] = Idle
      BY <3>1 DEF IInv, Reserved, CallsInv
    <3>3. \/ task' = [task EXCEPT ![w] = Idle]
          \/ task' = [task EXCEPT ![w].pc = "markCaller",
                                  ![task[w].call] = [Idle EXCEPT !.pc = "asleep"]]
      BY <2>2 DEF registerCall, Finish
    <3> QED
      BY <1>1, <2>1, <3>2, <3>3 DEF TypeOK
  <2>3. CASE \E t : task' = [task EXCEPT ![w] = t] \/ task' = [task EXCEPT ![w].pc = t]
    BY <1>1, <2>1, <2>3 DEF TypeOK
  <2> QED
    BY <1>3, <2>2, <2>3 DEF Handle, markCaller, markCallees, handleCallAccept, acceptMark,
       handleCallReject, handleCallTimeout, handleCallEnd, Depart, handleCallDismiss,
       RefuseStranger, ClearStranger, Finish, Goto, ClearThen
<1>4. ASSUME NEW k \in Calls, Watch(k), k # p
      PROVE  task'[p] = task[p]
  <2>1. \E t : task' = [task EXCEPT ![k] = t]
    BY <1>4 DEF Watch, watcherWake, startCallTimeoutWatcher, Finish, ClearThen
  <2> QED
    BY <1>1, <1>4, <2>1 DEF TypeOK
<1>5. ASSUME NEW q \in Procs, Clear(q), q # p
      PROVE  task'[p] = task[p]
  <2>1. \E t : task' = [task EXCEPT ![q] = t] \/ task' = [task EXCEPT ![q].hit = t]
    BY <1>5 DEF Clear, clearCheck, clearWrite, endCall, ClearThen
  <2> QED
    BY <1>1, <1>5, <2>1 DEF TypeOK
<1>6. CASE (\E u \in Users, s \in Settable : UpdateStatus(u, s)) \/ UNCHANGED vars
  BY <1>6 DEF UpdateStatus, vars
<1> QED
  BY <1>2, <1>3, <1>4, <1>5, <1>6 DEF Next

----------------------------------------------------------------------------
(* Nobody is rung without a watcher. *)

\* A call object that is created gets its watcher in the same step.
LEMMA CreatedWatched ==
  ASSUME IInv, [Next]_vars, NEW k \in Calls, conversation'[k] # conversation[k]
  PROVE  task'[k].pc = "asleep"
<1>1. TypeOK /\ k \in Procs
  BY DEF IInv, Procs
<1>2. ASSUME NEW w \in Workers, registerCall(w)
      PROVE  task'[k].pc = "asleep"
  <2>1. /\ conversation' = [conversation EXCEPT ![task[w].call] = task[w].conv]
        /\ task' = [task EXCEPT ![w].pc = "markCaller",
                                ![task[w].call] = [Idle EXCEPT !.pc = "asleep"]]
    BY <1>2 DEF registerCall, registry
  <2>2. k = task[w].call
    BY <1>1, <2>1 DEF TypeOK
  <2> QED
    BY <1>1, <2>1, <2>2 DEF TypeOK, Idle
<1>3. ASSUME NEW w \in Workers, NEW u \in Users, NEW cv \in Conversations,
             NEW c \in Calls, NEW S \in JoinCallees, raiseJoiningRequest(w, u, cv, c, S)
      PROVE  task'[k].pc = "asleep"
  <2>1. /\ conversation' = [conversation EXCEPT ![c] = cv]
        /\ \E t : task' = [task EXCEPT ![w] = t, ![c] = [Idle EXCEPT !.pc = "asleep"]]
    BY <1>3 DEF raiseJoiningRequest
  <2>2. k = c
    BY <1>1, <2>1 DEF TypeOK
  <2> QED
    BY <1>1, <2>1, <2>2 DEF TypeOK, Idle
<1>4. ASSUME NEW w \in Workers, NEW u \in Users, NEW cv \in Conversations, Receive(w, u, cv)
      PROVE  task'[k].pc = "asleep"
  BY <1>3, <1>4 DEF Receive, handleCallInitiate, getActiveCall, CallNotFound, handleCallCancel,
                    registry
<1>5. ASSUME NEW w \in Workers, Handle(w)
      PROVE  task'[k].pc = "asleep"
  BY <1>2, <1>5 DEF Handle, markCaller, markCallees, handleCallAccept, acceptMark,
     handleCallReject, handleCallTimeout, handleCallEnd, Depart, handleCallDismiss,
     RefuseStranger, ClearStranger, Stranger, registry
<1>6. ~\E c \in Calls : Watch(c)
  BY DEF Watch, watcherWake, startCallTimeoutWatcher, registry
<1>7. ~\E p \in Procs : Clear(p)
  BY DEF Clear, clearCheck, clearWrite, endCall, registry
<1>8. ~\E u \in Users : Connect(u) \/ \E s \in Settable : UpdateStatus(u, s)
  BY DEF Connect, UpdateStatus, registry
<1> QED
  BY <1>4, <1>5, <1>6, <1>7, <1>8 DEF Next, vars

Watched(k) == task[k].pc = "asleep" \/ (task[k].pc = "expire" /\ task[k].call = k)

\* Nobody becomes ringing in a call that was created before, and no such call gets
\* into the registry.
LEMMA RingingBefore ==
  ASSUME CallInv, [Next]_vars, NEW cv \in Conversations, NEW k \in Calls, NEW u \in Users,
         activeCalls'[cv] = k, participants'[k][u] = "ringing",
         conversation'[k] = conversation[k]
  PROVE  activeCalls[cv] = k /\ participants[k][u] = "ringing"
<1>1. TypeOK /\ Kinds /\ k # None
  BY StepKinds, NoneAssumption DEF CallInv, IInv, Procs
<1>2. ASSUME NEW c \in Calls, Creates(c)
      PROVE  activeCalls[cv] = k /\ participants[k][u] = "ringing"
  <2>1. k # c
    BY <1>1, <1>2, NoneAssumption DEF Creates, TypeOK
  <2> QED
    BY <1>1, <1>2, <2>1 DEF Creates, TypeOK
<1>3. ASSUME NEW w \in Workers, NEW c \in Calls, NEW v \in Users, NEW s \in Answered,
             Responds(w, c, v, s)
      PROVE  activeCalls[cv] = k /\ participants[k][u] = "ringing"
  <2>1. participants' = [participants EXCEPT ![c][v] = s] /\ UNCHANGED activeCalls
    BY <1>3 DEF Responds, registry
  <2>2. s # "ringing"
    BY DEF Answered
  <2> QED
    BY <1>1, <2>1, <2>2 DEF TypeOK
<1>4. CASE \E c \in Calls : Expires(c)
  BY <1>1, <1>4 DEF Expires, registry, TypeOK
<1>5. CASE Keeps \/ \E d \in Conversations : Removes(d)
  BY <1>1, <1>5 DEF Keeps, Removes, registry, TypeOK
<1> QED
  BY <1>1, <1>2, <1>3, <1>4, <1>5 DEF Kinds

\* A watcher that wakes finds its own call in the registry, if it is there, and
\* leaves nobody ringing there.
LEMMA WatchedStays ==
  ASSUME IInv, [Next]_vars, NEW cv \in Conversations, NEW k \in Calls, NEW u \in Users,
         activeCalls[cv] = k, participants'[k][u] = "ringing", Watched(k)
  PROVE  Watched(k)'
<1>1. TypeOK /\ k \in Procs /\ conversation[k] = cv /\ k # None
  BY NoneAssumption DEF IInv, RegistryInv, Procs
<1>2. CASE watcherWake(k)
  <2>1. task' = [task EXCEPT ![k] = [Idle EXCEPT !.pc = "expire", !.conv = cv, !.call = k]]
    BY <1>1, <1>2 DEF watcherWake, NothingToExpire
  <2> QED
    BY <1>1, <2>1 DEF Watched, TypeOK, Idle
<1>3. CASE startCallTimeoutWatcher(k)
  <2>1. task[k].call = k
    BY <1>3 DEF startCallTimeoutWatcher, Watched
  <2>2. participants' = [participants EXCEPT ![k] =
          [v \in Users |-> IF v \in Late(k) THEN "timeout" ELSE participants[k][v]]]
    BY <1>3, <2>1 DEF startCallTimeoutWatcher
  <2> QED
    BY <1>1, <2>2 DEF Late, TypeOK
<1>4. ASSUME NEW v \in Users, Connect(v)
      PROVE  Watched(k)'
  <2>1. task[k].hit = None
    BY <1>1 DEF Watched, IInv, TasksAgree, Agrees
  <2>2. task'[k] = task[k]
    BY <1>1, <1>4, <2>1, NoneAssumption DEF Connect
  <2> QED
    BY <2>2 DEF Watched
<1>5. ~Clear(k)
  BY DEF Watched, Clear, clearCheck, clearWrite, endCall
<1> QED
  BY <1>1, <1>2, <1>3, <1>4, <1>5, OnItsOwn DEF Watched, Ends, Watch

\* Whoever is rung by a registered call has its watcher before them, whatever
\* earlier calls of the conversation, their watchers and their ends have done.
THEOREM RingingHasWatcher == Spec => []RingingWatched
<1>1. Init => RingingWatched
  BY DEF Init, RingingWatched
<1>2. CallInv /\ RingingWatched /\ [Next]_vars => RingingWatched'
  <2> SUFFICES ASSUME CallInv, RingingWatched, [Next]_vars,
                      NEW cv \in Conversations, NEW u \in Users, NEW k,
                      k = activeCalls'[cv], k # None, participants'[k][u] = "ringing"
               PROVE  Watched(k)'
    BY DEF RingingWatched, Watched
  <2>1. IInv /\ IInv' /\ k \in Calls
    BY NextIInv DEF CallInv, IInv, TypeOK
  <2>2. CASE conversation'[k] # conversation[k]
    BY <2>1, <2>2, CreatedWatched DEF Watched
  <2>3. CASE conversation'[k] = conversation[k]
    <3>1. activeCalls[cv] = k /\ participants[k][u] = "ringing"
      BY <2>1, <2>3, RingingBefore
    <3>2. Watched(k)
      BY <3>1 DEF RingingWatched, Watched
    <3> QED
      BY <2>1, <3>1, <3>2, WatchedStays
  <2> QED
    BY <2>2, <2>3
<1> QED
  BY <1>1, <1>2, CallInvariance, PTL DEF Spec

----------------------------------------------------------------------------
(* Decisions to end a call. *)

LEMMA DecisionKept ==
  ASSUME IInv, [Next]_vars, NEW p \in Procs, task[p].then = "endCall", ~endCall(p)
  PROVE  task'[p].then = "endCall" /\ task'[p].call = task[p].call
<1>1. TypeOK /\ task[p] \in Task /\ task[p].pc \in {"clear", "clearAll", "endCall"}
  BY DEF IInv, TypeOK, TasksAgree, Agrees
<1>2. ASSUME NEW t \in Task, t.then = "endCall", t.call = task[p].call,
             task'[p] = t \/ task'[p] = Swept(t)
      PROVE  task'[p].then = "endCall" /\ task'[p].call = task[p].call
  BY <1>2, SweptEnding
<1>3. CASE clearCheck(p)
  <2>1. PICK v \in task[p].todo :
          \/ task' = [task EXCEPT ![p] = [task[p] EXCEPT !.hit = v]]
          \/ task' = [task EXCEPT ![p] = Swept([task[p] EXCEPT !.todo = @ \ {v}])]
    BY <1>3 DEF clearCheck
  <2>2. /\ [task[p] EXCEPT !.hit = v] \in Task
        /\ [task[p] EXCEPT !.todo = @ \ {v}] \in Task
    BY <1>1 DEF Task
  <2>3. CASE task' = [task EXCEPT ![p] = [task[p] EXCEPT !.hit = v]]
    BY <1>1, <1>2, <2>2, <2>3 DEF TypeOK, Task
  <2>4. CASE task' = [task EXCEPT ![p] = Swept([task[p] EXCEPT !.todo = @ \ {v}])]
    BY <1>1, <1>2, <2>2, <2>4 DEF TypeOK, Task
  <2> QED
    BY <2>1, <2>3, <2>4
<1>4. CASE clearWrite(p)
  <2> DEFINE r == [task[p] EXCEPT !.hit = None, !.todo = @ \ {task[p].hit}]
  <2>1. task'[p] = Swept(r)
    BY <1>1, <1>4 DEF clearWrite, TypeOK
  <2>2. r \in Task /\ r.then = "endCall" /\ r.call = task[p].call
    BY <1>1 DEF Task
  <2> HIDE DEF r
  <2> QED
    BY <1>2, <2>1, <2>2
<1>5. ASSUME NEW u \in Users, Connect(u)
      PROVE  task'[p].then = "endCall" /\ task'[p].call = task[p].call
  <2> DEFINE r == [task[p] EXCEPT !.hit = None, !.todo = @ \ {u}]
  <2>1. r \in Task /\ r.then = "endCall" /\ r.call = task[p].call
    BY <1>1 DEF Task
  <2>2. task'[p] = task[p] \/ task'[p] = Swept(r)
    BY <1>5 DEF Connect
  <2> HIDE DEF r
  <2> QED
    BY <1>1, <1>2, <2>1, <2>2
<1>6. ~(p \in Calls /\ Watch(p))
  BY <1>1 DEF Watch, watcherWake, startCallTimeoutWatcher
<1> QED
  BY <1>1, <1>3, <1>4, <1>5, <1>6, OnItsOwn DEF Ends, Clear

\* Whoever has decided to end a call does not forget it, whatever happens to the
\* users it clears on the way: the decision stands until endCall has taken the call
\* out of the registry.
THEOREM DecisionStands ==
  Spec => [][\A k \in Calls : Ending(k) =>
               Ending(k)' \/ \A cv \in Conversations : activeCalls'[cv] # k]_vars
<1> DEFINE Stands == \A k \in Calls : Ending(k) =>
                       Ending(k)' \/ \A cv \in Conversations : activeCalls'[cv] # k
<1>1. IInv /\ [Next]_vars => [Stands]_vars
  <2> SUFFICES ASSUME IInv, [Next]_vars, NEW k \in Calls, NEW p \in Procs,
                      task[p].call = k, task[p].then = "endCall"
               PROVE  Ending(k)' \/ \A cv \in Conversations : activeCalls'[cv] # k
    BY DEF Ending
  <2>1. CASE ~endCall(p)
    BY <2>1, DecisionKept DEF Ending
  <2>2. CASE endCall(p)
    <3>1. activeCalls' = [activeCalls EXCEPT ![conversation[k]] = None]
      BY <2>2 DEF endCall, Unregister
    <3> QED
      BY <3>1, NoneAssumption DEF IInv, TypeOK, RegistryInv, Procs
  <2> QED
    BY <2>1, <2>2
<1>2. QED
  BY <1>1, Invariance, PTL DEF Spec

=============================================================================
