-------------------------- MODULE CallAnswerProofs --------------------------
(***************************************************************************)
(* More proofs about CallHandler, for any number of users, conversations,  *)
(* call objects and workers: what may happen to a participant of a call,    *)
(* who is shown as in a call, and that CallHandler implements CallLifecycle.*)
(*                                                                         *)
(* The argument goes over the kinds of steps: whatever a handler does in    *)
(* between, a step creates a call object, lets one participant respond,     *)
(* times the ringing participants out, removes a call from activeCalls, or  *)
(* leaves the calls alone.  Each property then has five cases, not twenty.  *)
(***************************************************************************)
EXTENDS CallHandlerProofs

\* Nobody takes part in a call object that was not created.
Unborn ==
    \A k \in Calls : conversation[k] = None => \A u \in Users : participants[k][u] = "none"

CallInv == IInv /\ Unborn /\ RingingCallUnanswered

----------------------------------------------------------------------------
(* The kinds of steps. *)

Creates(k) ==
    \E cv \in Conversations, u \in Users, ps \in [Users -> {"none", "ringing", "accepted"}] :
        /\ conversation[k] = None
        /\ \A p \in Procs : task[p].call = k => task[p].pc = "register"
        /\ conversation' = [conversation EXCEPT ![k] = cv]
        /\ caller' = [caller EXCEPT ![k] = u]
        /\ callStatus' = [callStatus EXCEPT ![k] = "ringing"]
        /\ participants' = [participants EXCEPT ![k] = ps]
        /\ \A v \in Users : ps[v] = "accepted" => v = u
        /\ \/ ps[u] = "accepted" /\ activeCalls' = [activeCalls EXCEPT ![cv] = k]
           \/ ps[u] # "accepted" /\ UNCHANGED activeCalls

\* The sender of the event that worker w handles takes status s.
Responds(w, k, u, s) ==
    /\ task[w].call = k /\ task[w].user = u
    /\ task[w].pc \in Answers /\ task'[w].pc # task[w].pc
    /\ MuFree(k)
    /\ participants[k][u] # "none"
    /\ participants' = [participants EXCEPT ![k][u] = s]
    /\ IF s = "accepted"
       THEN /\ participants[k][u] = "ringing"
            /\ callStatus' = [callStatus EXCEPT ![k] = StatusAfterAccept(@)]
       ELSE UNCHANGED callStatus
    /\ UNCHANGED registry

Expires(k) ==
    /\ MuFree(k)
    /\ participants' = [participants EXCEPT ![k] =
         [u \in Users |-> IF participants[k][u] = "ringing" THEN "timeout" ELSE participants[k][u]]]
    /\ UNCHANGED <<registry, callStatus>>

Removes(cv) ==
    /\ activeCalls' = [activeCalls EXCEPT ![cv] = None]
    /\ UNCHANGED <<conversation, caller, callStatus, participants>>

Keeps == UNCHANGED <<registry, callStatus, participants>>

Kinds ==
    \/ \E k \in Calls : Creates(k)
    \/ \E w \in Workers, k \in Calls, u \in Users, s \in Answered : Responds(w, k, u, s)
    \/ \E k \in Calls : Expires(k)
    \/ \E cv \in Conversations : Removes(cv)
    \/ Keeps

LEMMA SweptPc ==
  ASSUME NEW t \in Task, t.pc \in {"clear", "clearAll"}
  PROVE  Swept(t).pc \in {"clear", "clearAll", "endCall", "idle"}
  BY DEF Swept, Idle, Task

LEMMA RegisterKind == IInv /\ (\E w \in Workers : registerCall(w)) => Kinds
<1> SUFFICES ASSUME IInv, NEW w \in Workers, registerCall(w) PROVE Kinds
  OBVIOUS
<1> DEFINE k == task[w].call
           u == task[w].user
           cv == task[w].conv
<1>1. /\ w \in Procs /\ task[w].pc = "register"
      /\ u \in Users /\ cv \in Conversations /\ k \in Calls
      /\ conversation[k] = None
      /\ \A q \in Procs \ {w} : task[q].call # k
  BY DEF registerCall, IInv, TypeOK, TasksAgree, Agrees, Reserved, ForUser, Procs
<1>2. PICK missing \in SUBSET (task[w].todo \cap Flaky) :
        IF u \notin missing
        THEN /\ activeCalls' = [activeCalls EXCEPT ![cv] = k]
             /\ conversation' = [conversation EXCEPT ![k] = cv]
             /\ caller' = [caller EXCEPT ![k] = u]
             /\ callStatus' = [callStatus EXCEPT ![k] = "ringing"]
             /\ participants' = [participants EXCEPT ![k] =
                  [NewParticipants(task[w].todo, missing) EXCEPT ![u] = "accepted"]]
        ELSE UNCHANGED <<registry, callStatus, participants>>
  BY DEF registerCall
<1> DEFINE ps == [NewParticipants(task[w].todo, missing) EXCEPT ![u] = "accepted"]
<1>3. /\ ps \in [Users -> {"none", "ringing", "accepted"}]
      /\ ps[u] = "accepted" /\ \A v \in Users : ps[v] = "accepted" => v = u
  BY <1>1 DEF NewParticipants
<1>4. CASE u \in missing
  BY <1>2, <1>4 DEF Kinds, Keeps
<1>5. CASE u \notin missing
  <2>1. Creates(k)
    <3>1. /\ activeCalls' = [activeCalls EXCEPT ![cv] = k]
          /\ conversation' = [conversation EXCEPT ![k] = cv]
          /\ caller' = [caller EXCEPT ![k] = u]
          /\ callStatus' = [callStatus EXCEPT ![k] = "ringing"]
          /\ participants' = [participants EXCEPT ![k] = ps]
          /\ \A p \in Procs : task[p].call = k => task[p].pc = "register"
      BY <1>1, <1>2, <1>5
    <3> HIDE DEF ps, k, u, cv
    <3> QED
      BY <1>1, <1>3, <3>1 DEF Creates
  <2> QED
    BY <1>1, <2>1 DEF Kinds
<1> QED
  BY <1>4, <1>5

LEMMA JoinKind ==
  ASSUME NEW w \in Workers, NEW u \in Users, NEW cv \in Conversations, NEW k \in Calls,
         NEW S \in JoinCallees, raiseJoiningRequest(w, u, cv, k, S)
  PROVE  Kinds
<1> PICK missing \in SUBSET ((S \cup {u}) \cap Flaky) :
      participants' = [participants EXCEPT ![k] = NewParticipants(S \cup {u}, missing)]
  BY DEF raiseJoiningRequest
<1> DEFINE ps == NewParticipants(S \cup {u}, missing)
<1>1. /\ ps \in [Users -> {"none", "ringing", "accepted"}]
      /\ \A v \in Users : ps[v] # "accepted"
  BY DEF NewParticipants
<1>2. participants' = [participants EXCEPT ![k] = ps]
  OBVIOUS
<1> HIDE DEF ps
<1>3. /\ conversation[k] = None /\ \A p \in Procs : task[p].call # k
      /\ conversation' = [conversation EXCEPT ![k] = cv]
      /\ caller' = [caller EXCEPT ![k] = u]
      /\ callStatus' = [callStatus EXCEPT ![k] = "ringing"]
      /\ UNCHANGED activeCalls
  BY DEF raiseJoiningRequest, Fresh
<1>4. Creates(k)
  BY <1>1, <1>2, <1>3 DEF Creates
<1> QED
  BY <1>4 DEF Kinds

LEMMA AcceptKind == IInv /\ (\E w \in Workers : handleCallAccept(w)) => Kinds
<1> SUFFICES ASSUME IInv, NEW w \in Workers, handleCallAccept(w) PROVE Kinds
  OBVIOUS
<1> DEFINE k == task[w].call
           u == task[w].user
<1>1. w \in Procs /\ task[w].pc = "accept" /\ "accept" \in Answers /\ "accepted" \in Answered
  BY DEF Procs, handleCallAccept, Sender, Answers, Answered
<1>2. task[w] \in Task /\ k \in Calls /\ u \in Users
  BY <1>1, OnCallFacts
<1>3. CASE ~CanAccept(k, u)
  BY <1>3 DEF handleCallAccept, Kinds, Keeps
<1>4. CASE CanAccept(k, u)
  <2>1. task'[w].pc = "acceptMark"
    <3>1. task' = [task EXCEPT ![w].pc = "acceptMark"]
      BY <1>4 DEF handleCallAccept, Goto
    <3>2. task \in [Procs -> Task]
      BY DEF IInv, TypeOK
    <3> QED
      BY <1>1, <1>2, <3>1, <3>2 DEF Task
  <2>2. Responds(w, k, u, "accepted")
    BY <1>1, <1>4, <2>1 DEF handleCallAccept, Sender, CanAccept, Responds
  <2> HIDE DEF k, u
  <2> QED
    BY <1>1, <1>2, <2>2 DEF Kinds
<1> QED
  BY <1>3, <1>4

LEMMA DepartKind ==
  ASSUME IInv, NEW w \in Workers, NEW label \in Answers, NEW s \in Answered,
         s # "accepted", Depart(w, label, s)
  PROVE  Kinds
<1> DEFINE k == task[w].call
           u == task[w].user
           next == IF EndsAfter(label, Counted(k, u, s)) THEN "endCall" ELSE "idle"
           t == [task[w] EXCEPT !.pc = "clear", !.user = None, !.todo = {u}, !.then = next]
<1>1. w \in Procs /\ task[w].pc \in Answers
  BY DEF Procs, Depart, Sender
<1>2. task[w] \in Task /\ k \in Calls /\ u \in Users
  BY <1>1, OnCallFacts
<1>3. task' = [task EXCEPT ![w] = Swept(t)]
  BY <1>1 DEF Depart, ClearThen, IInv, TypeOK
<1>4. t \in Task /\ t.pc = "clear"
  BY <1>2 DEF Task, Labels
<1> HIDE DEF t
<1>5. task'[w].pc \notin Answers
  BY <1>1, <1>3, <1>4, SweptPc DEF IInv, TypeOK, Answers
<1>6. Responds(w, k, u, s)
  BY <1>1, <1>5 DEF Depart, Sender, Responds
<1> HIDE DEF k, u
<1> QED
  BY <1>2, <1>6 DEF Kinds

LEMMA DismissKind == IInv /\ (\E w \in Workers : handleCallDismiss(w)) => Kinds
<1> SUFFICES ASSUME IInv, NEW w \in Workers, handleCallDismiss(w) PROVE Kinds
  OBVIOUS
<1> DEFINE k == task[w].call
           u == task[w].user
<1>1. w \in Procs /\ task[w].pc = "dismiss" /\ "dismiss" \in Answers /\ "dismissed" \in Answered
  BY DEF Procs, handleCallDismiss, Sender, Answers, Answered
<1>2. task[w] \in Task /\ k \in Calls /\ u \in Users
  BY <1>1, OnCallFacts
<1>3. task'[w].pc = "idle"
  BY <1>1 DEF handleCallDismiss, Finish, Idle, IInv, TypeOK
<1>4. Responds(w, k, u, "dismissed")
  BY <1>1, <1>3 DEF handleCallDismiss, Sender, Responds
<1> HIDE DEF k, u
<1> QED
  BY <1>1, <1>2, <1>4 DEF Kinds

LEMMA ExpireKind == IInv /\ (\E k \in Calls : startCallTimeoutWatcher(k)) => Kinds
<1> SUFFICES ASSUME IInv, NEW k \in Calls, startCallTimeoutWatcher(k) PROVE Kinds
  OBVIOUS
<1> DEFINE c == task[k].call
<1>1. c \in Calls
  BY DEF startCallTimeoutWatcher, IInv, TasksAgree, Agrees, OnCall, Procs
<1>2. \A u \in Users : u \in Late(c) <=> participants[c][u] = "ringing"
  BY DEF Late
<1>3. [u \in Users |-> IF u \in Late(c) THEN "timeout" ELSE participants[c][u]]
      = [u \in Users |-> IF participants[c][u] = "ringing" THEN "timeout" ELSE participants[c][u]]
  BY <1>2
<1>4. Expires(c)
  BY <1>3 DEF startCallTimeoutWatcher, Expires
<1> HIDE DEF c
<1> QED
  BY <1>1, <1>4 DEF Kinds

LEMMA EndCallKind == IInv /\ (\E p \in Procs : endCall(p)) => Kinds
<1> SUFFICES ASSUME IInv, NEW p \in Procs, endCall(p) PROVE Kinds
  OBVIOUS
<1>1. conversation[task[p].call] \in Conversations
  BY DEF endCall, IInv, TypeOK, TasksAgree, Agrees, OnCall
<1> QED
  BY <1>1 DEF endCall, Unregister, Kinds, Removes

\* Every step is of one of the kinds.
LEMMA StepKinds == IInv /\ [Next]_vars => Kinds
<1> SUFFICES ASSUME IInv, [Next]_vars PROVE Kinds
  OBVIOUS
<1>1. ASSUME NEW w \in Workers, NEW u \in Users, NEW cv \in Conversations, Receive(w, u, cv)
      PROVE  Kinds
  <2>1. CASE \E k \in Calls, S \in JoinCallees : raiseJoiningRequest(w, u, cv, k, S)
    BY <2>1, JoinKind
  <2>2. CASE ~\E k \in Calls, S \in JoinCallees : raiseJoiningRequest(w, u, cv, k, S)
    BY <1>1, <2>2 DEF Receive, handleCallInitiate, getActiveCall, CallNotFound,
                      handleCallCancel, Kinds, Keeps
  <2> QED
    BY <2>1, <2>2
<1>2. ASSUME NEW w \in Workers, Handle(w)
      PROVE  Kinds
  <2>1. CASE registerCall(w) \/ handleCallAccept(w) \/ handleCallDismiss(w)
    BY <2>1, RegisterKind, AcceptKind, DismissKind
  <2>2. CASE handleCallReject(w) \/ handleCallTimeout(w) \/ handleCallEnd(w)
    <3>1. /\ {"reject", "timeout", "leave"} \subseteq Answers
          /\ {"rejected", "timeout", "left"} \subseteq Answered \ {"accepted"}
      BY DEF Answers, Answered
    <3> QED
      BY <2>2, <3>1, DepartKind DEF handleCallReject, handleCallTimeout, handleCallEnd
  <2>3. CASE markCaller(w) \/ markCallees(w) \/ acceptMark(w) \/ RefuseStranger(w) \/ ClearStranger(w)
    BY <2>3 DEF markCaller, markCallees, acceptMark, RefuseStranger, ClearStranger, Stranger,
                Kinds, Keeps
  <2> QED
    BY <1>2, <2>1, <2>2, <2>3 DEF Handle
<1>3. ASSUME NEW k \in Calls, Watch(k)
      PROVE  Kinds
  BY <1>3, ExpireKind DEF Watch, watcherWake, Kinds, Keeps
<1>4. ASSUME NEW p \in Procs, Clear(p)
      PROVE  Kinds
  BY <1>4, EndCallKind DEF Clear, clearCheck, clearWrite, Kinds, Keeps
<1>5. CASE \E u \in Users : Connect(u) \/ \E s \in Settable : UpdateStatus(u, s)
  BY <1>5 DEF Connect, UpdateStatus, Kinds, Keeps
<1>6. CASE UNCHANGED vars
  BY <1>6 DEF vars, registry, Kinds, Keeps
<1> QED
  BY <1>1, <1>2, <1>3, <1>4, <1>5, <1>6 DEF Next

----------------------------------------------------------------------------
(* Calls nobody answered. *)

LEMMA NextCallInv == CallInv /\ [Next]_vars => CallInv'
<1> SUFFICES ASSUME CallInv, [Next]_vars PROVE CallInv'
  OBVIOUS
<1>1. IInv /\ IInv' /\ Kinds /\ TypeOK
  BY NextIInv, StepKinds DEF CallInv, IInv
<1>2. CASE \E k \in Calls : Creates(k)
  <2> PICK k \in Calls : Creates(k)
    BY <1>2
  <2> PICK cv \in Conversations, u \in Users, ps \in [Users -> {"none", "ringing", "accepted"}] :
        /\ conversation' = [conversation EXCEPT ![k] = cv]
        /\ caller' = [caller EXCEPT ![k] = u]
        /\ callStatus' = [callStatus EXCEPT ![k] = "ringing"]
        /\ participants' = [participants EXCEPT ![k] = ps]
        /\ \A v \in Users : ps[v] = "accepted" => v = u
    BY DEF Creates
  <2>1. Unborn'
    BY <1>1, NoneAssumption DEF CallInv, Unborn, TypeOK
  <2>2. RingingCallUnanswered'
    BY <1>1 DEF CallInv, RingingCallUnanswered, TypeOK
  <2> QED
    BY <1>1, <2>1, <2>2 DEF CallInv
<1>3. ASSUME NEW w \in Workers, NEW k \in Calls, NEW u \in Users, NEW s \in Answered,
             Responds(w, k, u, s)
      PROVE  Unborn' /\ RingingCallUnanswered'
  <2>1. Unborn'
    BY <1>1, <1>3 DEF CallInv, Responds, registry, Unborn, TypeOK
  <2>2. CASE s # "accepted"
    <3>1. /\ participants' = [participants EXCEPT ![k][u] = s]
          /\ UNCHANGED <<caller, callStatus>>
      BY <1>3, <2>2 DEF Responds, registry
    <3>2. \A c \in Calls, v \in Users : participants'[c][v] \in {participants[c][v], s}
      BY <1>1, <3>1 DEF TypeOK
    <3> QED
      BY <2>1, <2>2, <3>1, <3>2 DEF CallInv, RingingCallUnanswered
  <2>3. CASE s = "accepted"
    <3>1. callStatus' = [callStatus EXCEPT ![k] = StatusAfterAccept(@)]
      BY <1>3, <2>3 DEF Responds
    <3>2. participants' = [participants EXCEPT ![k][u] = s] /\ UNCHANGED caller
      BY <1>3 DEF Responds, registry
    <3>3. callStatus'[k] # "ringing"
      BY <1>1, <3>1 DEF TypeOK, StatusAfterAccept
    <3>4. \A c \in Calls \ {k} : participants'[c] = participants[c] /\ callStatus'[c] = callStatus[c]
      BY <1>1, <3>1, <3>2 DEF TypeOK
    <3> QED
      BY <2>1, <3>2, <3>3, <3>4 DEF CallInv, RingingCallUnanswered
  <2> QED
    BY <2>1, <2>2, <2>3
<1>4. CASE \E k \in Calls : Expires(k)
  BY <1>1, <1>4 DEF CallInv, Expires, registry, Unborn, RingingCallUnanswered, TypeOK
<1>5. CASE Keeps \/ \E cv \in Conversations : Removes(cv)
  BY <1>1, <1>5 DEF CallInv, Keeps, Removes, registry, Unborn, RingingCallUnanswered
<1> QED
  BY <1>1, <1>2, <1>3, <1>4, <1>5 DEF Kinds, CallInv

THEOREM CallInvariance == Spec => []CallInv
<1>1. Init => CallInv
  BY InitIInv DEF CallInv, Init, Unborn, RingingCallUnanswered
<1> QED
  BY <1>1, NextCallInv, PTL DEF Spec

\* A call whose status is still Ringing was answered by nobody but its caller.
THEOREM RingingUnanswered == Spec => []RingingCallUnanswered
<1>1. CallInv => RingingCallUnanswered
  BY DEF CallInv
<1> QED
  BY <1>1, CallInvariance, PTL

----------------------------------------------------------------------------
(* Steps that may not happen. *)

\* An accepted status is overwritten only by an event of that participant on that
\* call, whatever watchers and other participants do, to this call or others.
THEOREM AnsweredKept == Spec => AnsweredStays
<1> DEFINE Stays == \A k \in Calls, u \in Users :
         participants[k][u] = "accepted" /\ participants'[k][u] # "accepted" =>
            \E w \in Workers : /\ task[w].user = u /\ task[w].call = k
                              /\ task[w].pc \in Answers
                              /\ task'[w].pc # task[w].pc
<1>1. CallInv /\ [Next]_vars => [Stays]_vars
  <2> SUFFICES ASSUME CallInv, Next, NEW k \in Calls, NEW u \in Users,
                      participants[k][u] = "accepted", participants'[k][u] # "accepted"
               PROVE  \E w \in Workers : /\ task[w].user = u /\ task[w].call = k
                                        /\ task[w].pc \in Answers
                                        /\ task'[w].pc # task[w].pc
    OBVIOUS
  <2>1. Kinds /\ TypeOK
    BY StepKinds DEF CallInv, IInv
  <2>2. ASSUME NEW c \in Calls, Creates(c) PROVE FALSE
    <3>1. k # c
      BY <2>2 DEF CallInv, Unborn, Creates
    <3> QED
      BY <2>1, <2>2, <3>1 DEF Creates, TypeOK
  <2>3. ASSUME NEW c \in Calls, Expires(c) PROVE FALSE
    BY <2>1, <2>3 DEF Expires, TypeOK
  <2>4. ASSUME NEW w \in Workers, NEW c \in Calls, NEW v \in Users, NEW s \in Answered,
               Responds(w, c, v, s)
        PROVE  c = k /\ v = u
    BY <2>1, <2>4 DEF Responds, TypeOK
  <2>5. \E w \in Workers, s \in Answered : Responds(w, k, u, s)
    BY <2>1, <2>2, <2>3, <2>4 DEF Kinds, Removes, Keeps
  <2> QED
    BY <2>5 DEF Responds
<1> QED
  BY <1>1, CallInvariance, PTL DEF Spec, AnsweredStays

----------------------------------------------------------------------------
(* The refinement. *)

Phases == [k \in Calls |-> [u \in Users |-> PhaseOf(participants[k][u])]]

LEMMA PhaseValues ==
  /\ PhaseOf("none") = "none" /\ PhaseOf("ringing") = "invited" /\ PhaseOf("accepted") = "in"
  /\ \A s \in ParticipantStatus :
        /\ PhaseOf(s) = "none" <=> s = "none"
        /\ s \in Answered \ {"accepted"} => PhaseOf(s) = "out"
  BY DEF PhaseOf, ParticipantStatus, Answered

\* CallLifecycle's steps, with the phases spelt out; the placing of a call follows.
LEMMA LifecycleStep ==
  ASSUME \/ \E k \in Calls, S \in SUBSET Users :
              /\ \A v \in Users : Phases[k][v] = "none"
              /\ Phases' = [Phases EXCEPT ![k] =
                   [v \in Users |-> IF v \in S THEN "invited" ELSE "none"]]
              /\ UNCHANGED activeCalls
         \/ \E k \in Calls, S \in SUBSET Users :
              /\ UNCHANGED activeCalls
              /\ \A u \in S : Phases[k][u] # "none"
              /\ Phases' = [Phases EXCEPT ![k] =
                   [u \in Users |-> IF u \in S THEN "out" ELSE Phases[k][u]]]
         \/ \E k \in Calls, u \in Users :
              /\ Phases[k][u] = "invited"
              /\ Phases' = [Phases EXCEPT ![k][u] = "in"]
              /\ UNCHANGED activeCalls
         \/ \E cv \in Conversations :
              /\ activeCalls' = [activeCalls EXCEPT ![cv] = None]
              /\ UNCHANGED Phases
         \/ UNCHANGED <<activeCalls, Phases>>
  PROVE  [Lifecycle!Next]_(Lifecycle!vars)
  BY DEF Phases, Lifecycle!Next, Lifecycle!vars, Lifecycle!Request,
         Lifecycle!Withdraw, Lifecycle!Answer, Lifecycle!Remove, Lifecycle!Unused

\* The phases of a call that u placed and the users in S are invited to.
Placed(u, S) == [v \in Users |-> IF v = u THEN "in" ELSE IF v \in S THEN "invited" ELSE "none"]

LEMMA PlaceStep ==
  ASSUME NEW k \in Calls, NEW cv \in Conversations, NEW u \in Users, NEW S \in SUBSET Users,
         \A v \in Users : Phases[k][v] = "none",
         activeCalls' = [activeCalls EXCEPT ![cv] = k],
         Phases' = [Phases EXCEPT ![k] = Placed(u, S)]
  PROVE  [Lifecycle!Next]_(Lifecycle!vars)
<1>1. Lifecycle!Place(k, cv, u, S)
  BY DEF Phases, Placed, Lifecycle!Place, Lifecycle!Unused
<1>2. Lifecycle!Next
  BY <1>1 DEF Lifecycle!Next
<1> QED
  BY <1>2

LEMMA PlaceRefines ==
  ASSUME CallInv, NEW k \in Calls, Creates(k)
  PROVE  [Lifecycle!Next]_(Lifecycle!vars)
<1> PICK cv \in Conversations, u \in Users, ps \in [Users -> {"none", "ringing", "accepted"}] :
      /\ conversation[k] = None
      /\ participants' = [participants EXCEPT ![k] = ps]
      /\ \A v \in Users : ps[v] = "accepted" => v = u
      /\ \/ ps[u] = "accepted" /\ activeCalls' = [activeCalls EXCEPT ![cv] = k]
         \/ ps[u] # "accepted" /\ UNCHANGED activeCalls
  BY DEF Creates
<1> DEFINE S == {v \in Users : ps[v] = "ringing"}
           new == [v \in Users |-> PhaseOf(ps[v])]
<1>1. TypeOK /\ \A v \in Users : Phases[k][v] = "none"
  BY PhaseValues DEF CallInv, IInv, Unborn, Phases
<1>2. Phases' = [Phases EXCEPT ![k] = new]
  BY <1>1 DEF Phases, TypeOK
<1>3. CASE ps[u] = "accepted"
  <2>1. new = Placed(u, S)
    BY <1>3, PhaseValues DEF Placed
  <2> HIDE DEF new, S
  <2>2. S \in SUBSET Users
    BY DEF S
  <2>3. activeCalls' = [activeCalls EXCEPT ![cv] = k]
    BY <1>3
  <2>4. Phases' = [Phases EXCEPT ![k] = Placed(u, S)]
    BY <1>2, <2>1
  <2> QED
    BY <1>1, <2>2, <2>3, <2>4, PlaceStep
<1>4. CASE ps[u] # "accepted"
  <2>1. new = [v \in Users |-> IF v \in S THEN "invited" ELSE "none"]
    BY <1>4, PhaseValues
  <2> HIDE DEF new, S
  <2>2. S \in SUBSET Users
    BY DEF S
  <2> QED
    BY <1>1, <1>2, <1>4, <2>1, <2>2, LifecycleStep
<1> QED
  BY <1>3, <1>4

LEMMA AnswerRefines ==
  ASSUME TypeOK, NEW w \in Workers, NEW k \in Calls, NEW u \in Users, NEW s \in Answered,
         Responds(w, k, u, s)
  PROVE  [Lifecycle!Next]_(Lifecycle!vars)
<1>1. /\ participants' = [participants EXCEPT ![k][u] = s]
      /\ UNCHANGED activeCalls
      /\ participants[k][u] # "none" /\ participants[k][u] \in ParticipantStatus
  BY DEF Responds, registry, TypeOK
<1>2. Phases' = [Phases EXCEPT ![k][u] = PhaseOf(s)]
  BY <1>1 DEF Phases, TypeOK
<1>3. Phases[k][u] = PhaseOf(participants[k][u])
  BY DEF Phases
<1>4. CASE s = "accepted"
  <2>1. participants[k][u] = "ringing"
    BY <1>4 DEF Responds
  <2>2. Phases[k][u] = "invited" /\ Phases' = [Phases EXCEPT ![k][u] = "in"]
    BY <1>2, <1>3, <1>4, <2>1, PhaseValues
  <2> QED
    BY <1>1, <2>2, LifecycleStep
<1>5. CASE s # "accepted"
  <2>1. PhaseOf(s) = "out" /\ Phases[k][u] # "none"
    BY <1>1, <1>3, <1>5, PhaseValues DEF ParticipantStatus
  <2>2. Phases' = [Phases EXCEPT ![k] = [v \in Users |-> IF v \in {u} THEN "out" ELSE Phases[k][v]]]
    BY <1>2, <2>1 DEF Phases
  <2>3. {u} \in SUBSET Users /\ \A v \in {u} : Phases[k][v] # "none"
    BY <2>1
  <2> QED
    BY <1>1, <2>2, <2>3, LifecycleStep
<1> QED
  BY <1>4, <1>5

LEMMA ExpiryRefines ==
  ASSUME TypeOK, NEW k \in Calls, Expires(k)
  PROVE  [Lifecycle!Next]_(Lifecycle!vars)
<1> DEFINE S == {u \in Users : participants[k][u] = "ringing"}
           ps == [u \in Users |-> IF participants[k][u] = "ringing" THEN "timeout"
                                                                     ELSE participants[k][u]]
<1>1. participants' = [participants EXCEPT ![k] = ps] /\ UNCHANGED activeCalls
  BY DEF Expires, registry
<1>2. Phases' = [Phases EXCEPT ![k] = [u \in Users |-> PhaseOf(ps[u])]]
  BY <1>1 DEF Phases, TypeOK
<1>3. [u \in Users |-> PhaseOf(ps[u])]
      = [u \in Users |-> IF u \in S THEN "out" ELSE Phases[k][u]]
  <2>1. PhaseOf("timeout") = "out"
    BY PhaseValues DEF ParticipantStatus, Answered
  <2> QED
    BY <2>1 DEF Phases
<1>4. S \in SUBSET Users /\ \A u \in S : Phases[k][u] # "none"
  BY PhaseValues DEF Phases
<1> HIDE DEF S, ps
<1> QED
  BY <1>1, <1>2, <1>3, <1>4, LifecycleStep

\* The handlers and watchers implement the life of a call.
THEOREM Refinement == Spec => ImplementsLifecycle
<1>1. Init => Lifecycle!Init
  BY PhaseValues DEF Init, Lifecycle!Init
<1>2. CallInv /\ [Next]_vars => [Lifecycle!Next]_(Lifecycle!vars)
  <2> SUFFICES ASSUME CallInv, [Next]_vars PROVE [Lifecycle!Next]_(Lifecycle!vars)
    OBVIOUS
  <2>1. Kinds /\ TypeOK
    BY StepKinds DEF CallInv, IInv
  <2>2. CASE Keeps \/ \E cv \in Conversations : Removes(cv)
    BY <2>2, LifecycleStep DEF Keeps, Removes, registry, Phases
  <2> QED
    BY <2>1, <2>2, PlaceRefines, AnswerRefines, ExpiryRefines DEF Kinds
<1> QED
  BY <1>1, <1>2, CallInvariance, PTL DEF Spec, ImplementsLifecycle, Lifecycle!Spec

----------------------------------------------------------------------------
(* Who is shown as in a call. *)

\* User u placed a call in cv, or answered one there.
Asked(u, cv) ==
    \E k \in Calls : /\ conversation[k] = cv
                     /\ caller[k] = u \/ participants[k][u] \in Answered

\* The status in_call is deserved, and so is the one a worker is about to set;
\* a handler works on a call of the conversation its event is about.
Deserved ==
    \A u \in Users : status[u] = "in_call" => inConv[u] \in Conversations /\ Asked(u, inConv[u])

Fair(t) ==
    /\ t.pc \in {"markCaller", "acceptMark"} => t.conv \in Conversations /\ Asked(t.user, t.conv)
    /\ t.pc \in Answers => t.call \in Calls /\ conversation[t.call] = t.conv

TasksFair == \A p \in Procs : Fair(task[p])

ShownInv == CallInv /\ Deserved /\ TasksFair

\* What was asked for stays so.
LEMMA AskedStays ==
  ASSUME CallInv, Kinds, NEW u, u \in Users, NEW cv \in Conversations, Asked(u, cv)
  PROVE  Asked(u, cv)'
<1> PICK c \in Calls : /\ conversation[c] = cv
                       /\ caller[c] = u \/ participants[c][u] \in Answered
  BY DEF Asked
<1>1. TypeOK /\ cv # None /\ "accepted" \in Answered /\ "timeout" \in Answered
  BY NoneAssumption DEF CallInv, IInv, Answered
<1>2. CASE \E k \in Calls : Creates(k)
  <2> PICK k \in Calls : Creates(k)
    BY <1>2
  <2>1. k # c
    BY <1>1 DEF Creates
  <2> QED
    BY <1>1, <2>1 DEF Creates, Asked, TypeOK
<1>3. ASSUME NEW w \in Workers, NEW k \in Calls, NEW v \in Users, NEW s \in Answered,
             Responds(w, k, v, s)
      PROVE  Asked(u, cv)'
  <2>1. /\ participants' = [participants EXCEPT ![k][v] = s]
        /\ UNCHANGED <<conversation, caller>>
    BY <1>3 DEF Responds, registry
  <2>2. participants'[c][u] \in {participants[c][u], s}
    BY <1>1, <2>1 DEF TypeOK
  <2> QED
    BY <2>1, <2>2 DEF Asked
<1>4. CASE \E k \in Calls : Expires(k)
  BY <1>1, <1>4 DEF Expires, registry, Asked, TypeOK
<1>5. CASE Keeps \/ \E d \in Conversations : Removes(d)
  BY <1>5 DEF Keeps, Removes, registry, Asked
<1> QED
  BY <1>2, <1>3, <1>4, <1>5 DEF Kinds

LEMMA ConversationStays ==
  ASSUME CallInv, Kinds, NEW k \in Calls, conversation[k] # None
  PROVE  conversation'[k] = conversation[k]
  BY DEF CallInv, IInv, TypeOK, Kinds, Creates, Responds, Expires, Removes, Keeps, registry

\* The record of a goroutine stays fair as long as it is the same.
LEMMA FairStays ==
  ASSUME CallInv, Kinds, NEW p \in Procs, Fair(task[p]), task'[p] = task[p]
  PROVE  Fair(task[p])'
<1>1. Agrees(task[p])
  BY DEF CallInv, IInv, TasksAgree
<1>2. CASE task[p].pc \in {"markCaller", "acceptMark"}
  <2>1. task[p].user \in Users
    BY <1>1, <1>2 DEF Agrees, ForUser
  <2> QED
    BY <1>2, <2>1, AskedStays DEF Fair, Answers
<1>3. CASE task[p].pc \in Answers
  <2>1. task[p].call \in Calls /\ conversation[task[p].call] # None
    BY <1>1, <1>3 DEF Agrees, OnCall
  <2> QED
    BY <1>3, <2>1, ConversationStays DEF Fair, Answers
<1>4. CASE task[p].pc \notin Answers \cup {"markCaller", "acceptMark"}
  BY <1>4 DEF Fair
<1> QED
  BY <1>2, <1>3, <1>4

\* A goroutine that is neither marking itself nor answering is fair.
Elsewhere == {"idle", "register", "markCallees", "clear", "clearAll", "endCall", "asleep", "expire"}

LEMMA ElsewhereFair == ASSUME NEW p \in Procs, task'[p].pc \in Elsewhere PROVE Fair(task[p])'
  BY DEF Fair, Elsewhere, Answers

LEMMA FairKept ==
  ASSUME CallInv, Kinds, TasksFair,
         \A p \in Procs : task'[p] = task[p] \/ task'[p].pc \in Elsewhere \/ Fair(task[p])'
  PROVE  TasksFair'
<1> SUFFICES ASSUME NEW p \in Procs PROVE Fair(task[p])'
  BY DEF TasksFair
<1>1. Fair(task[p])
  BY DEF TasksFair
<1> QED
  BY <1>1, FairStays, ElsewhereFair

LEMMA DeservedKept ==
  ASSUME CallInv, Kinds, Deserved,
         \A u \in Users : status'[u] = "in_call" =>
            \/ status[u] = "in_call" /\ inConv'[u] = inConv[u]
            \/ \E cv \in Conversations : inConv'[u] = cv /\ (Asked(u, cv) \/ Asked(u, cv)')
  PROVE  Deserved'
<1> SUFFICES ASSUME NEW u \in Users, status'[u] = "in_call"
             PROVE  inConv'[u] \in Conversations /\ Asked(u, inConv[u])'
  BY DEF Deserved
<1>1. \E cv \in Conversations : inConv'[u] = cv /\ (Asked(u, cv) \/ Asked(u, cv)')
  BY DEF Deserved
<1> PICK cv \in Conversations : inConv'[u] = cv /\ (Asked(u, cv) \/ Asked(u, cv)')
  BY <1>1
<1>2. Asked(u, cv)'
  BY AskedStays
<1> QED
  BY <1>2 DEF Asked

\* Goroutine p goes on with record r, which shows nobody as in a call.
LEMMA QuietStep ==
  ASSUME ShownInv, Kinds, NEW p \in Procs, NEW r, task' = [task EXCEPT ![p] = r],
         r.pc \in Elsewhere, UNCHANGED <<status, inConv>>
  PROVE  Deserved' /\ TasksFair'
<1>1. Deserved'
  BY DeservedKept DEF ShownInv
<1>2. \A q \in Procs : task'[q] = task[q] \/ task'[q].pc \in Elsewhere
  BY DEF ShownInv, CallInv, IInv, TypeOK
<1> QED
  BY <1>1, <1>2, FairKept DEF ShownInv

LEMMA ClearThenQuiet ==
  ASSUME ShownInv, Kinds, NEW p \in Procs, NEW S \in SUBSET Users,
         NEW next \in {"idle", "endCall", "clearAll"},
         ClearThen(p, S, next), UNCHANGED <<status, inConv>>
  PROVE  Deserved' /\ TasksFair'
<1> DEFINE t == [task[p] EXCEPT !.pc = "clear", !.user = None, !.todo = S, !.then = next]
<1>1. task[p] \in Task
  BY DEF ShownInv, CallInv, IInv, TypeOK
<1>2. t \in Task /\ t.pc = "clear" /\ task' = [task EXCEPT ![p] = Swept(t)]
  BY <1>1 DEF ClearThen, Task, Labels, ShownInv, CallInv, IInv, TypeOK
<1> HIDE DEF t
<1>3. Swept(t).pc \in Elsewhere
  BY <1>2, SweptPc DEF Elsewhere
<1> QED
  BY <1>2, <1>3, QuietStep

\* A status that is set for a call, or reset.
LEMMA SetStatus ==
  ASSUME ShownInv, Kinds, NEW u \in Users, NEW s, NEW cv, SetCallStatus(u, s, cv),
         s = "in_call" => cv \in Conversations /\ (Asked(u, cv) \/ Asked(u, cv)')
  PROVE  Deserved'
<1>1. \A v \in Users : status'[v] = "in_call" =>
         \/ status[v] = "in_call" /\ inConv'[v] = inConv[v]
         \/ v = u /\ s = "in_call" /\ inConv'[v] = cv
  BY DEF SetCallStatus, clients, ShownInv, CallInv, IInv, TypeOK
<1> QED
  BY <1>1, DeservedKept DEF ShownInv

LEMMA MarkingElsewhere ==
  ASSUME NEW u, NEW cv, NEW k, NEW S PROVE Marking(u, cv, k, S).pc \in Elsewhere
  BY DEF Marking, Elsewhere, Idle

LEMMA ReceiveShown ==
  ASSUME ShownInv, Kinds, NEW w \in Workers, NEW u \in Users, NEW cv \in Conversations,
         Receive(w, u, cv)
  PROVE  Deserved' /\ TasksFair'
<1>1. w \in Procs /\ task \in [Procs -> Task] /\ TypeOK
  BY DEF Procs, ShownInv, CallInv, IInv, TypeOK
<1>2. ASSUME NEW k \in Calls, handleCallInitiate(w, u, cv, k)
      PROVE  Deserved' /\ TasksFair'
  <2> DEFINE t == [Idle EXCEPT !.pc = "register", !.user = u, !.conv = cv, !.call = k,
                               !.todo = {v \in Members[cv] : ~Busy(v)}]
  <2>1. task' = [task EXCEPT ![w] = t] /\ t.pc \in Elsewhere
    BY <1>2 DEF handleCallInitiate, Idle, Elsewhere
  <2> HIDE DEF t
  <2> QED
    BY <1>1, <1>2, <2>1, QuietStep DEF handleCallInitiate, clients
<1>3. ASSUME NEW k \in Calls, NEW S \in JoinCallees, raiseJoiningRequest(w, u, cv, k, S)
      PROVE  Deserved' /\ TasksFair'
  <2>1. /\ conversation' = [conversation EXCEPT ![k] = cv]
        /\ caller' = [caller EXCEPT ![k] = u]
        /\ setUserBusy(u, cv)
        /\ task' = [task EXCEPT ![w] = Marking(u, cv, k, S \ {u}), ![k] = [Idle EXCEPT !.pc = "asleep"]]
    BY <1>3 DEF raiseJoiningRequest
  <2>2. Asked(u, cv)'
    BY <1>1, <2>1 DEF Asked, TypeOK
  <2>3. Deserved'
    BY <2>1, <2>2, SetStatus DEF setUserBusy
  <2>4. [Idle EXCEPT !.pc = "asleep"].pc \in Elsewhere
    BY DEF Idle, Elsewhere
  <2>5. \A q \in Procs : task'[q] = task[q] \/ task'[q].pc \in Elsewhere
    <3> DEFINE a == [Idle EXCEPT !.pc = "asleep"]
               m == Marking(u, cv, k, S \ {u})
    <3>1. a.pc \in Elsewhere /\ m.pc \in Elsewhere
      BY <2>4, MarkingElsewhere
    <3>2. task' = [task EXCEPT ![w] = m, ![k] = a]
      BY <2>1
    <3> HIDE DEF a, m
    <3> QED
      BY <1>1, <3>1, <3>2
  <2> QED
    BY <2>3, <2>5, FairKept DEF ShownInv
<1>4. ASSUME NEW label \in Answers, getActiveCall(w, u, cv, label)
      PROVE  Deserved' /\ TasksFair'
  <2> DEFINE k == activeCalls[cv]
             r == [Idle EXCEPT !.pc = label, !.user = u, !.conv = cv, !.call = k]
  <2>1. /\ task' = [task EXCEPT ![w] = r] /\ k # None
        /\ UNCHANGED <<conversation, status, inConv>>
    BY <1>4 DEF getActiveCall, registry, clients
  <2>2. k \in Calls /\ conversation[k] = cv
    BY <1>1, <2>1 DEF TypeOK, RegistryInv, ShownInv, CallInv, IInv
  <2>3. r.pc = label /\ r.conv = cv /\ r.call = k
    BY DEF Idle
  <2> HIDE DEF r, k
  <2>4. Fair(task[w])'
    BY <1>1, <2>1, <2>2, <2>3 DEF Fair, Answers
  <2>5. TasksFair'
    BY <1>1, <2>1, <2>4, FairKept DEF ShownInv
  <2> QED
    BY <2>1, <2>5, DeservedKept DEF ShownInv
<1>5. CASE CallNotFound(w, u, cv) \/ handleCallCancel(w, u, cv)
  <2> DEFINE s == [Idle EXCEPT !.pc = "clear", !.conv = cv, !.todo = {u}]
             t == [Idle EXCEPT !.pc = "clearAll", !.conv = cv, !.call = activeCalls[cv],
                               !.todo = Participants(activeCalls[cv]), !.then = "endCall"]
  <2>1. /\ task' = [task EXCEPT ![w] = s] \/ task' = [task EXCEPT ![w] = t]
        /\ s.pc \in Elsewhere /\ t.pc \in Elsewhere
    BY <1>5 DEF CallNotFound, handleCallCancel, Idle, Elsewhere
  <2> HIDE DEF s, t
  <2> QED
    BY <1>1, <1>5, <2>1, QuietStep DEF CallNotFound, handleCallCancel, clients
<1> QED
  BY <1>2, <1>3, <1>4, <1>5 DEF Receive

LEMMA RegisterShown ==
  ASSUME ShownInv, Kinds, NEW w \in Workers, registerCall(w)
  PROVE  Deserved' /\ TasksFair'
<1> DEFINE k == task[w].call
           mark == [task[w] EXCEPT !.pc = "markCaller"]
<1>1. /\ w \in Procs /\ task[w].pc = "register" /\ TypeOK /\ task[w] \in Task
      /\ task[w].user \in Users /\ task[w].conv \in Conversations /\ k \in Calls
      /\ UNCHANGED <<status, inConv>>
  BY DEF registerCall, ShownInv, CallInv, IInv, TypeOK, TasksAgree, Agrees, Reserved, ForUser,
         Procs, clients
<1>2. CASE Finish(w)
  BY <1>1, <1>2, QuietStep DEF Finish, Idle, Elsewhere
<1>3. CASE /\ conversation' = [conversation EXCEPT ![k] = task[w].conv]
           /\ caller' = [caller EXCEPT ![k] = task[w].user]
           /\ task' = [task EXCEPT ![w].pc = "markCaller", ![k] = [Idle EXCEPT !.pc = "asleep"]]
  <2> DEFINE a == [Idle EXCEPT !.pc = "asleep"]
  <2>1. w # k /\ k \in Procs
    BY <1>1, ProcsAssumption DEF Procs
  <2>2. task' = [task EXCEPT ![w] = mark, ![k] = a]
    BY <1>3, <2>1
  <2>3. a.pc \in Elsewhere
    BY DEF Idle, Elsewhere
  <2>4. mark.pc = "markCaller" /\ mark.conv = task[w].conv /\ mark.user = task[w].user
    BY <1>1 DEF Task
  <2>5. Asked(task[w].user, task[w].conv)'
    <3> DEFINE u == task[w].user
               cv == task[w].conv
    <3> SUFFICES \E c \in Calls : conversation'[c] = cv /\ caller'[c] = u
      BY <1>1, <2>1, <2>2, <2>4 DEF Asked, TypeOK
    <3> QED
      BY <1>1, <1>3 DEF TypeOK
  <2> HIDE DEF a, mark, k
  <2>6. task'[w] = mark /\ \A q \in Procs \ {w} : task'[q] = task[q] \/ task'[q].pc \in Elsewhere
    BY <1>1, <2>1, <2>2, <2>3 DEF TypeOK
  <2>7. Fair(task[w])'
    BY <1>1, <2>4, <2>5, <2>6 DEF Fair, Asked, Answers
  <2>8. TasksFair'
    BY <2>6, <2>7, FairKept DEF ShownInv
  <2> QED
    BY <1>1, <2>8, DeservedKept DEF ShownInv
<1> QED
  BY <1>2, <1>3 DEF registerCall

LEMMA MarkShown ==
  ASSUME ShownInv, Kinds, NEW w \in Workers, markCaller(w) \/ markCallees(w) \/ acceptMark(w)
  PROVE  Deserved' /\ TasksFair'
<1>1. /\ w \in Procs /\ TypeOK /\ task[w].user \in Users /\ task[w].todo \subseteq Users
      /\ task \in [Procs -> Task]
  BY DEF markCaller, markCallees, acceptMark, ShownInv, CallInv, IInv, TypeOK, TasksAgree,
         Agrees, ForUser, Procs, Task
<1>2. \E r : task' = [task EXCEPT ![w] = r] /\ r.pc \in Elsewhere
  <2>1. Idle.pc \in Elsewhere
    BY DEF Idle, Elsewhere
  <2> QED
    BY <2>1, MarkingElsewhere DEF markCaller, markCallees, acceptMark, Finish
<1>3. TasksFair'
  BY <1>1, <1>2, FairKept DEF ShownInv
<1>4. CASE markCaller(w) \/ acceptMark(w)
  <2>1. task[w].conv \in Conversations /\ Asked(task[w].user, task[w].conv)
    BY <1>1, <1>4 DEF ShownInv, TasksFair, Fair, markCaller, acceptMark
  <2>2. SetCallStatus(task[w].user, "in_call", task[w].conv)
    BY <1>4 DEF markCaller, acceptMark, setUserBusy
  <2> QED
    BY <1>1, <1>3, <2>1, <2>2, SetStatus
<1>5. CASE markCallees(w)
  <2>1. \E v \in Users : SetCallStatus(v, "ringing", task[w].conv)
    BY <1>1, <1>5 DEF markCallees, setUserHavingCall
  <2> QED
    BY <1>3, <2>1, SetStatus
<1> QED
  BY <1>4, <1>5

LEMMA AcceptShown ==
  ASSUME ShownInv, Kinds, NEW w \in Workers, handleCallAccept(w)
  PROVE  Deserved' /\ TasksFair'
<1> DEFINE k == task[w].call
           u == task[w].user
           mark == [task[w] EXCEPT !.pc = "acceptMark"]
<1>1. w \in Procs /\ task[w].pc = "accept" /\ "accept" \in Answers /\ IInv /\ TypeOK
  BY DEF Procs, handleCallAccept, Sender, Answers, ShownInv, CallInv, IInv
<1>2. /\ task[w] \in Task /\ k \in Calls /\ u \in Users /\ task[w].conv \in Conversations
      /\ conversation[k] = task[w].conv /\ UNCHANGED <<conversation, status, inConv>>
  BY <1>1, OnCallFacts DEF ShownInv, TasksFair, Fair, handleCallAccept, registry, clients
<1>3. CASE ~CanAccept(k, u)
  BY <1>1, <1>2, <1>3, QuietStep DEF handleCallAccept, Finish, Idle, Elsewhere
<1>4. CASE CanAccept(k, u)
  <2>1. /\ participants' = [participants EXCEPT ![k][u] = "accepted"]
        /\ task' = [task EXCEPT ![w] = mark]
    BY <1>4 DEF handleCallAccept, Goto
  <2>2. mark.pc = "acceptMark" /\ mark.conv = task[w].conv /\ mark.user = u
    BY <1>2 DEF Task
  <2>3. participants'[k][u] \in Answered
    BY <1>1, <1>2, <2>1 DEF TypeOK, Answered
  <2> HIDE DEF mark
  <2>4. task'[w] = mark /\ \A q \in Procs \ {w} : task'[q] = task[q]
    BY <1>1, <2>1 DEF TypeOK
  <2>5. Fair(task[w])'
    BY <1>2, <2>2, <2>3, <2>4 DEF Fair, Asked, Answers
  <2>6. TasksFair'
    BY <2>4, <2>5, FairKept DEF ShownInv
  <2> QED
    BY <1>2, <2>6, DeservedKept DEF ShownInv
<1> QED
  BY <1>3, <1>4

\* Leaving a call, being refused, and the rest of the worker's steps.
LEMMA LeaveShown ==
  ASSUME ShownInv, Kinds, NEW w \in Workers,
         \/ handleCallReject(w) \/ handleCallTimeout(w) \/ handleCallEnd(w)
         \/ handleCallDismiss(w) \/ RefuseStranger(w) \/ ClearStranger(w)
  PROVE  Deserved' /\ TasksFair'
<1>1. w \in Procs /\ task[w].pc \in Answers /\ IInv /\ UNCHANGED <<status, inConv>>
  BY DEF Procs, handleCallReject, handleCallTimeout, handleCallEnd, handleCallDismiss,
         RefuseStranger, ClearStranger, Depart, Sender, Stranger, Answers, clients,
         ShownInv, CallInv
<1>2. {task[w].user} \in SUBSET Users
  BY <1>1, OnCallFacts
<1>3. CASE handleCallDismiss(w) \/ RefuseStranger(w)
  BY <1>1, <1>3, QuietStep DEF handleCallDismiss, RefuseStranger, Finish, Idle, Elsewhere
<1>4. CASE ClearStranger(w)
  BY <1>1, <1>2, <1>4, ClearThenQuiet DEF ClearStranger
<1>5. CASE handleCallReject(w) \/ handleCallTimeout(w) \/ handleCallEnd(w)
  <2>1. \E next \in {"idle", "endCall", "clearAll"} : ClearThen(w, {task[w].user}, next)
    BY <1>5 DEF handleCallReject, handleCallTimeout, handleCallEnd, Depart
  <2> QED
    BY <1>1, <1>2, <2>1, ClearThenQuiet
<1> QED
  BY <1>3, <1>4, <1>5

LEMMA WatchShown ==
  ASSUME ShownInv, Kinds, NEW k \in Calls, Watch(k)
  PROVE  Deserved' /\ TasksFair'
<1>1. k \in Procs /\ UNCHANGED <<status, inConv>>
  BY DEF Watch, watcherWake, startCallTimeoutWatcher, clients, Procs
<1>2. CASE watcherWake(k)
  <2> DEFINE t == [Idle EXCEPT !.pc = "expire", !.conv = conversation[k],
                               !.call = activeCalls[conversation[k]]]
  <2>1. /\ task' = [task EXCEPT ![k] = Idle] \/ task' = [task EXCEPT ![k] = t]
        /\ t.pc \in Elsewhere /\ Idle.pc \in Elsewhere
    BY <1>2 DEF watcherWake, Finish, Idle, Elsewhere
  <2> HIDE DEF t
  <2> QED
    BY <1>1, <2>1, QuietStep
<1>3. CASE startCallTimeoutWatcher(k)
  <2>1. \E S \in SUBSET Users, next \in {"idle", "endCall", "clearAll"} : ClearThen(k, S, next)
    BY <1>3 DEF startCallTimeoutWatcher, Late
  <2> QED
    BY <1>1, <2>1, ClearThenQuiet
<1> QED
  BY <1>2, <1>3 DEF Watch

LEMMA ClearShown ==
  ASSUME ShownInv, Kinds, NEW p \in Procs, Clear(p)
  PROVE  Deserved' /\ TasksFair'
<1>1. task[p] \in Task /\ TypeOK /\ task \in [Procs -> Task] /\ IInv
  BY DEF ShownInv, CallInv, IInv, TypeOK
<1>2. CASE clearCheck(p)
  <2>1. PICK v \in task[p].todo :
          \/ task' = [task EXCEPT ![p].hit = v]
          \/ task' = [task EXCEPT ![p] = Swept([task[p] EXCEPT !.todo = @ \ {v}])]
    BY <1>2 DEF clearCheck
  <2> DEFINE hit == [task[p] EXCEPT !.hit = v]
             rest == [task[p] EXCEPT !.todo = @ \ {v}]
  <2>2. task[p].pc \in {"clear", "clearAll"} /\ UNCHANGED <<status, inConv>>
    BY <1>2 DEF clearCheck, clients
  <2>3. hit.pc \in Elsewhere /\ rest \in Task /\ rest.pc \in {"clear", "clearAll"}
    BY <1>1, <2>2 DEF Task, Elsewhere
  <2>4. task' = [task EXCEPT ![p] = hit] \/ task' = [task EXCEPT ![p] = Swept(rest)]
    BY <2>1
  <2> HIDE DEF hit, rest
  <2>5. Swept(rest).pc \in Elsewhere
    BY <2>3, SweptPc DEF Elsewhere
  <2> QED
    BY <2>2, <2>3, <2>4, <2>5, QuietStep
<1>3. CASE clearWrite(p)
  <2> DEFINE rest == [task[p] EXCEPT !.hit = None, !.todo = @ \ {task[p].hit}]
  <2>1. /\ task[p].pc \in {"clear", "clearAll"} /\ task[p].hit \in Users
        /\ SetCallStatus(task[p].hit, "online", None)
        /\ task' = [task EXCEPT ![p] = Swept(rest)]
    BY <1>1, <1>3 DEF clearWrite, Task
  <2>2. rest \in Task /\ rest.pc \in {"clear", "clearAll"}
    BY <1>1, <2>1 DEF Task
  <2> HIDE DEF rest
  <2>3. Swept(rest).pc \in Elsewhere
    BY <2>2, SweptPc DEF Elsewhere
  <2>4. \A q \in Procs : task'[q] = task[q] \/ task'[q].pc \in Elsewhere
    BY <1>1, <2>1, <2>3
  <2>5. TasksFair'
    BY <2>4, FairKept DEF ShownInv
  <2> QED
    BY <2>1, <2>5, SetStatus
<1>4. CASE endCall(p)
  <2>1. {caller[task[p].call]} \in SUBSET Users
    BY <1>1, <1>4 DEF endCall, IInv, TasksAgree, Agrees, OnCall, CallsInv
  <2> QED
    BY <1>4, <2>1, ClearThenQuiet DEF endCall, clients
<1> QED
  BY <1>2, <1>3, <1>4 DEF Clear

LEMMA ClientShown ==
  ASSUME ShownInv, Kinds, "in_call" \notin Settable, NEW u \in Users,
         Connect(u) \/ \E s \in Settable : UpdateStatus(u, s)
  PROVE  Deserved' /\ TasksFair'
<1>1. TypeOK /\ IInv
  BY DEF ShownInv, CallInv, IInv
<1>2. CASE Connect(u)
  <2> DEFINE rest(p) == [task[p] EXCEPT !.hit = None, !.todo = @ \ {u}]
  <2>1. /\ task' = [p \in Procs |-> IF task[p].hit = u THEN Swept(rest(p)) ELSE task[p]]
        /\ status' = [status EXCEPT ![u] = "online"] /\ inConv' = [inConv EXCEPT ![u] = None]
    BY <1>2 DEF Connect
  <2>2. ASSUME NEW p \in Procs, task[p].hit = u
        PROVE  Swept(rest(p)).pc \in Elsewhere
    <3>1. task[p] \in Task /\ task[p].pc \in {"clear", "clearAll"}
      BY <1>1, <2>2, NoneAssumption DEF TypeOK, IInv, TasksAgree, Agrees
    <3>2. rest(p) \in Task /\ rest(p).pc \in {"clear", "clearAll"}
      BY <3>1 DEF Task
    <3> HIDE DEF rest
    <3> QED
      BY <3>2, SweptPc DEF Elsewhere
  <2> HIDE DEF rest
  <2>3. TasksFair'
    BY <2>1, <2>2, FairKept DEF ShownInv
  <2> QED
    BY <1>1, <2>1, <2>3, DeservedKept DEF ShownInv, TypeOK
<1>3. CASE \E s \in Settable : UpdateStatus(u, s)
  BY <1>1, <1>3, FairKept, DeservedKept DEF UpdateStatus, ShownInv, TypeOK
<1> QED
  BY <1>2, <1>3

LEMMA NextShown ==
  ASSUME ShownInv, [Next]_vars, "in_call" \notin Settable
  PROVE  ShownInv'
<1>1. CallInv' /\ Kinds
  BY NextCallInv, StepKinds DEF ShownInv, CallInv
<1>2. CASE \E w \in Workers : Handle(w)
  BY <1>1, <1>2, RegisterShown, MarkShown, AcceptShown, LeaveShown DEF Handle, ShownInv
<1>3. CASE UNCHANGED vars
  BY <1>1, <1>3, FairKept, DeservedKept DEF vars, ShownInv
<1> QED
  BY <1>1, <1>2, <1>3, ReceiveShown, WatchShown, ClearShown, ClientShown DEF Next, ShownInv

\* Nobody is shown as in a call they neither placed nor answered, provided that
\* clients do not announce in_call themselves.
THEOREM NobodyUnasked == ASSUME "in_call" \notin Settable PROVE Spec => []NobodyInCallUnasked
<1>1. Init => ShownInv
  BY InitIInv DEF ShownInv, CallInv, Init, Unborn, RingingCallUnanswered, Deserved, TasksFair,
                  Fair, Idle, Answers
<1>2. ShownInv /\ [Next]_vars => ShownInv'
  BY NextShown
<1>3. ShownInv => NobodyInCallUnasked
  BY DEF ShownInv, Deserved, Asked, NobodyInCallUnasked
<1> QED
  BY <1>1, <1>2, <1>3, PTL DEF Spec

=============================================================================
