---------------------------- MODULE CallHandler ----------------------------
(***************************************************************************)
(* The call subsystem of the hub (internal/hub/call_handler.go and         *)
(* call_state.go): the registry of active calls, the participants of each  *)
(* call object, the busy status every connected client carries, the worker *)
(* goroutines that run the call handlers and the timeout watcher that each *)
(* initiation starts.                                                      *)
(*                                                                         *)
(* A handler is cut into steps where the code gives up a lock: the lookup  *)
(* in activeCalls, the critical section under call.Mu, and one step per    *)
(* access to a client's status.  The 16 workers take events from one       *)
(* channel, so two events of one user may be handled at the same time and  *)
(* in either order.  Notifications, error replies and logging change no    *)
(* state of this module and are left out; so is a step that changes        *)
(* nothing, such as the refusal of a busy caller.                          *)
(*                                                                         *)
(* Bounds: Calls is the supply of call objects (an initiation that finds   *)
(* none left does not start), Workers the worker pool, Events what each   *)
(* client of an instance does.  Room membership is fixed.  A client never   *)
(* leaves: the hub's removeClient does not complete (module Presence).     *)
(***************************************************************************)
EXTENDS FiniteSets

CONSTANTS
    Users,          \* user ids
    Conversations,  \* conversation ids
    Calls,          \* call objects; call k also names its watcher goroutine
    Workers,        \* worker goroutines of the hub
    Connected,      \* the users connected before the first call event
    Events,         \* Events[u]: the kinds of events client u produces
    Members,        \* Members[cv]: the users of the conversation's room
    JoinCallees,    \* the calleeIds a joining request may carry
    Flaky,          \* users whose directory lookup may fail
    Settable,       \* statuses a client announces with update_status
    None            \* nil

Procs == Workers \cup Calls

\* Client statuses the call code assigns (client.go:18-25).
CallStatuses == {"online", "ringing", "in_call"}
ClientStatus == CallStatuses \cup Settable

\* model.ParticipantStatus; "none" is a user who is not in the Participants map.
Answered == {"accepted", "rejected", "timeout", "left", "dismissed"}
ParticipantStatus == {"none", "ringing"} \cup Answered

\* The statuses of a call that the handlers read; none of them assigns the last two.
OverallStatus == {"none", "ringing", "accepted", "ended", "cancelled"}

\* Handlers of one participant's answer; each has a critical section of that name.
Answers == {"accept", "reject", "timeout", "dismiss", "leave"}
AllEvents == {"initiate", "join", "cancel", "connect", "reconnect", "update"} \cup Answers

ASSUME MembersAssumption == Members \in [Conversations -> SUBSET Users]
ASSUME ConnectedAssumption == Connected \subseteq Users
ASSUME JoinAssumption == JoinCallees \subseteq SUBSET Users
ASSUME NoneAssumption == None \notin Users \cup Conversations \cup Procs
ASSUME ProcsAssumption == Workers \cap Calls = {}
ASSUME EventsAssumption == Events \in [Users -> SUBSET AllEvents]

VARIABLES
    activeCalls,    \* CallHandler.activeCalls, keyed by conversation
    conversation,   \* ActiveGroupCall.ConversationID; None: not yet created
    caller,         \* ActiveGroupCall.CallerID
    callStatus,     \* ActiveGroupCall.Status
    participants,   \* ActiveGroupCall.Participants[u].Status
    onlineUsers,    \* the users Hub.onlineUsers has a client for
    status,         \* Client.status of that client
    inConv,         \* Client.currentConversationID of that client
    task            \* the goroutines: where each is in its handler

registry == <<activeCalls, conversation, caller>>
clients == <<onlineUsers, status, inConv>>
vars == <<activeCalls, conversation, caller, callStatus, participants,
          onlineUsers, status, inConv, task>>

Idle == [pc |-> "idle", user |-> None, conv |-> None, call |-> None,
         todo |-> {}, hit |-> None, then |-> "idle"]

Labels == {"idle", "register", "markCaller", "markCallees", "acceptMark",
           "clear", "clearAll", "endCall", "asleep", "expire"} \cup Answers

----------------------------------------------------------------------------
(* Reading a call. *)

Participants(k) == {u \in Users : participants[k][u] # "none"}

\* countParticipantStates, as far as the callers look at it: a count being zero.
SomeoneRinging(ps) == \E u \in Users : ps[u] = "ringing"
SomeoneAccepted(ps) == \E u \in Users : ps[u] = "accepted"
NobodyLeft(ps) == ~SomeoneRinging(ps) /\ ~SomeoneAccepted(ps)

\* is1to1Call of reject, timeout and end: len(call.Participants) == 1.  The
\* caller is a participant, so this is a call nobody else was found for.
OneToOne(ps) == \E u \in Users : \A v \in Users : (ps[v] # "none") <=> (v = u)

\* What ends the call after handler label has changed a status.
EndsAfter(label, ps) ==
    OneToOne(ps) \/ IF label = "leave" THEN ~SomeoneAccepted(ps) ELSE NobodyLeft(ps)

\* The watcher's is1to1Call: exactly one participant besides the caller.
OneOther(k, ps) ==
    \E u \in Users \ {caller[k]} :
        \A v \in Users \ {caller[k]} : (ps[v] # "none") <=> (v = u)
EndsAfterExpiry(k, ps) == OneOther(k, ps) \/ NobodyLeft(ps)

\* The participants the watcher times out.
\* Mutant: those who have answered as well.
LateMutant(k) == {u \in Users : participants[k][u] \in {"ringing", "accepted"}}
Late(k) == {u \in Users : participants[k][u] = "ringing"}

\* call.Mu can be write-locked: nobody walks the participants under RLock.
MuFree(k) == \A p \in Procs : ~(task[p].pc = "clearAll" /\ task[p].call = k)

\* A call object no initiation has taken.
Fresh(k) == conversation[k] = None /\ \A p \in Procs : task[p].call # k

Busy(u) == u \in onlineUsers /\ status[u] = "in_call"

----------------------------------------------------------------------------
(* Writing a client's status; a user without a client is skipped. *)

SetCallStatus(u, s, cv) ==
    IF u \in onlineUsers
    THEN /\ status' = [status EXCEPT ![u] = s]
         /\ inConv' = [inConv EXCEPT ![u] = cv]
         /\ UNCHANGED onlineUsers
    ELSE UNCHANGED clients

\* Mutants: the status constants mixed up.
setUserBusyMutant(u, cv) == SetCallStatus(u, "busy", cv)
setUserHavingCallMutant(u, cv) == SetCallStatus(u, "in_call", cv)
setUserBusy(u, cv) == SetCallStatus(u, "in_call", cv)
setUserHavingCall(u, cv) == SetCallStatus(u, "ringing", cv)

Goto(p, label) == task' = [task EXCEPT ![p].pc = label]
Finish(p) == task' = [task EXCEPT ![p] = Idle]

\* A loop over the users in todo that is over goes on: the handler returns or
\* ends the call, or endCall enters its second loop, which holds call.Mu for
\* reading.
Swept(t) ==
    IF t.todo # {} THEN t
    ELSE IF t.then = "endCall" THEN [t EXCEPT !.pc = "endCall"]
    ELSE IF t.then = "clearAll"
         THEN [t EXCEPT !.pc = "clearAll", !.then = "idle", !.todo = Participants(t.call)]
    ELSE Idle

\* clearUserBusy of the users in S, one after the other, and what follows.
ClearThen(p, S, next) ==
    task' = [task EXCEPT ![p] = Swept([@ EXCEPT !.pc = "clear", !.user = None,
                                                !.todo = S, !.then = next])]

----------------------------------------------------------------------------
(* Placing a call. *)

\* handleCallInitiate up to the directory lookup.  CalleeIDs are all the members
\* of the room, the caller included, less those in a call; a caller who is busy
\* or no member gets nowhere.
handleCallInitiate(w, u, cv, k) ==
    LET free == {v \in Members[cv] : ~Busy(v)}
    IN /\ "initiate" \in Events[u]
       /\ task[w] = Idle
       /\ Fresh(k)
       /\ u \in free
       /\ task' = [task EXCEPT ![w] = [Idle EXCEPT !.pc = "register", !.user = u,
                                       !.conv = cv, !.call = k, !.todo = free]]
       /\ UNCHANGED <<registry, callStatus, participants, clients>>

\* GetUserDetail, with the users in missing not found, and the new call object.
NewParticipants(S, missing) ==
    [v \in Users |-> IF v \in S \ missing THEN "ringing" ELSE "none"]

\* The loop that marks the callees in S; the handler returns after the last one.
Marking(u, cv, k, S) ==
    IF S = {} THEN Idle
    ELSE [Idle EXCEPT !.pc = "markCallees", !.user = u, !.conv = cv, !.call = k, !.todo = S]

\* registerCall, the start of the watcher, and the caller's own Accepted status.
\* A caller without a participant is a nil dereference: RecoveryMiddleware ends
\* the handler before anything is registered.
registerCall(w) ==
    LET t == task[w] k == t.call
    IN /\ t.pc = "register"
       /\ \E missing \in SUBSET (t.todo \cap Flaky) :
            IF t.user \notin missing
            THEN /\ activeCalls' = [activeCalls EXCEPT ![t.conv] = k]
                 /\ conversation' = [conversation EXCEPT ![k] = t.conv]
                 /\ caller' = [caller EXCEPT ![k] = t.user]
                 /\ callStatus' = [callStatus EXCEPT ![k] = "ringing"]
                 /\ participants' = [participants EXCEPT ![k] =
                      [NewParticipants(t.todo, missing) EXCEPT ![t.user] = "accepted"]]
                 /\ task' = [task EXCEPT ![w].pc = "markCaller",
                                         ![k] = [Idle EXCEPT !.pc = "asleep"]]
            ELSE /\ Finish(w)
                 /\ UNCHANGED <<registry, callStatus, participants>>
       /\ UNCHANGED clients

\* raiseJoiningRequest up to the caller's busy mark: the call object is given a
\* watcher but never registered, and nobody's status is consulted.
raiseJoiningRequest(w, u, cv, k, S) ==
    /\ "join" \in Events[u]
    /\ task[w] = Idle
    /\ Fresh(k)
    /\ \E missing \in SUBSET ((S \cup {u}) \cap Flaky) :
         participants' = [participants EXCEPT ![k] = NewParticipants(S \cup {u}, missing)]
    /\ conversation' = [conversation EXCEPT ![k] = cv]
    /\ caller' = [caller EXCEPT ![k] = u]
    /\ callStatus' = [callStatus EXCEPT ![k] = "ringing"]
    /\ setUserBusy(u, cv)
    /\ task' = [task EXCEPT ![w] = Marking(u, cv, k, S \ {u}),
                            ![k] = [Idle EXCEPT !.pc = "asleep"]]
    /\ UNCHANGED activeCalls

markCaller(w) ==
    LET t == task[w]
    IN /\ t.pc = "markCaller"
       /\ setUserBusy(t.user, t.conv)
       /\ task' = [task EXCEPT ![w] = Marking(t.user, t.conv, t.call, t.todo \ {t.user})]
       /\ UNCHANGED <<registry, callStatus, participants>>

\* Callees the directory lookup lost are marked as well.
markCallees(w) ==
    LET t == task[w]
    IN /\ t.pc = "markCallees"
       /\ \E v \in t.todo :
            /\ setUserHavingCall(v, t.conv)
            /\ task' = [task EXCEPT ![w] = Marking(t.user, t.conv, t.call, t.todo \ {v})]
       /\ UNCHANGED <<registry, callStatus, participants>>

----------------------------------------------------------------------------
(* Answering and leaving a call.  Every handler first looks the call up by  *)
(* conversation (getActiveCall) and works on the object it got.             *)

getActiveCall(w, u, cv, label) ==
    /\ label \in Events[u]
    /\ task[w] = Idle
    /\ activeCalls[cv] # None
    /\ task' = [task EXCEPT ![w] = [Idle EXCEPT !.pc = label, !.user = u,
                                    !.conv = cv, !.call = activeCalls[cv]]]
    /\ UNCHANGED <<registry, callStatus, participants, clients>>

\* No active call: all handlers but accept clear the sender's own status.
CallNotFound(w, u, cv) ==
    /\ Events[u] \cap (({"cancel"} \cup Answers) \ {"accept"}) # {}
    /\ task[w] = Idle
    /\ activeCalls[cv] = None
    /\ task' = [task EXCEPT ![w] = [Idle EXCEPT !.pc = "clear", !.conv = cv,
                                                !.todo = {u}]]
    /\ UNCHANGED <<registry, callStatus, participants, clients>>

\* The critical section of handler label on the task's call, which has the
\* sender as a participant (Sender) or not (Stranger).
Sender(w, label) ==
    /\ task[w].pc = label
    /\ MuFree(task[w].call)
    /\ participants[task[w].call][task[w].user] # "none"
Stranger(w, label) ==
    /\ task[w].pc = label
    /\ MuFree(task[w].call)
    /\ participants[task[w].call][task[w].user] = "none"
    /\ UNCHANGED <<registry, callStatus, participants, clients>>

\* Mutant: a participant who has already responded is let in.
CanAcceptMutant(k, u) == callStatus[k] \notin {"ended", "cancelled"}
CanAccept(k, u) ==
    /\ participants[k][u] = "ringing"
    /\ callStatus[k] \notin {"ended", "cancelled"}

\* isFirstAccept: a ringing call becomes accepted.
\* Mutant: the transition is forgotten.
StatusAfterAcceptMutant(s) == s
StatusAfterAccept(s) == IF s = "ringing" THEN "accepted" ELSE s

handleCallAccept(w) ==
    LET k == task[w].call u == task[w].user
    IN /\ Sender(w, "accept")
       /\ IF CanAccept(k, u)
          THEN /\ participants' = [participants EXCEPT ![k][u] = "accepted"]
               /\ callStatus' = [callStatus EXCEPT ![k] = StatusAfterAccept(@)]
               /\ Goto(w, "acceptMark")
          ELSE /\ Finish(w)
               /\ UNCHANGED <<callStatus, participants>>
       /\ UNCHANGED <<registry, clients>>

acceptMark(w) ==
    /\ task[w].pc = "acceptMark"
    /\ setUserBusy(task[w].user, task[w].conv)
    /\ Finish(w)
    /\ UNCHANGED <<registry, callStatus, participants>>

\* The statuses of call k that are counted once user u has status s.
\* Mutant: they are counted before the status changes.
CountedMutant(k, u, s) == participants[k]
Counted(k, u, s) == [participants[k] EXCEPT ![u] = s]

\* The body reject, timeout and end share: the sender takes status s, the rest
\* is counted in the same critical section, then the sender's status is cleared.
Depart(w, label, s) ==
    LET k == task[w].call
        u == task[w].user
    IN /\ Sender(w, label)
       /\ participants' = [participants EXCEPT ![k][u] = s]
       /\ ClearThen(w, {u}, IF EndsAfter(label, Counted(k, u, s)) THEN "endCall" ELSE "idle")
       /\ UNCHANGED <<registry, callStatus, clients>>

handleCallReject(w) == Depart(w, "reject", "rejected")
handleCallTimeout(w) == Depart(w, "timeout", "timeout")
handleCallEnd(w) == Depart(w, "leave", "left")

\* A dismissal neither clears the sender's status nor looks who is left.
handleCallDismiss(w) ==
    /\ Sender(w, "dismiss")
    /\ participants' = [participants EXCEPT ![task[w].call][task[w].user] = "dismissed"]
    /\ Finish(w)
    /\ UNCHANGED <<registry, callStatus, clients>>

\* not_callee: accept, reject and dismiss reply with an error.
RefuseStranger(w) ==
    /\ \E label \in {"accept", "reject", "dismiss"} : Stranger(w, label)
    /\ Finish(w)

\* timeout and end clear the sender's own status.
ClearStranger(w) ==
    /\ \E label \in {"timeout", "leave"} : Stranger(w, label)
    /\ ClearThen(w, {task[w].user}, "idle")

\* Only the caller cancels; CallerID is read without call.Mu and never changes.
handleCallCancel(w, u, cv) ==
    LET k == activeCalls[cv]
    IN /\ "cancel" \in Events[u]
       /\ task[w] = Idle
       /\ k # None
       /\ caller[k] = u
       /\ task' = [task EXCEPT ![w] = [Idle EXCEPT !.pc = "clearAll",
                     !.conv = cv, !.call = k, !.todo = Participants(k),
                     !.then = "endCall"]]
       /\ UNCHANGED <<registry, callStatus, participants, clients>>

----------------------------------------------------------------------------
(* clearUserBusy and endCall. *)

\* clearUserBusy compares under one lock and resets under the next; the client
\* found by the comparison is the one that is reset (hit).
clearCheck(p) ==
    LET t == task[p]
    IN /\ t.pc \in {"clear", "clearAll"}
       /\ t.hit = None
       /\ \E v \in t.todo :
            IF v \in onlineUsers /\ inConv[v] = t.conv
            THEN task' = [task EXCEPT ![p].hit = v]
            ELSE task' = [task EXCEPT ![p] = Swept([t EXCEPT !.todo = @ \ {v}])]
       /\ UNCHANGED <<registry, callStatus, participants, clients>>

clearWrite(p) ==
    LET t == task[p]
    IN /\ t.pc \in {"clear", "clearAll"}
       /\ t.hit # None
       /\ SetCallStatus(t.hit, "online", None)
       /\ task' = [task EXCEPT ![p] = Swept([t EXCEPT !.hit = None, !.todo = @ \ {t.hit}])]
       /\ UNCHANGED <<registry, callStatus, participants>>

\* delete(activeCalls, conversation): whichever call the conversation has now.
\* Mutant: only a call somebody accepted is deleted.
UnregisterMutant(k) ==
    activeCalls' = IF callStatus[k] = "accepted"
                   THEN [activeCalls EXCEPT ![conversation[k]] = None] ELSE activeCalls
Unregister(k) == activeCalls' = [activeCalls EXCEPT ![conversation[k]] = None]

endCall(p) ==
    LET t == task[p]
    IN /\ t.pc = "endCall"
       /\ Unregister(t.call)
       /\ ClearThen(p, {caller[t.call]}, "clearAll")
       /\ UNCHANGED <<conversation, caller, callStatus, participants, clients>>

----------------------------------------------------------------------------
(* The timeout watcher of call k, from the end of its sleep.  It acts on    *)
(* the call that is then active in the conversation.                        *)

\* Mutant: the watcher leaves calls alone that nobody has accepted.
NothingToExpireMutant(k) == k = None \/ callStatus[k] = "ringing"
NothingToExpire(k) == k = None

watcherWake(k) ==
    LET cv == conversation[k]
    IN /\ task[k].pc = "asleep"
       /\ IF NothingToExpire(activeCalls[cv])
          THEN Finish(k)
          ELSE task' = [task EXCEPT ![k] = [Idle EXCEPT !.pc = "expire",
                          !.conv = cv, !.call = activeCalls[cv]]]
       /\ UNCHANGED <<registry, callStatus, participants, clients>>

\* otherParticipants is counted against the caller of the watcher's own call k.
startCallTimeoutWatcher(k) ==
    LET c == task[k].call
        late == Late(c)
        ps == [u \in Users |-> IF u \in late THEN "timeout" ELSE participants[c][u]]
    IN /\ task[k].pc = "expire"
       /\ MuFree(c)
       /\ participants' = [participants EXCEPT ![c] = ps]
       /\ ClearThen(k, late, IF EndsAfterExpiry(k, ps) THEN "endCall" ELSE "idle")
       /\ UNCHANGED <<registry, callStatus, clients>>

----------------------------------------------------------------------------
(* The clients. *)

\* addClient with a new Client: its status is online, and resets decided on
\* the client it replaces no longer reach it.
Connect(u) ==
    /\ (IF u \in onlineUsers THEN "reconnect" ELSE "connect") \in Events[u]
    /\ onlineUsers' = onlineUsers \cup {u}
    /\ status' = [status EXCEPT ![u] = "online"]
    /\ inConv' = [inConv EXCEPT ![u] = None]
    /\ task' = [p \in Procs |->
         IF task[p].hit = u
         THEN Swept([task[p] EXCEPT !.hit = None, !.todo = @ \ {u}])
         ELSE task[p]]
    /\ UNCHANGED <<registry, callStatus, participants>>

\* update_status writes the status and leaves the conversation alone.
UpdateStatus(u, s) ==
    /\ "update" \in Events[u]
    /\ u \in onlineUsers
    /\ status' = [status EXCEPT ![u] = s]
    /\ UNCHANGED <<registry, callStatus, participants, onlineUsers, inConv, task>>

----------------------------------------------------------------------------

Init ==
    /\ activeCalls = [cv \in Conversations |-> None]
    /\ conversation = [k \in Calls |-> None]
    /\ caller = [k \in Calls |-> None]
    /\ callStatus = [k \in Calls |-> "none"]
    /\ participants = [k \in Calls |-> [u \in Users |-> "none"]]
    /\ onlineUsers = Connected
    /\ status = [u \in Users |-> "online"]
    /\ inConv = [u \in Users |-> None]
    /\ task = [p \in Procs |-> Idle]

\* A worker takes an event of user u about conversation cv.
Receive(w, u, cv) ==
    \/ \E k \in Calls : handleCallInitiate(w, u, cv, k)
    \/ \E k \in Calls, S \in JoinCallees : raiseJoiningRequest(w, u, cv, k, S)
    \/ \E label \in Answers : getActiveCall(w, u, cv, label)
    \/ CallNotFound(w, u, cv)
    \/ handleCallCancel(w, u, cv)

\* The worker's handler goes on.
Handle(w) ==
    \/ registerCall(w) \/ markCaller(w) \/ markCallees(w)
    \/ handleCallAccept(w) \/ acceptMark(w)
    \/ handleCallReject(w) \/ handleCallTimeout(w) \/ handleCallEnd(w)
    \/ handleCallDismiss(w) \/ RefuseStranger(w) \/ ClearStranger(w)

\* The watcher of call k goes on; its sleep is of unknown length here.
Watch(k) == watcherWake(k) \/ startCallTimeoutWatcher(k)

Clear(p) == clearCheck(p) \/ clearWrite(p) \/ endCall(p)

Next ==
    \/ \E w \in Workers, u \in Users, cv \in Conversations : Receive(w, u, cv)
    \/ \E w \in Workers : Handle(w)
    \/ \E k \in Calls : Watch(k)
    \/ \E p \in Procs : Clear(p)
    \/ \E u \in Users : Connect(u)
    \/ \E u \in Users, s \in Settable : UpdateStatus(u, s)

Spec == Init /\ [][Next]_vars

\* The Go scheduler runs every goroutine that can run, and a sleep ends; the
\* events themselves are not fair.
Fairness ==
    /\ \A w \in Workers : WF_vars(Handle(w) \/ Clear(w))
    /\ \A k \in Calls : WF_vars(Watch(k) \/ Clear(k))

FairSpec == Spec /\ Fairness

----------------------------------------------------------------------------
(* Properties. *)

Task == [pc : Labels, user : Users \cup {None}, conv : Conversations \cup {None},
         call : Calls \cup {None}, todo : SUBSET Users, hit : Users \cup {None},
         then : {"idle", "endCall", "clearAll"}]

\* The shape of the state: the registry, the call objects, the client statuses
\* and the position of every goroutine.
TypeOK ==
    /\ activeCalls \in [Conversations -> Calls \cup {None}]
    /\ conversation \in [Calls -> Conversations \cup {None}]
    /\ caller \in [Calls -> Users \cup {None}]
    /\ callStatus \in [Calls -> OverallStatus]
    /\ participants \in [Calls -> [Users -> ParticipantStatus]]
    /\ onlineUsers \subseteq Users
    /\ status \in [Users -> ClientStatus]
    /\ inConv \in [Users -> Conversations \cup {None}]
    /\ task \in [Procs -> Task]

\* Some goroutine has decided to end call k and has not removed it yet.
Ending(k) == \E p \in Procs : task[p].call = k /\ task[p].then = "endCall"

\* A call object somebody still belongs to.  A dismissed participant counts:
\* handleCallDismiss never looks whether the call has become empty.
Peopled(k) == \E u \in Users : participants[k][u] \in {"ringing", "accepted", "dismissed"}

\* No call is left behind in activeCalls: a registered call still has somebody
\* in it, or the handler that saw the last one go is on its way to endCall,
\* however rejections, timeouts, departures and watchers of this and of earlier
\* calls of the conversation interleave.
ActiveCallAlive ==
    \A cv \in Conversations :
        activeCalls[cv] # None => Peopled(activeCalls[cv]) \/ Ending(activeCalls[cv])

\* A call whose overall status is still Ringing has been answered by nobody but
\* its caller: isFirstAccept is decided in the critical section of the answer.
RingingCallUnanswered ==
    \A k \in Calls : callStatus[k] = "ringing" =>
        \A u \in Users \ {caller[k]} : participants[k][u] # "accepted"

\* Nobody is shown as in a call of a conversation without having placed one
\* there or having answered one there: calling someone only makes them ringing.
\* (The runs let clients announce any status but in_call themselves.)
NobodyInCallUnasked ==
    \A u \in Users : status[u] = "in_call" =>
        \E k \in Calls : /\ conversation[k] = inConv[u]
                         /\ caller[k] = u \/ participants[k][u] \in Answered

\* An answer stands: the accepted status of a participant is overwritten only by the
\* participant's own later event on that very call, not by the watcher of this or
\* an earlier call, by other participants, or by a handler that still works on
\* another call object.  (The call itself may be ended under them all the same:
\* AnsweredCallOutlivesTimer.)
AnsweredStays ==
    [][\A k \in Calls, u \in Users :
         participants[k][u] = "accepted" /\ participants'[k][u] # "accepted" =>
            \E w \in Workers : /\ task[w].user = u /\ task[w].call = k
                              /\ task[w].pc \in Answers
                              /\ task'[w].pc # task[w].pc]_vars

\* How far a user is with a call, as CallLifecycle sees it.
PhaseOf(s) ==
    CASE s = "none" -> "none"
      [] s = "ringing" -> "invited"
      [] s = "accepted" -> "in"
      [] OTHER -> "out"

Lifecycle == INSTANCE CallLifecycle WITH
    live <- activeCalls,
    phase <- [k \in Calls |-> [u \in Users |-> PhaseOf(participants[k][u])]]

\* The handlers and watchers implement the life of a call: nobody is rung twice
\* by one call object, an answer is given at most once and only while ringing,
\* and a call that left activeCalls never comes back to it.
ImplementsLifecycle == Lifecycle!Spec

\* What a registered call does to a ringing participant ends: they answer, the
\* watcher times them out, or the call is removed or replaced.
RingingEnds ==
    \A cv \in Conversations, k \in Calls, u \in Users :
        activeCalls[cv] = k /\ participants[k][u] = "ringing"
            ~> activeCalls[cv] # k \/ participants[k][u] # "ringing"

\* Whoever is rung by a registered call has that call's own watcher before them: it
\* sleeps, or is about to time out this very call.  Watchers of earlier calls, which
\* look up whatever call the conversation has by then, and calls that replace each
\* other in the registry leave nobody ringing without one.
RingingWatched ==
    \A cv \in Conversations, u \in Users :
        LET k == activeCalls[cv]
        IN k # None /\ participants[k][u] = "ringing" =>
              \/ task[k].pc = "asleep"
              \/ task[k].pc = "expire" /\ task[k].call = k

\* A call somebody decided to end leaves activeCalls.
EndedCallRemoved ==
    \A k \in Calls : Ending(k) ~> \A cv \in Conversations : activeCalls[cv] # k

----------------------------------------------------------------------------
(* What comments of the code say of it, and the code does not do. *)

\* call_state.go:63, "End call if no one accepted and no one still ringing": no
\* watcher decides to end a call that somebody has answered and is still in.
AnsweredCallOutlivesTimer ==
    [][\A k \in Calls, u \in Users :
         task[k].then # "endCall" /\ task'[k].then = "endCall" =>
            u = caller[task[k].call] \/ participants'[task[k].call][u] # "accepted"]_vars

\* No goroutine is at work on a call of conversation cv; watchers may sleep.
Quiet(cv) == \A p \in Procs : task[p].conv # cv

\* call_state.go:85, "Clear all participants busy status": once the call of a
\* conversation is over and every goroutine has done with it, no client is left
\* ringing or in a call there.
ParticipantsCleared ==
    \A cv \in Conversations : activeCalls[cv] = None /\ Quiet(cv) =>
        \A u \in onlineUsers : inConv[u] = cv => status[u] \notin {"ringing", "in_call"}

=============================================================================
