--------------------------- MODULE MessagesProofs ---------------------------
(***************************************************************************)
(* Proofs about Messages, for any messages, conversations, users, workers, *)
(* retries and faults of the database: what was refused is shown to nobody,*)
(* nobody is shown two copies of a message, what is shown as delivered is, *)
(* and a cached room holds one recent membership.                          *)
(*                                                                         *)
(* The key is that a message is in the hands of one worker at a time: it   *)
(* is taken up when it was never sent or when its sender was told that it  *)
(* was not saved, and both end with the first worker that takes it up.     *)
(***************************************************************************)
EXTENDS Messages, SequenceTheorems, TLAPS

\* The places of publishToRoom, and of those the ones with a Room in hand.
Publishing == {"find", "load", "set", "touch", "members", "deliver"}
WithRoom == {"touch", "members"}

New(s) == s[2] = "new_message"

\* What the place of a worker with the local variables t says about them.
Fits(t) ==
    /\ t.pc \in {"insert", "wait", "update"} => t.message \in Messages
    /\ t.pc \in {"idle", "mark"} => t.message = None
    /\ t.pc # "idle" => t.conv \in Conversations
    /\ t.pc \in Publishing \cup {"update", "mark"} => t.doc \in Docs
    /\ t.pc \in Publishing \cup {"update"} /\ t.message # None =>
          store[t.doc] = t.message
    /\ t.pc \in Publishing /\ t.message = None => t.doc \in marked
    /\ t.pc \in WithRoom => t.room \in Rooms
    /\ t.pc = "set" => t.users \in recent[t.conv]

\* Whoever handles message m is the only one, and m is not refused.
Handled ==
    \A w \in Workers : task[w].message # None =>
        /\ task[w].message \notin refused
        /\ sent[task[w].message] > 0
        /\ \A v \in Workers : task[v].message = task[w].message => v = w

\* A copy of a message that was shown is the one its worker publishes.
Shown ==
    \A s \in shown : New(s) =>
        /\ store[s[3]] \notin refused
        /\ sent[store[s[3]]] > 0
        /\ \A w \in Workers : task[w].message = store[s[3]] =>
              task[w].pc \in Publishing /\ task[w].doc = s[3]

\* Conversations share no room, and recent has the membership of now.
Cached ==
    /\ RoomsAreMemberships
    /\ \A c, d \in Conversations : cache[c] # None /\ cache[c] = cache[d] => c = d
    /\ \A cv \in Conversations : members[cv] \in recent[cv]

IInv ==
    /\ TypeOK
    /\ \A w \in Workers : Fits(task[w])
    /\ Handled
    /\ Shown
    /\ ShownOnce
    /\ ShownDelivered
    /\ Cached

----------------------------------------------------------------------------
(* Initial states, and the local variables. *)

LEMMA IdleTyped ==
  Idle \in Task /\ Idle.pc = "idle" /\ Idle.message = None
  BY BoundAssumption DEF Idle, Task, Labels

LEMMA InitIInv == Init => IInv
<1> SUFFICES ASSUME Init PROVE IInv
  OBVIOUS
<1>1. /\ task = [w \in Workers |-> Idle] /\ \A w \in Workers : task[w] = Idle
      /\ store = <<>> /\ shown = {} /\ marked = {} /\ refused = {}
  BY DEF Init
<1>2. TypeOK
  <2>1. store \in Seq(Messages) /\ Docs = {}
    BY <1>1, EmptySeq DEF Docs
  <2>2. task \in [Workers -> Task]
    BY <1>1, IdleTyped
  <2>3. /\ sent \in [Messages -> Nat] /\ \A m \in Messages : sent[m] <= MaxSends[m]
        /\ lost \in 0..MaxLost /\ marks \in 0..MaxMarks /\ changes \in 0..MaxChanges
    BY BoundAssumption DEF Init
  <2>4. /\ members \in [Conversations -> Memberships]
        /\ cache \in [Conversations -> Rooms \cup {None}]
        /\ room \in [Rooms -> [members : SUBSET Users, expired : BOOLEAN]]
        /\ last \in [Conversations -> {0} \cup Docs]
        /\ recent \in [Conversations -> SUBSET Memberships]
    BY MembersAssumption DEF Init
  <2> QED
    BY <1>1, <2>1, <2>2, <2>3, <2>4 DEF TypeOK
<1>3. \A w \in Workers : Fits(task[w])
  BY <1>1, IdleTyped DEF Fits, Publishing, WithRoom
<1>4. Handled /\ Shown /\ ShownOnce /\ ShownDelivered
  BY <1>1, IdleTyped DEF Handled, Shown, ShownOnce, ShownDelivered
<1>5. Cached
  BY DEF Init, Cached, RoomsAreMemberships
<1> QED
  BY <1>2, <1>3, <1>4, <1>5 DEF IInv

----------------------------------------------------------------------------
(* What every step leaves in place. *)

\* A step of the database: documents are added at the end, marks are never taken
\* back, nothing is forgotten.
Grows ==
    /\ store' \in Seq(Messages) /\ Len(store') >= Len(store)
    /\ \A d \in Docs : store'[d] = store[d]
    /\ marked \subseteq marked'
    /\ \A m \in Messages : sent'[m] >= sent[m]

LEMMA DocsGrow ==
  ASSUME TypeOK, Grows
  PROVE  Docs \subseteq Docs' /\ \A d \in Docs : store[d] \in Messages /\ store'[d] = store[d]
<1>1. Len(store) \in Nat /\ Len(store') \in Nat /\ Len(store) <= Len(store')
  BY LenProperties DEF TypeOK, Grows
<1>2. \A d \in Docs : store[d] \in Messages
  BY ElementOfSeq DEF TypeOK, Docs
<1> QED
  BY <1>1, <1>2 DEF Docs, Grows

LEMMA AppendGrows ==
  ASSUME TypeOK, NEW m \in Messages, store' = Append(store, m)
  PROVE  /\ store' \in Seq(Messages) /\ Len(store') = Len(store) + 1
         /\ Docs' = Docs \cup {Len(store) + 1} /\ Len(store) + 1 \notin Docs
         /\ \A d \in Docs : store'[d] = store[d]
         /\ store'[Len(store) + 1] = m
<1>1. Len(store) \in Nat
  BY LenProperties DEF TypeOK
<1>2. /\ store' \in Seq(Messages) /\ Len(store') = Len(store) + 1
      /\ \A i \in 1..Len(store) : store'[i] = store[i]
      /\ store'[Len(store) + 1] = m
  BY AppendProperties DEF TypeOK
<1> QED
  BY <1>1, <1>2 DEF Docs

\* A step in which worker w takes up no message, the store grows and the rest of
\* what Fits reads stays.
LEMMA OthersFit ==
  ASSUME IInv, Grows, NEW w \in Workers, NEW t, task' = [task EXCEPT ![w] = t],
         \A cv \in Conversations : recent[cv] \subseteq recent'[cv],
         Fits(task[w])'
  PROVE  \A v \in Workers : Fits(task[v])'
<1> SUFFICES ASSUME NEW v \in Workers, v # w PROVE Fits(task[v])'
  OBVIOUS
<1>1. task'[v] = task[v]
  BY DEF IInv, TypeOK
<1>2. Fits(task[v])
  BY DEF IInv
<1>3. Docs \subseteq Docs' /\ \A d \in Docs : store'[d] = store[d]
  BY DocsGrow DEF IInv
<1>4. marked \subseteq marked'
  BY DEF Grows
<1> QED
  BY <1>1, <1>2, <1>3, <1>4 DEF Fits, Publishing, WithRoom

\* A step of worker w that shows nothing: it may give its message up, and refuse it
\* then, or go on with it, with the same copy once that is being published.
LEMMA WorkerStep ==
  ASSUME IInv, TypeOK', Grows, Cached', NEW w \in Workers, NEW t,
         task' = [task EXCEPT ![w] = t], Fits(task[w])',
         \A cv \in Conversations : recent[cv] \subseteq recent'[cv],
         t.message = task[w].message \/ t.message = None,
         refused' = refused
            \/ (refused' \subseteq refused \cup {task[w].message} /\ t.message = None
                  /\ task[w].pc \notin Publishing),
         task[w].pc \in Publishing =>
            t.message = None \/ (t.pc \in Publishing /\ t.doc = task[w].doc),
         UNCHANGED <<sent, shown>>
  PROVE  IInv'
<1>1. /\ task'[w] = t
      /\ \A v \in Workers : v # w => task'[v] = task[v]
  BY DEF IInv, TypeOK
<1>2. \A v \in Workers : Fits(task[v])'
  BY OthersFit
<1>3. Handled'
  <2> SUFFICES ASSUME NEW v \in Workers, task'[v].message # None
               PROVE  /\ task'[v].message \notin refused'
                      /\ sent[task'[v].message] > 0
                      /\ \A u \in Workers : task'[u].message = task'[v].message => u = v
    BY DEF Handled
  <2>1. task'[v].message = task[v].message
    BY <1>1
  <2>2. /\ task[v].message \notin refused /\ sent[task[v].message] > 0
        /\ \A u \in Workers : task[u].message = task[v].message => u = v
    BY <2>1 DEF IInv, Handled
  <2>3. task[v].message \notin refused'
    <3>1. CASE v = w
      BY <3>1, <2>1, <2>2, <1>1
    <3>2. CASE v # w
      BY <3>2, <2>2
    <3> QED
      BY <3>1, <3>2
  <2>4. \A u \in Workers : task'[u].message = task[v].message => u = v
    BY <1>1, <2>1, <2>2
  <2> QED
    BY <2>1, <2>2, <2>3, <2>4
<1>4. \A s \in shown : s[3] \in Docs /\ store'[s[3]] = store[s[3]] /\ store[s[3]] \in Messages
  BY DocsGrow DEF IInv, TypeOK
<1>5. Shown'
  <2> SUFFICES ASSUME NEW s \in shown, New(s)
               PROVE  /\ store[s[3]] \notin refused'
                      /\ sent[store[s[3]]] > 0
                      /\ \A v \in Workers : task'[v].message = store[s[3]] =>
                            task'[v].pc \in Publishing /\ task'[v].doc = s[3]
    BY <1>4 DEF Shown, New
  <2>1. /\ store[s[3]] \notin refused /\ sent[store[s[3]]] > 0
        /\ \A v \in Workers : task[v].message = store[s[3]] =>
              task[v].pc \in Publishing /\ task[v].doc = s[3]
    BY DEF IInv, Shown
  <2>2. store[s[3]] # None
    BY <1>4, NoneAssumption
  <2>3. store[s[3]] \notin refused'
    BY <2>1
  <2>4. ASSUME NEW v \in Workers, task'[v].message = store[s[3]]
        PROVE  task'[v].pc \in Publishing /\ task'[v].doc = s[3]
    <3>1. CASE v = w
      BY <3>1, <2>1, <2>2, <2>4, <1>1
    <3>2. CASE v # w
      BY <3>2, <2>1, <2>4, <1>1
    <3> QED
      BY <3>1, <3>2
  <2> QED
    BY <2>1, <2>3, <2>4
<1>6. ShownOnce' /\ ShownDelivered'
  <2>1. marked \subseteq marked'
    BY DEF Grows
  <2>2. ShownOnce'
    BY <1>4 DEF IInv, ShownOnce
  <2>3. ShownDelivered'
    BY <2>1 DEF IInv, ShownDelivered
  <2> QED
    BY <2>2, <2>3
<1> QED
  BY <1>2, <1>3, <1>5, <1>6 DEF IInv

LEMMA Unwritten ==
  ASSUME IInv, UNCHANGED <<store, marked, sent>>
  PROVE  Grows /\ Docs' = Docs
<1>1. Len(store) \in Nat /\ store \in Seq(Messages) /\ \A m \in Messages : sent[m] \in Nat
  BY LenProperties DEF IInv, TypeOK
<1> QED
  BY <1>1 DEF Grows, Docs

LEMMA RoomsAlone ==
  ASSUME IInv, UNCHANGED <<rooms, members, recent>>
  PROVE  Cached' /\ \A cv \in Conversations : recent[cv] \subseteq recent'[cv]
  BY DEF IInv, Cached, RoomsAreMemberships, rooms

----------------------------------------------------------------------------
(* The actions of a worker, without SafeSend. *)

\* The local variables of worker w, moved on.
LEMMA Moved ==
  ASSUME IInv, NEW w \in Workers
  PROVE  /\ task[w] \in Task
         /\ \A pc \in Labels : [task[w] EXCEPT !.pc = pc] \in Task
  BY DEF IInv, TypeOK, Task

LEMMA CreateIInv ==
  ASSUME IInv, NEW w \in Workers, Create(w)
  PROVE  IInv'
<1> DEFINE m == task[w].message
           t == [task[w] EXCEPT !.pc = "update", !.attempt = 0, !.doc = Len(store) + 1]
<1>1. /\ task[w].pc = "insert" /\ store' = Append(store, m) /\ task' = [task EXCEPT ![w] = t]
      /\ UNCHANGED <<last, marked, members, rooms, clients, bounds>>
  BY DEF Create, IInv, TypeOK
<1>2. m \in Messages /\ Fits(task[w]) /\ task[w] \in Task /\ TypeOK
  BY <1>1 DEF IInv, TypeOK, Fits
<1>3. /\ store' \in Seq(Messages) /\ Len(store') = Len(store) + 1
      /\ Docs' = Docs \cup {Len(store) + 1}
      /\ \A d \in Docs : store'[d] = store[d]
      /\ store'[Len(store) + 1] = m
  BY <1>1, <1>2, AppendGrows
<1>4. Len(store) \in Nat /\ \A n \in Messages : sent[n] \in Nat
  BY <1>2, LenProperties DEF TypeOK
<1>5. "update" \in Labels /\ 0 \in 0..(MaxRetries - 1) /\ Len(store) + 1 \in Nat
  BY <1>4, BoundAssumption DEF Labels
<1>6. /\ t \in Task /\ t.pc = "update" /\ t.message = m
      /\ t.doc = Len(store) + 1 /\ t.conv = task[w].conv
  BY <1>2, <1>5 DEF Task
<1> HIDE DEF t
<1>7. UNCHANGED <<sent, refused, shown, last, marked, recent>>
  BY <1>1 DEF clients, bounds
<1>8. Grows
  BY <1>3, <1>4, <1>7 DEF Grows
<1>9. TypeOK'
  BY <1>1, <1>2, <1>3, <1>6 DEF TypeOK, rooms, clients, bounds
<1>10. Fits(task[w])'
  <2>1. task'[w] = t
    BY <1>1, <1>2 DEF TypeOK
  <2> QED
    BY <1>1, <1>2, <1>3, <1>6, <2>1 DEF Fits, Publishing, WithRoom
<1>11. Cached' /\ \A cv \in Conversations : recent[cv] \subseteq recent'[cv]
  BY <1>1, RoomsAlone DEF bounds
<1> QED
  BY <1>1, <1>6, <1>7, <1>8, <1>9, <1>10, <1>11, WorkerStep DEF Publishing

\* A step that leaves the messages and the rooms alone.
LEMMA LocalStep ==
  ASSUME IInv, NEW w \in Workers, NEW t \in Task, task' = [task EXCEPT ![w] = t], Fits(t),
         UNCHANGED <<store, marked, members, rooms, sent, shown, marks, changes, recent>>,
         lost' \in 0..MaxLost, last' \in [Conversations -> {0} \cup Docs],
         t.message = task[w].message \/ t.message = None,
         refused' = refused
            \/ (refused' \subseteq (refused \cup {task[w].message}) \cap Messages
                  /\ t.message = None /\ task[w].pc \notin Publishing),
         task[w].pc \in Publishing =>
            t.message = None \/ (t.pc \in Publishing /\ t.doc = task[w].doc)
  PROVE  IInv'
<1>1. TypeOK /\ Grows /\ Docs' = Docs
  BY Unwritten DEF IInv
<1>2. TypeOK'
  BY <1>1 DEF TypeOK, rooms
<1>3. task'[w] = t
  BY <1>1 DEF TypeOK
<1>4. Fits(task[w])'
  BY <1>1, <1>3 DEF Fits
<1>5. Cached' /\ \A cv \in Conversations : recent[cv] \subseteq recent'[cv]
  BY RoomsAlone
<1> QED
  BY <1>1, <1>2, <1>4, <1>5, WorkerStep

\* sendErrorToClient and the ends of the handlers.
LEMMA Returns ==
  Fits(Idle)
  BY IdleTyped DEF Fits, Publishing, WithRoom

LEMMA WaitIInv ==
  ASSUME IInv, NEW w \in Workers, waitForRetry(w)
  PROVE  IInv'
<1> DEFINE t == [task[w] EXCEPT !.pc = "insert"]
<1>1. /\ task[w].pc = "wait"
      /\ UNCHANGED <<store, marked, members, rooms, sent, shown, last, lost, marks, changes, recent>>
  BY DEF waitForRetry, database, bounds
<1>2. /\ task[w].message \in Messages /\ Fits(task[w]) /\ task[w] \in Task /\ TypeOK
      /\ lost \in 0..MaxLost /\ last \in [Conversations -> {0} \cup Docs]
      /\ refused \subseteq Messages
  BY <1>1 DEF IInv, TypeOK, Fits
<1>3. CASE Step(w, "insert") /\ UNCHANGED refused
  <2>1. task' = [task EXCEPT ![w] = t]
    BY <1>2, <1>3 DEF Step, TypeOK
  <2>2. t \in Task /\ t.pc = "insert" /\ t.message = task[w].message /\ t.conv = task[w].conv
    BY <1>2 DEF Task, Labels
  <2>3. Fits(t)
    BY <1>1, <1>2, <2>2 DEF Fits, Publishing, WithRoom
  <2> HIDE DEF t
  <2> QED
    BY <1>1, <1>2, <1>3, <2>1, <2>2, <2>3, LocalStep DEF Publishing
<1>4. CASE sendErrorToClient(w)
  <2>1. task' = [task EXCEPT ![w] = Idle] /\ refused' = refused \cup {task[w].message}
    BY <1>2, <1>4, NoneAssumption DEF sendErrorToClient, Return
  <2> QED
    BY <1>1, <1>2, <2>1, Returns, IdleTyped, LocalStep DEF Publishing
<1> QED
  BY <1>3, <1>4 DEF waitForRetry

LEMMA UpdateIInv ==
  ASSUME IInv, NEW w \in Workers, UpdateLastMessage(w) \/ UpdateFails(w)
  PROVE  IInv'
<1> DEFINE t == [task[w] EXCEPT !.pc = "find"]
<1>1. /\ task[w].pc = "update"
      /\ UNCHANGED <<store, marked, members, rooms, sent, shown, lost, marks, changes, recent>>
  BY DEF UpdateLastMessage, UpdateFails, clients, bounds
<1>2. /\ task[w].message \in Messages /\ Fits(task[w]) /\ task[w] \in Task /\ TypeOK
      /\ lost \in 0..MaxLost /\ last \in [Conversations -> {0} \cup Docs]
      /\ refused \subseteq Messages /\ task[w].doc \in Docs
  BY <1>1 DEF IInv, TypeOK, Fits
<1>3. last' \in [Conversations -> {0} \cup Docs]
  BY <1>2 DEF UpdateLastMessage, UpdateFails
<1>4. CASE UpdateLastMessage(w)
  <2>1. task' = [task EXCEPT ![w] = t] /\ refused' = refused
    BY <1>2, <1>4 DEF UpdateLastMessage, Step, TypeOK, clients
  <2>2. /\ t \in Task /\ t.pc = "find" /\ t.message = task[w].message
        /\ t.conv = task[w].conv /\ t.doc = task[w].doc
    BY <1>2 DEF Task, Labels
  <2>3. Fits(t)
    BY <1>1, <1>2, <2>2, NoneAssumption DEF Fits, Publishing, WithRoom
  <2> HIDE DEF t
  <2> QED
    BY <1>1, <1>2, <1>3, <2>1, <2>2, <2>3, LocalStep DEF Publishing
<1>5. CASE UpdateFails(w)
  <2>1. task' = [task EXCEPT ![w] = Idle] /\ refused' = refused \cup {task[w].message}
    BY <1>2, <1>5, NoneAssumption DEF UpdateFails, sendErrorToClient, Return
  <2> QED
    BY <1>1, <1>2, <1>3, <2>1, Returns, IdleTyped, LocalStep DEF Publishing
<1> QED
  BY <1>4, <1>5

\* Steps of publishToRoom that touch neither the rooms nor the clients.
LEMMA PublishIInv ==
  ASSUME IInv, NEW w \in Workers,
         FindRoom(w) \/ GetRoomDetail(w) \/ publishToRoom(w) \/ published(w)
  PROVE  IInv'
<1>1. /\ UNCHANGED <<store, marked, members, rooms, sent, shown, marks, changes, recent>>
      /\ lost' = lost /\ last' = last /\ refused' = refused
  BY DEF FindRoom, GetRoomDetail, publishToRoom, published, database, clients, bounds
<1>2. /\ Fits(task[w]) /\ task[w] \in Task /\ TypeOK /\ Cached
      /\ lost \in 0..MaxLost /\ last \in [Conversations -> {0} \cup Docs]
  BY DEF IInv, TypeOK
<1>3. task[w].pc \in {"find", "load", "members", "deliver"}
  BY DEF FindRoom, GetRoomDetail, publishToRoom, published
<1>4. /\ task[w].conv \in Conversations /\ task[w].doc \in Docs
      /\ task[w].message # None => store[task[w].doc] = task[w].message
      /\ task[w].message = None => task[w].doc \in marked
  BY <1>2, <1>3 DEF Fits, Publishing
<1>5. ASSUME NEW t \in Task, task' = [task EXCEPT ![w] = t],
             t.pc \in Publishing, t.message = task[w].message, t.doc = task[w].doc,
             t.conv = task[w].conv,
             t.pc \in WithRoom => t.room \in Rooms,
             t.pc = "set" => t.users \in recent[t.conv]
      PROVE  IInv'
  <2>1. Fits(t)
    BY <1>4, <1>5 DEF Fits, Publishing
  <2> QED
    BY <1>1, <1>2, <1>5, <2>1, LocalStep
<1>6. ASSUME task' = [task EXCEPT ![w] = Idle] PROVE IInv'
  BY <1>1, <1>2, <1>6, Returns, IdleTyped, LocalStep
<1>7. CASE FindRoom(w)
  <2> DEFINE r == cache[task[w].conv]
             pc == IF r = None THEN "load" ELSE "touch"
             t == [task[w] EXCEPT !.pc = pc, !.room = r]
  <2>1. task' = [task EXCEPT ![w] = t]
    BY <1>2, <1>7 DEF FindRoom, TypeOK
  <2>2. r \in Rooms \cup {None} /\ pc \in {"load", "touch"} /\ (pc = "touch" => r \in Rooms)
    BY <1>2, <1>4 DEF TypeOK
  <2> HIDE DEF r, pc
  <2>3. /\ t \in Task /\ t.pc = pc /\ t.message = task[w].message /\ t.doc = task[w].doc
        /\ t.conv = task[w].conv /\ t.room = r
    BY <1>2, <2>2 DEF Task, Labels
  <2> HIDE DEF t
  <2> QED
    BY <1>5, <2>1, <2>2, <2>3 DEF Publishing, WithRoom
<1>8. CASE GetRoomDetail(w)
  <2> DEFINE t == [task[w] EXCEPT !.pc = "set", !.users = members[task[w].conv]]
  <2>1. task' = [task EXCEPT ![w] = t] \/ task' = [task EXCEPT ![w] = Idle]
    BY <1>2, <1>8 DEF GetRoomDetail, Return, TypeOK
  <2>2. members[task[w].conv] \in SUBSET Users /\ members[task[w].conv] \in recent[task[w].conv]
    BY <1>2, <1>4, MembersAssumption DEF TypeOK, Cached
  <2>3. /\ t \in Task /\ t.pc = "set" /\ t.message = task[w].message /\ t.doc = task[w].doc
        /\ t.conv = task[w].conv /\ t.users = members[task[w].conv]
    BY <1>2, <2>2 DEF Task, Labels
  <2> HIDE DEF t
  <2> QED
    BY <1>5, <1>6, <2>1, <2>2, <2>3 DEF Publishing, WithRoom
<1>9. CASE publishToRoom(w)
  <2> DEFINE t == [task[w] EXCEPT !.pc = "deliver", !.room = None,
                                  !.users = room[task[w].room].members]
  <2>1. task' = [task EXCEPT ![w] = t]
    BY <1>2, <1>9 DEF publishToRoom, TypeOK
  <2>2. task[w].room \in Rooms
    BY <1>2, <1>9 DEF publishToRoom, Fits, WithRoom
  <2>3. room[task[w].room].members \in SUBSET Users
    BY <1>2, <2>2 DEF TypeOK
  <2>4. /\ t \in Task /\ t.pc = "deliver" /\ t.message = task[w].message /\ t.doc = task[w].doc
        /\ t.conv = task[w].conv
    BY <1>2, <2>3 DEF Task, Labels
  <2> HIDE DEF t
  <2> QED
    BY <1>5, <2>1, <2>4 DEF Publishing, WithRoom
<1>10. CASE published(w)
  BY <1>6, <1>10 DEF published, Return
<1> QED
  BY <1>7, <1>8, <1>9, <1>10

LEMMA CreateFailsIInv ==
  ASSUME IInv, NEW w \in Workers, CreateFails(w)
  PROVE  IInv'
<1> DEFINE m == task[w].message
           t == [task[w] EXCEPT !.pc = "wait", !.attempt = @ + 1]
<1>1. /\ task[w].pc = "insert"
      /\ UNCHANGED <<last, marked, members, rooms, sent, shown, marks, changes, recent>>
  BY DEF CreateFails
<1>2. /\ m \in Messages /\ Fits(task[w]) /\ task[w] \in Task /\ TypeOK
      /\ lost \in 0..MaxLost /\ refused \subseteq Messages
  BY <1>1 DEF IInv, TypeOK, Fits
<1>3. lost' \in 0..MaxLost
  BY <1>2, BoundAssumption DEF CreateFails
<1>4. store' = store \/ store' = Append(store, m)
  BY DEF CreateFails
<1>5. store' \in Seq(Messages) /\ Docs \subseteq Docs' /\ Grows
  <2>1. Len(store) \in Nat /\ \A n \in Messages : sent[n] \in Nat
    BY <1>2, LenProperties DEF TypeOK
  <2>2. CASE store' = store
    BY <1>1, <1>2, <2>1, <2>2 DEF Grows, Docs, TypeOK
  <2>3. CASE store' = Append(store, m)
    <3>1. /\ store' \in Seq(Messages) /\ Len(store') = Len(store) + 1
          /\ Docs' = Docs \cup {Len(store) + 1}
          /\ \A d \in Docs : store'[d] = store[d]
      BY <1>2, <2>3, AppendGrows
    <3>2. /\ Len(store') >= Len(store) /\ marked \subseteq marked'
          /\ \A n \in Messages : sent'[n] >= sent[n]
      BY <1>1, <2>1, <3>1
    <3> QED
      BY <3>1, <3>2 DEF Grows
  <2> QED
    BY <1>4, <2>2, <2>3
<1>6. ASSUME NEW s \in Task, task' = [task EXCEPT ![w] = s], Fits(s),
             s.pc \in {"wait", "idle"}, s.message \in {m, None},
             refused' = refused \/ (refused' = refused \cup {m} /\ s.message = None)
      PROVE  IInv'
  <2>1. TypeOK'
    BY <1>1, <1>2, <1>3, <1>5, <1>6 DEF TypeOK, rooms
  <2>2. task'[w] = s
    BY <1>2, <1>6 DEF TypeOK
  <2>3. Fits(task[w])'
    BY <1>6, <2>2 DEF Fits, Publishing, WithRoom
  <2>4. Cached' /\ \A cv \in Conversations : recent[cv] \subseteq recent'[cv]
    BY <1>1, RoomsAlone
  <2> QED
    BY <1>1, <1>5, <1>6, <2>1, <2>3, <2>4, WorkerStep DEF Publishing
<1>7. CASE TriesAgain(w) /\ task' = [task EXCEPT ![w].pc = "wait", ![w].attempt = @ + 1]
           /\ UNCHANGED refused
  <2>1. task' = [task EXCEPT ![w] = t]
    BY <1>2, <1>7 DEF TypeOK
  <2>2. task[w].attempt + 1 \in 0..(MaxRetries - 1)
    BY <1>2, <1>7, BoundAssumption DEF TriesAgain, Task
  <2>3. t \in Task /\ t.pc = "wait" /\ t.message = m /\ t.conv = task[w].conv
    BY <1>2, <2>2 DEF Task, Labels
  <2>4. Fits(t)
    BY <1>1, <1>2, <2>3 DEF Fits, Publishing, WithRoom
  <2> HIDE DEF t
  <2> QED
    BY <1>6, <1>7, <2>1, <2>3, <2>4
<1>8. CASE sendErrorToClient(w)
  <2>1. task' = [task EXCEPT ![w] = Idle] /\ refused' = refused \cup {m}
    BY <1>2, <1>8, NoneAssumption DEF sendErrorToClient, Return
  <2> QED
    BY <1>6, <2>1, Returns, IdleTyped
<1> QED
  BY <1>7, <1>8 DEF CreateFails

LEMMA MarkIInv ==
  ASSUME IInv, NEW w \in Workers, UpdateMessageDelivery(w)
  PROVE  IInv'
<1> DEFINE t == [task[w] EXCEPT !.pc = "find"]
<1>1. /\ task[w].pc = "mark" /\ marked' \in {marked, marked \cup {task[w].doc}}
      /\ UNCHANGED <<store, last, members, rooms, sent, refused, shown, recent, lost, marks, changes>>
  BY DEF UpdateMessageDelivery, clients, bounds
<1>2. /\ Fits(task[w]) /\ task[w] \in Task /\ TypeOK
      /\ task[w].message = None /\ task[w].doc \in Docs /\ task[w].conv \in Conversations
  BY <1>1 DEF IInv, TypeOK, Fits
<1>3. Grows /\ Docs' = Docs
  <2>1. Len(store) \in Nat /\ store \in Seq(Messages) /\ \A n \in Messages : sent[n] \in Nat
    BY <1>2, LenProperties DEF TypeOK
  <2> QED
    BY <1>1, <2>1 DEF Grows, Docs
<1>4. Cached' /\ \A cv \in Conversations : recent[cv] \subseteq recent'[cv]
  BY <1>1, RoomsAlone
<1>5. ASSUME NEW s \in Task, task' = [task EXCEPT ![w] = s], s.message = None, Fits(s)'
      PROVE  IInv'
  <2>1. TypeOK'
    BY <1>1, <1>2, <1>3, <1>5 DEF TypeOK, rooms
  <2>2. task'[w] = s
    BY <1>2, <1>5 DEF TypeOK
  <2>3. Fits(task[w])'
    BY <1>5, <2>2 DEF Fits
  <2> QED
    BY <1>1, <1>3, <1>4, <1>5, <2>1, <2>3, WorkerStep
<1>6. CASE marked' = marked \cup {task[w].doc} /\ Step(w, "find")
  <2>1. task' = [task EXCEPT ![w] = t]
    BY <1>2, <1>6 DEF Step, TypeOK
  <2>2. t \in Task /\ t.pc = "find" /\ t.message = None /\ t.conv = task[w].conv
        /\ t.doc = task[w].doc
    BY <1>2 DEF Task, Labels
  <2> HIDE DEF t
  <2>3. PICK s \in Task : s = t
    BY <2>2
  <2>4. s.pc = "find" /\ s.message = None /\ s.conv \in Conversations /\ s.doc = task[w].doc
    BY <1>2, <2>2, <2>3
  <2>5. Fits(s)'
    BY <1>2, <1>3, <1>6, <2>4 DEF Fits, Publishing, WithRoom
  <2> QED
    BY <1>5, <2>1, <2>3, <2>4, <2>5
<1>7. CASE Return(w)
  <2>1. Fits(Idle)' /\ Idle \in Task /\ Idle.message = None
    BY IdleTyped DEF Fits, Publishing, WithRoom
  <2> QED
    BY <1>5, <1>7, <2>1 DEF Return
<1> QED
  BY <1>6, <1>7 DEF UpdateMessageDelivery

LEMMA HandleIInv ==
  ASSUME IInv, NEW w \in Workers, NEW d \in Docs, Handle(w, d)
  PROVE  IInv'
<1> DEFINE t == [Idle EXCEPT !.pc = "mark", !.doc = d, !.conv = ConvOf[store[d]]]
<1>1. /\ task[w] = Idle /\ task' = [task EXCEPT ![w] = t]
      /\ marks < MaxMarks /\ marks' = marks + 1
      /\ UNCHANGED <<store, last, marked, members, rooms, sent, refused, shown, lost, changes, recent>>
  BY DEF Handle, database, clients
<1>2. TypeOK /\ Len(store) \in Nat /\ d \in Nat /\ ConvOf[store[d]] \in Conversations
  <2>1. store[d] \in Messages
    BY ElementOfSeq DEF IInv, TypeOK, Docs
  <2> QED
    BY <2>1, LenProperties, ConvAssumption DEF IInv, TypeOK, Docs
<1>3. t \in Task /\ t.pc = "mark" /\ t.message = None /\ t.conv \in Conversations /\ t.doc = d
  BY <1>2, IdleTyped DEF Task, Labels, Idle
<1> HIDE DEF t
<1>4. Grows /\ Docs' = Docs
  BY <1>1, Unwritten
<1>5. marks' \in 0..MaxMarks
  BY <1>1, <1>2, BoundAssumption DEF TypeOK
<1>6. TypeOK'
  BY <1>1, <1>2, <1>3, <1>4, <1>5 DEF TypeOK, rooms
<1>7. task'[w] = t
  BY <1>1, <1>2 DEF TypeOK
<1>8. Fits(task[w])'
  BY <1>3, <1>4, <1>7 DEF Fits, Publishing, WithRoom
<1>9. Cached' /\ \A cv \in Conversations : recent[cv] \subseteq recent'[cv]
  BY <1>1, RoomsAlone
<1> QED
  BY <1>1, <1>3, <1>4, <1>6, <1>8, <1>9, IdleTyped, WorkerStep DEF Publishing

----------------------------------------------------------------------------
(* The steps that change a room. *)

LEMMA RoomStep ==
  ASSUME IInv, NEW w \in Workers, NEW t \in Task, task' = [task EXCEPT ![w] = t],
         UNCHANGED <<database, clients, bounds>>, Cached',
         cache' \in [Conversations -> Rooms \cup {None}],
         room' \in [Rooms -> [members : SUBSET Users, expired : BOOLEAN]],
         t.message = task[w].message, t.doc = task[w].doc, t.conv = task[w].conv,
         task[w].pc \in Publishing, t.pc \in WithRoom, t.room \in Rooms
  PROVE  IInv'
<1>1. /\ UNCHANGED <<store, last, marked, members, sent, refused, shown>>
      /\ UNCHANGED <<lost, marks, changes, recent>>
  BY DEF database, clients, bounds
<1>2. /\ Fits(task[w]) /\ TypeOK /\ Grows /\ Docs' = Docs
  BY <1>1, Unwritten DEF IInv
<1>3. TypeOK'
  BY <1>1, <1>2 DEF TypeOK
<1>4. task'[w] = t
  BY <1>2 DEF TypeOK
<1>5. Fits(task[w])'
  BY <1>1, <1>2, <1>4 DEF Fits, Publishing, WithRoom
<1> QED
  BY <1>1, <1>2, <1>3, <1>5, WorkerStep DEF Publishing, WithRoom

LEMMA TouchIInv ==
  ASSUME IInv, NEW w \in Workers, touch(w)
  PROVE  IInv'
<1> DEFINE t == [task[w] EXCEPT !.pc = "members"]
<1>1. /\ task[w].pc = "touch" /\ room' = [room EXCEPT ![task[w].room].expired = FALSE]
      /\ UNCHANGED <<database, clients, bounds>> /\ cache' = cache
      /\ UNCHANGED <<members, recent>>
  BY DEF touch, database, bounds
<1>2. /\ Fits(task[w]) /\ task[w] \in Task /\ TypeOK /\ Cached /\ task[w].room \in Rooms
  BY <1>1 DEF IInv, TypeOK, Fits, WithRoom
<1>3. task' = [task EXCEPT ![w] = t]
  BY <1>2 DEF touch, Step, TypeOK
<1>4. /\ t \in Task /\ t.pc = "members" /\ t.message = task[w].message /\ t.doc = task[w].doc
      /\ t.conv = task[w].conv /\ t.room = task[w].room
  BY <1>2 DEF Task, Labels
<1> HIDE DEF t
<1>5. /\ room' \in [Rooms -> [members : SUBSET Users, expired : BOOLEAN]]
      /\ \A r \in Rooms : room'[r].members = room[r].members
  BY <1>1, <1>2 DEF TypeOK
<1>6. \A cv \in Conversations : cache[cv] # None => cache[cv] \in Rooms
  BY <1>2 DEF TypeOK
<1>7. Cached'
  BY <1>1, <1>2, <1>5, <1>6 DEF Cached, RoomsAreMemberships
<1>8. cache' \in [Conversations -> Rooms \cup {None}]
  BY <1>1, <1>2 DEF TypeOK
<1> QED
  BY <1>1, <1>2, <1>3, <1>4, <1>5, <1>7, <1>8, RoomStep DEF Publishing, WithRoom

LEMMA SetIInv ==
  ASSUME IInv, NEW w \in Workers, SetRoomMembers(w)
  PROVE  IInv'
<1> DEFINE cv == task[w].conv
<1>1. PICK r \in Rooms :
        /\ IF cache[cv] = None THEN Fresh(r) ELSE r = cache[cv]
        /\ cache' = [cache EXCEPT ![cv] = r]
        /\ room' = [room EXCEPT ![r] = [members |-> MembersSet(w, r), expired |-> FALSE]]
        /\ task' = [task EXCEPT ![w].pc = "touch", ![w].room = r, ![w].users = {}]
  BY DEF SetRoomMembers
<1> DEFINE t == [task[w] EXCEPT !.pc = "touch", !.room = r, !.users = {}]
<1>2. /\ task[w].pc = "set" /\ UNCHANGED <<database, clients, bounds>>
      /\ UNCHANGED <<members, recent>>
  BY DEF SetRoomMembers, database, bounds
<1>3. /\ Fits(task[w]) /\ task[w] \in Task /\ TypeOK /\ Cached
      /\ cv \in Conversations /\ task[w].users \in recent[cv]
  BY <1>2 DEF IInv, TypeOK, Fits
<1>4. task[w].users \in SUBSET Users
  BY <1>3 DEF Task
<1>5. task' = [task EXCEPT ![w] = t]
  BY <1>1, <1>3 DEF TypeOK
<1>6. /\ t \in Task /\ t.pc = "touch" /\ t.message = task[w].message /\ t.doc = task[w].doc
      /\ t.conv = cv /\ t.room = r
  BY <1>3 DEF Task, Labels
<1> HIDE DEF t
<1>7. /\ room' \in [Rooms -> [members : SUBSET Users, expired : BOOLEAN]]
      /\ room'[r].members = task[w].users
      /\ \A q \in Rooms : q # r => room'[q] = room[q]
  BY <1>1, <1>3, <1>4 DEF TypeOK, MembersSet
<1>8. /\ cache' \in [Conversations -> Rooms \cup {None}] /\ cache'[cv] = r
      /\ \A c \in Conversations : c # cv => cache'[c] = cache[c]
  BY <1>1, <1>3 DEF TypeOK
<1>9. \A c \in Conversations : c # cv => cache[c] # r
  BY <1>1, <1>3, NoneAssumption DEF Fresh, Cached
<1>10. Cached'
  <2>1. ASSUME NEW c \in Conversations, cache'[c] # None
        PROVE  room'[cache'[c]].members \in recent'[c]
    <3>1. CASE c = cv
      BY <3>1, <1>2, <1>3, <1>7, <1>8
    <3>2. CASE c # cv
      <4>1. cache'[c] = cache[c] /\ cache[c] \in Rooms /\ cache[c] # r
        BY <3>2, <2>1, <1>3, <1>8, <1>9 DEF TypeOK
      <4>2. room'[cache[c]] = room[cache[c]]
        BY <4>1, <1>7
      <4> QED
        BY <4>1, <4>2, <2>1, <1>2, <1>3 DEF Cached, RoomsAreMemberships
    <3> QED
      BY <3>1, <3>2
  <2>2. \A c, d \in Conversations : cache'[c] # None /\ cache'[c] = cache'[d] => c = d
    BY <1>3, <1>8, <1>9 DEF Cached
  <2>3. \A c \in Conversations : members'[c] \in recent'[c]
    BY <1>2, <1>3 DEF Cached
  <2> QED
    BY <2>1, <2>2, <2>3 DEF Cached, RoomsAreMemberships
<1> QED
  BY <1>2, <1>3, <1>5, <1>6, <1>7, <1>8, <1>10, RoomStep DEF Publishing, WithRoom

----------------------------------------------------------------------------
(* Time and other services. *)

\* A step of nobody in the hub.
LEMMA OutsideStep ==
  ASSUME IInv, UNCHANGED <<store, last, marked, task, clients, lost, marks>>,
         TypeOK', Cached',
         \A w \in Workers : task[w].pc = "set" =>
            recent[task[w].conv] \subseteq recent'[task[w].conv]
  PROVE  IInv'
<1>1. Docs' = Docs /\ UNCHANGED <<sent, refused, shown>>
  BY DEF Docs, clients
<1>2. \A w \in Workers : Fits(task[w])'
  BY <1>1 DEF IInv, Fits
<1> QED
  BY <1>1, <1>2 DEF IInv, Handled, Shown, ShownOnce, ShownDelivered

LEMMA ExpireIInv ==
  ASSUME IInv, (\E r \in Rooms : Expire(r)) \/ (\E cv \in Conversations : evictExpiredRooms(cv))
  PROVE  IInv'
<1>1. /\ UNCHANGED <<store, last, marked, members, task, clients, lost, marks, changes, recent>>
      /\ UNCHANGED <<sent, refused, shown>>
  BY DEF Expire, evictExpiredRooms, database, clients, bounds
<1>2. TypeOK /\ Cached
  BY DEF IInv
<1>3. /\ room' \in [Rooms -> [members : SUBSET Users, expired : BOOLEAN]]
      /\ \A r \in Rooms : room'[r].members = room[r].members
  <2>1. CASE \E cv \in Conversations : evictExpiredRooms(cv)
    BY <1>2, <2>1 DEF evictExpiredRooms, TypeOK
  <2>2. ASSUME NEW r \in Rooms, Expire(r)
        PROVE  /\ room' \in [Rooms -> [members : SUBSET Users, expired : BOOLEAN]]
               /\ \A q \in Rooms : room'[q].members = room[q].members
    BY <1>2, <2>2 DEF Expire, TypeOK
  <2> QED
    BY <2>1, <2>2
<1>4. /\ cache' \in [Conversations -> Rooms \cup {None}]
      /\ \A cv \in Conversations : cache'[cv] = cache[cv] \/ cache'[cv] = None
  BY <1>2 DEF Expire, evictExpiredRooms, TypeOK
<1>5. Docs' = Docs
  BY <1>1 DEF Docs
<1>6. TypeOK'
  BY <1>1, <1>2, <1>3, <1>4, <1>5 DEF TypeOK
<1>7. \A cv \in Conversations : cache[cv] # None => cache[cv] \in Rooms
  BY <1>2 DEF TypeOK
<1>8. Cached'
  BY <1>1, <1>2, <1>3, <1>4, <1>7 DEF Cached, RoomsAreMemberships
<1> QED
  BY <1>1, <1>6, <1>8, OutsideStep

LEMMA ChangeIInv ==
  ASSUME IInv, NEW cv \in Conversations, NEW S \in Memberships, ChangeMembers(cv, S)
  PROVE  IInv'
<1>1. /\ changes < MaxChanges /\ changes' = changes + 1
      /\ members' = [members EXCEPT ![cv] = S]
      /\ recent' = [recent EXCEPT ![cv] = IF Unknown(cv) THEN {S} ELSE @ \cup {S}]
      /\ UNCHANGED <<store, last, marked, rooms, task, clients, lost, marks>>
      /\ UNCHANGED <<cache, room, sent, refused, shown>>
  BY DEF ChangeMembers, rooms, clients
<1>2. TypeOK /\ Cached
  BY DEF IInv
<1>3. changes' \in 0..MaxChanges
  BY <1>1, <1>2, BoundAssumption DEF TypeOK
<1>4. /\ recent' \in [Conversations -> SUBSET Memberships]
      /\ \A c \in Conversations : c # cv => recent'[c] = recent[c] /\ members'[c] = members[c]
      /\ S \in recent'[cv] /\ members'[cv] = S
      /\ ~Unknown(cv) => recent[cv] \subseteq recent'[cv]
  BY <1>1, <1>2 DEF TypeOK
<1>5. TypeOK'
  BY <1>1, <1>2, <1>3, <1>4 DEF TypeOK, Docs
<1>6. Cached'
  BY <1>1, <1>2, <1>4 DEF Cached, RoomsAreMemberships, Unknown
<1>7. ASSUME NEW w \in Workers, task[w].pc = "set"
      PROVE  recent[task[w].conv] \subseteq recent'[task[w].conv]
  <2>1. task[w].conv \in Conversations
    BY <1>7 DEF IInv, Fits
  <2> QED
    BY <1>4, <1>7, <2>1 DEF Unknown
<1> QED
  BY <1>1, <1>5, <1>6, <1>7, OutsideStep

----------------------------------------------------------------------------
(* The steps that meet the users. *)

LEMMA SendIInv ==
  ASSUME IInv, NEW w \in Workers, SafeSend(w)
  PROVE  IInv'
<1>1. PICK u \in task[w].users :
        /\ task' = [task EXCEPT ![w].users = @ \ {u}]
        /\ shown' \in {shown, shown \cup {<<u, EventOf(w), task[w].doc>>}}
  BY DEF SafeSend
<1> DEFINE t == [task[w] EXCEPT !.users = @ \ {u}]
           new == <<u, EventOf(w), task[w].doc>>
<1>2. /\ task[w].pc = "deliver"
      /\ UNCHANGED <<store, last, marked, members, rooms, sent, refused, lost, marks, changes, recent>>
  BY DEF SafeSend, database, bounds
<1>3. /\ Fits(task[w]) /\ task[w] \in Task /\ TypeOK
      /\ task[w].doc \in Docs /\ u \in Users
  BY <1>1, <1>2 DEF IInv, TypeOK, Fits, Publishing, Task
<1>4. task' = [task EXCEPT ![w] = t] /\ t \in Task /\ t.message = task[w].message
      /\ t.pc = task[w].pc /\ t.doc = task[w].doc /\ t.conv = task[w].conv
  BY <1>1, <1>3 DEF TypeOK, Task
<1> HIDE DEF t
<1>5. /\ Grows /\ Docs' = Docs
      /\ Cached' /\ \A cv \in Conversations : recent[cv] \subseteq recent'[cv]
  BY <1>2, Unwritten, RoomsAlone
<1>6. shown' \subseteq Users \X {"new_message", "message_delivered"} \X Docs
  BY <1>1, <1>3 DEF TypeOK, EventOf
<1>7. TypeOK'
  BY <1>2, <1>3, <1>4, <1>5, <1>6 DEF TypeOK, rooms
<1>8. \A v \in Workers : /\ task'[v].message = task[v].message
                         /\ task'[v].pc = task[v].pc /\ task'[v].doc = task[v].doc
  BY <1>3, <1>4 DEF TypeOK
<1>9. \A v \in Workers : Fits(task[v])'
  <2>1. task'[w] = t
    BY <1>3, <1>4 DEF TypeOK
  <2>2. Fits(task[w])'
    BY <1>2, <1>3, <1>4, <1>5, <2>1 DEF Fits, Publishing, WithRoom
  <2> QED
    BY <1>4, <1>5, <2>2, OthersFit
<1>10. Handled'
  BY <1>2, <1>8 DEF IInv, Handled
<1>11. \A s \in shown' : s \in shown \/ s = new
  BY <1>1
<1>12. New(new) => /\ task[w].message # None /\ store[task[w].doc] = task[w].message
                   /\ task[w].message \notin refused /\ sent[task[w].message] > 0
                   /\ \A v \in Workers : task[v].message = task[w].message => v = w
  BY <1>2, <1>3 DEF New, EventOf, Fits, Publishing, IInv, Handled
<1>13. new[1] = u /\ new[2] = EventOf(w) /\ new[3] = task[w].doc
  OBVIOUS
<1> HIDE DEF new
<1>14. Shown'
  <2> SUFFICES ASSUME NEW s \in shown', New(s)
               PROVE  /\ store[s[3]] \notin refused
                      /\ sent[store[s[3]]] > 0
                      /\ \A v \in Workers : task'[v].message = store[s[3]] =>
                            task'[v].pc \in Publishing /\ task'[v].doc = s[3]
    BY <1>2 DEF Shown, New
  <2>1. CASE s \in shown
    BY <1>8, <2>1 DEF IInv, Shown
  <2>2. CASE s = new
    BY <1>2, <1>8, <1>12, <1>13, <2>2 DEF Publishing
  <2> QED
    BY <1>11, <2>1, <2>2
<1>15. ShownOnce'
  <2> SUFFICES ASSUME NEW r \in shown', NEW s \in shown', New(r), New(s),
                      r[1] = s[1], store[r[3]] = store[s[3]]
               PROVE  r[3] = s[3]
    BY <1>2 DEF ShownOnce, New
  <2>1. CASE r \in shown /\ s \in shown
    BY <2>1 DEF IInv, ShownOnce, New
  <2>2. ASSUME NEW q \in shown, New(q), New(new), store[q[3]] = store[new[3]]
        PROVE  q[3] = new[3]
    BY <1>12, <1>13, <2>2 DEF IInv, Shown
  <2> QED
    BY <1>11, <2>1, <2>2
<1>16. ShownDelivered'
  <2>1. EventOf(w) = "message_delivered" => task[w].doc \in marked
    BY <1>2, <1>3 DEF EventOf, Fits, Publishing
  <2> QED
    BY <1>2, <1>11, <1>13, <2>1 DEF IInv, ShownDelivered
<1> QED
  BY <1>5, <1>7, <1>9, <1>10, <1>14, <1>15, <1>16 DEF IInv

LEMMA HandleEventIInv ==
  ASSUME IInv, NEW w \in Workers, NEW m \in Messages, handleEvent(w, m)
  PROVE  IInv'
<1> DEFINE t == [Idle EXCEPT !.pc = "insert", !.message = m, !.conv = ConvOf[m]]
<1>1. /\ task[w] = Idle /\ task' = [task EXCEPT ![w] = t]
      /\ sent[m] = 0 \/ (m \in refused /\ sent[m] < MaxSends[m])
      /\ sent' = [sent EXCEPT ![m] = @ + 1]
      /\ refused' = refused \ {m}
      /\ UNCHANGED <<store, last, marked, members, rooms, shown, lost, marks, changes, recent>>
  BY DEF handleEvent, database, bounds
<1>2. TypeOK
  BY DEF IInv
<1>3. /\ t \in Task /\ t.pc = "insert" /\ t.message = m /\ t.conv \in Conversations
  BY ConvAssumption, IdleTyped DEF Task, Labels, Idle
<1> HIDE DEF t
<1>4. /\ sent' \in [Messages -> Nat] /\ \A n \in Messages : sent'[n] <= MaxSends[n]
      /\ sent'[m] > 0 /\ \A n \in Messages : sent'[n] >= sent[n] /\ sent[n] \in Nat
  <2>1. sent[m] \in Nat /\ MaxSends[m] \in Nat \ {0}
    BY <1>2, BoundAssumption DEF TypeOK
  <2>2. sent[m] + 1 <= MaxSends[m]
    BY <1>1, <2>1
  <2> QED
    BY <1>1, <1>2, <2>1, <2>2 DEF TypeOK
<1>5. Docs' = Docs /\ Grows
  <2>1. Len(store) \in Nat /\ store \in Seq(Messages)
    BY <1>2, LenProperties DEF TypeOK
  <2> QED
    BY <1>1, <1>4, <2>1 DEF Docs, Grows
<1>6. TypeOK'
  BY <1>1, <1>2, <1>3, <1>4, <1>5 DEF TypeOK, rooms
<1>7. task'[w] = t /\ \A v \in Workers : v # w => task'[v] = task[v]
  BY <1>1, <1>2 DEF TypeOK
<1>8. Cached' /\ \A cv \in Conversations : recent[cv] \subseteq recent'[cv]
  BY <1>1, RoomsAlone
<1>9. \A v \in Workers : Fits(task[v])'
  <2>1. Fits(task[w])'
    BY <1>3, <1>7 DEF Fits, Publishing, WithRoom
  <2> QED
    BY <1>1, <1>5, <1>8, <2>1, OthersFit
<1>10. \A v \in Workers : task[v].message # m
  BY <1>1, <1>2, NoneAssumption DEF IInv, Handled
<1>11. Handled'
  <2> SUFFICES ASSUME NEW v \in Workers, task'[v].message # None
               PROVE  /\ task'[v].message \notin refused' /\ sent'[task'[v].message] > 0
                      /\ \A x \in Workers : task'[x].message = task'[v].message => x = v
    BY DEF Handled
  <2>1. CASE v = w
    BY <1>1, <1>3, <1>4, <1>7, <1>10, <2>1
  <2>2. CASE v # w
    <3>1. task[v].message \in Messages
      BY <1>2, <1>7, <2>2 DEF TypeOK, Task
    <3>2. /\ task[v].message \notin refused /\ sent[task[v].message] > 0
          /\ \A x \in Workers : task[x].message = task[v].message => x = v
      BY <1>7, <2>2 DEF IInv, Handled
    <3>3. sent'[task[v].message] > 0
      BY <1>4, <3>1, <3>2
    <3> QED
      BY <1>1, <1>3, <1>7, <1>10, <2>2, <3>2, <3>3
  <2> QED
    BY <2>1, <2>2
<1>12. \A s \in shown : New(s) => store[s[3]] # m /\ store[s[3]] \in Messages
  <2>1. \A s \in shown : s[3] \in Docs
    BY <1>2 DEF TypeOK
  <2> QED
    BY <1>1, <1>2, <1>5, <2>1, DocsGrow DEF IInv, Shown
<1>13. Shown'
  <2> SUFFICES ASSUME NEW s \in shown, New(s)
               PROVE  /\ store[s[3]] \notin refused' /\ sent'[store[s[3]]] > 0
                      /\ \A v \in Workers : task'[v].message = store[s[3]] =>
                            task'[v].pc \in Publishing /\ task'[v].doc = s[3]
    BY <1>1 DEF Shown, New
  <2>1. store[s[3]] # m /\ store[s[3]] \in Messages
    BY <1>12
  <2>2. /\ store[s[3]] \notin refused /\ sent[store[s[3]]] > 0
        /\ \A v \in Workers : task[v].message = store[s[3]] =>
              task[v].pc \in Publishing /\ task[v].doc = s[3]
    BY DEF IInv, Shown
  <2>3. sent'[store[s[3]]] > 0
    BY <1>4, <2>1, <2>2
  <2> QED
    BY <1>1, <1>3, <1>7, <2>1, <2>2, <2>3
<1>14. ShownOnce' /\ ShownDelivered'
  BY <1>1 DEF IInv, ShownOnce, ShownDelivered
<1> QED
  BY <1>6, <1>8, <1>9, <1>11, <1>13, <1>14 DEF IInv

LEMMA NextIInv == IInv /\ [Next]_vars => IInv'
<1> SUFFICES ASSUME IInv, [Next]_vars PROVE IInv'
  OBVIOUS
<1>1. CASE UNCHANGED vars
  BY <1>1 DEF vars, database, rooms, clients, bounds, IInv, TypeOK, Fits, Docs, Handled, Shown,
     ShownOnce, ShownDelivered, Cached, RoomsAreMemberships
<1>2. ASSUME NEW w \in Workers, Work(w) PROVE IInv'
  BY <1>2, CreateIInv, CreateFailsIInv, WaitIInv, UpdateIInv, MarkIInv, PublishIInv,
     TouchIInv, SetIInv, SendIInv DEF Work, Save, Publish
<1> QED
  BY <1>1, <1>2, HandleEventIInv, HandleIInv, ExpireIInv, ChangeIInv DEF Next

----------------------------------------------------------------------------
(* The theorems. *)

\* The inductive invariant.
THEOREM Invariance == Spec => []IInv
  BY InitIInv, NextIInv, PTL DEF Spec

\* The shape of the state; whatever fails, only stored messages are referred to.
THEOREM TypeCorrect == Spec => []TypeOK
<1>1. IInv => TypeOK
  BY DEF IInv
<1> QED
  BY <1>1, Invariance, PTL

\* While its sender is told that a message was not saved, no copy of it has been
\* shown to anybody (handleEvent, sendErrorToClient).
THEOREM RefusedHidden == Spec => []RefusedNotShown
<1>1. IInv => RefusedNotShown
  BY DEF IInv, Shown, New, RefusedNotShown
<1> QED
  BY <1>1, Invariance, PTL

\* However often inserts are repeated and messages sent again, nobody is shown two
\* copies of one message (InsertMessage, publishToRoom).
THEOREM NoSecondCopy == Spec => []ShownOnce
<1>1. IInv => ShownOnce
  BY DEF IInv
<1> QED
  BY <1>1, Invariance, PTL

\* A delivery is announced after it was recorded (MarkDeliveredHandler.Handle).
THEOREM DeliveriesRecorded == Spec => []ShownDelivered
<1>1. IInv => ShownDelivered
  BY DEF IInv
<1> QED
  BY <1>1, Invariance, PTL

\* A cached room holds one membership that the conversation has had since the hub
\* last knew none (SetRoomMembers, evictExpiredRooms).
THEOREM RoomsCorrect == Spec => []RoomsAreMemberships
<1>1. IInv => RoomsAreMemberships
  BY DEF IInv, Cached
<1> QED
  BY <1>1, Invariance, PTL

----------------------------------------------------------------------------
(* The implementation of MessageLifecycle. *)

Hidden == <<store, refused, sent, shown>>

\* A message whose insert or update is on its way is open, and nobody was shown it.
LEMMA InHand ==
  ASSUME IInv, NEW w \in Workers, task[w].pc \in {"insert", "wait", "update"}
  PROVE  /\ task[w].message \in Messages
         /\ Lifecycle!Open(task[w].message) /\ Lifecycle!Unseen(task[w].message)
<1> DEFINE m == task[w].message
<1>1. m \in Messages /\ m # None
  BY NoneAssumption DEF IInv, Fits
<1>2. m \in Written /\ m \notin refused
  BY <1>1 DEF IInv, Handled, Written
<1>3. ASSUME NEW s \in shown, New(s) PROVE store[s[3]] # m
  BY <1>3 DEF IInv, Shown, Publishing
<1>4. \A q \in Seen : store[q[2]] # m
  BY <1>3 DEF Seen, New
<1> QED
  BY <1>1, <1>2, <1>4 DEF Lifecycle!Open, Lifecycle!Unseen

\* Steps that concern no message.
LEMMA HiddenStep ==
  ASSUME UNCHANGED Hidden
  PROVE  [Lifecycle!Next]_(Lifecycle!vars)
  BY DEF Hidden, Lifecycle!vars, Written, Seen

\* A step of an insert or an update, which may store a copy and report a failure.
LEMMA SaveStep ==
  ASSUME IInv, NEW w \in Workers, task[w].pc \in {"insert", "wait", "update"},
         store' \in {store, Append(store, task[w].message)},
         refused' \in {refused, refused \cup {task[w].message}},
         UNCHANGED <<sent, shown>>
  PROVE  [Lifecycle!Next]_(Lifecycle!vars)
<1> DEFINE m == task[w].message
<1>1. m \in Messages /\ Lifecycle!Open(m) /\ Lifecycle!Unseen(m)
  BY InHand
<1>2. UNCHANGED <<Written, Seen>>
  BY DEF Written, Seen
<1>3. CASE store' = Append(store, m)
  BY <1>1, <1>2, <1>3 DEF Lifecycle!Next, Lifecycle!Keep
<1>4. CASE store' = store /\ refused' = refused \cup {m}
  BY <1>1, <1>2, <1>4 DEF Lifecycle!Next, Lifecycle!Refuse
<1>5. CASE store' = store /\ refused' = refused
  BY <1>2, <1>5 DEF Lifecycle!vars
<1> QED
  BY <1>3, <1>4, <1>5

LEMMA SaveRefines ==
  ASSUME IInv, NEW w \in Workers, Save(w)
  PROVE  [Lifecycle!Next]_(Lifecycle!vars)
<1>1. /\ task[w].pc \in {"insert", "wait", "update"} /\ UNCHANGED <<sent, shown>>
      /\ store' \in {store, Append(store, task[w].message)}
  BY DEF Save, Create, CreateFails, waitForRetry, UpdateLastMessage, UpdateFails, clients, database
<1>2. task[w].message # None
  BY <1>1, NoneAssumption DEF IInv, Fits
<1>3. refused' \in {refused, refused \cup {task[w].message}}
  BY <1>2 DEF Save, Create, CreateFails, waitForRetry, UpdateLastMessage, UpdateFails, clients,
              sendErrorToClient
<1> QED
  BY <1>1, <1>3, SaveStep

LEMMA SendRefines ==
  ASSUME IInv, NEW w \in Workers, SafeSend(w)
  PROVE  [Lifecycle!Next]_(Lifecycle!vars)
<1>1. PICK u \in task[w].users : shown' \in {shown, shown \cup {<<u, EventOf(w), task[w].doc>>}}
  BY DEF SafeSend
<1> DEFINE c == task[w].doc
           new == <<u, EventOf(w), c>>
<1>2. /\ task[w].pc = "deliver" /\ UNCHANGED <<store, refused, sent>>
      /\ Fits(task[w]) /\ task[w] \in Task
  BY DEF SafeSend, database, IInv, TypeOK
<1>3. c \in Docs /\ u \in Users /\ UNCHANGED Written
  BY <1>1, <1>2 DEF Fits, Publishing, Task, Written
<1>4. CASE shown' = shown
  BY <1>2, <1>4, HiddenStep DEF Hidden
<1>5. CASE shown' = shown \cup {new} /\ task[w].message = None
  <2>1. EventOf(w) = "message_delivered"
    BY <1>5 DEF EventOf
  <2>2. Seen' = Seen
    BY <1>5, <2>1 DEF Seen
  <2> QED
    BY <1>2, <1>3, <2>2 DEF Lifecycle!vars
<1>6. CASE shown' = shown \cup {new} /\ task[w].message # None
  <2>1. EventOf(w) = "new_message" /\ store[c] = task[w].message
    BY <1>2, <1>6 DEF EventOf, Fits, Publishing
  <2>2. Seen' = Seen \cup {<<u, c>>}
    <3>1. new[1] = u /\ new[2] = "new_message" /\ new[3] = c
      BY <2>1
    <3> HIDE DEF new
    <3>2. {t \in shown' : t[2] = "new_message"} = {t \in shown : t[2] = "new_message"} \cup {new}
      BY <1>6, <3>1
    <3> QED
      BY <3>1, <3>2 DEF Seen
  <2>3. store[c] \in Messages /\ DOMAIN store = Docs
    BY <1>3, ElementOfSeq, LenProperties DEF IInv, TypeOK, Docs
  <2>4. Lifecycle!Open(store[c])
    BY <1>6, <2>1, <2>3 DEF IInv, Handled, Lifecycle!Open, Written
  <2>5. ASSUME NEW s \in shown, New(s), store[s[3]] = store[c] PROVE s[3] = c
    BY <2>1, <2>5 DEF IInv, Shown
  <2>6. \A q \in Seen : store[q[2]] = store[c] => q[2] = c
    BY <2>5 DEF Seen, New
  <2>7. Lifecycle!Show(c, u)
    BY <1>2, <1>3, <2>2, <2>4, <2>6 DEF Lifecycle!Show
  <2> QED
    BY <1>3, <2>3, <2>7 DEF Lifecycle!Next
<1> QED
  BY <1>1, <1>4, <1>5, <1>6

LEMMA HandleEventRefines ==
  ASSUME IInv, NEW w \in Workers, NEW m \in Messages, handleEvent(w, m)
  PROVE  [Lifecycle!Next]_(Lifecycle!vars)
<1>1. /\ sent[m] = 0 \/ m \in refused
      /\ sent' = [sent EXCEPT ![m] = @ + 1] /\ refused' = refused \ {m}
      /\ UNCHANGED <<store, shown>>
  BY DEF handleEvent, database
<1>2. sent \in [Messages -> Nat]
  BY DEF IInv, TypeOK
<1>3. Written' = Written \cup {m} /\ Seen' = Seen /\ ~Lifecycle!Open(m)
  BY <1>1, <1>2 DEF Written, Seen, Lifecycle!Open
<1> QED
  BY <1>1, <1>3 DEF Lifecycle!Next, Lifecycle!Send

\* The handlers implement the life of a message: once anybody was shown it, it is
\* never refused, never stored again, and everybody else is shown the same copy
\* (handleEvent, InsertMessage, publishToRoom).
THEOREM Refinement == Spec => ImplementsLifecycle
<1>1. Init => Lifecycle!Init
  BY DEF Init, Lifecycle!Init, Written, Seen
<1>2. IInv /\ [Next]_vars => [Lifecycle!Next]_(Lifecycle!vars)
  <2> SUFFICES ASSUME IInv, [Next]_vars PROVE [Lifecycle!Next]_(Lifecycle!vars)
    OBVIOUS
  <2>1. CASE UNCHANGED vars
    BY <2>1, HiddenStep DEF vars, database, clients, Hidden
  <2>2. ASSUME NEW w \in Workers, Work(w)
        PROVE  [Lifecycle!Next]_(Lifecycle!vars)
    <3>1. CASE Save(w) \/ SafeSend(w)
      BY <3>1, SaveRefines, SendRefines
    <3>2. CASE ~Save(w) /\ ~SafeSend(w)
      <4>1. UNCHANGED Hidden
        BY <2>2, <3>2 DEF Work, Publish, UpdateMessageDelivery, FindRoom, touch, GetRoomDetail,
                          SetRoomMembers, publishToRoom, published, database, clients, Hidden
      <4> QED
        BY <4>1, HiddenStep
    <3> QED
      BY <3>1, <3>2
  <2>3. ASSUME \/ \E w \in Workers, d \in Docs : Handle(w, d)
               \/ \E r \in Rooms : Expire(r)
               \/ \E cv \in Conversations : evictExpiredRooms(cv)
               \/ \E cv \in Conversations, S \in Memberships : ChangeMembers(cv, S)
        PROVE  [Lifecycle!Next]_(Lifecycle!vars)
    <3>1. UNCHANGED Hidden
      BY <2>3 DEF Handle, Expire, evictExpiredRooms, ChangeMembers, database, clients, Hidden
    <3> QED
      BY <3>1, HiddenStep
  <2> QED
    BY <2>1, <2>2, <2>3, HandleEventRefines DEF Next
<1> QED
  BY <1>1, <1>2, Invariance, PTL DEF Spec, ImplementsLifecycle, Lifecycle!Spec

=============================================================================
