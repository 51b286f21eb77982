------------------------------ MODULE Messages ------------------------------
(***************************************************************************)
(* Chat messages: the workers that handle send_message and mark_delivered  *)
(* (internal/hub/manager.go, handler_mark_delivered.go), the writes to the *)
(* database with their retries (internal/repo), and the publication to the *)
(* members of the conversation, whom the worker finds in the room cache.   *)
(*                                                                         *)
(* The database executes a write or not, and its answer arrives or not:    *)
(* a write whose answer is lost looks like one that failed.  A room is     *)
(* found under the lock of its shard and used under its own lock, which    *)
(* are separate steps, and so are the read of a membership and its way     *)
(* into the cache.  A sender who is told that a message was not saved may  *)
(* send it again; other than that messages are sent once.                  *)
(*                                                                         *)
(* Bounds: MaxSends[m] sends of message m, MaxLost lost answers, MaxMarks  *)
(* delivery reports, MaxChanges changes of membership in all.  The clients *)
(* that are online, and whether SafeSend reaches them, is any choice.      *)
(***************************************************************************)
EXTENDS Naturals, Sequences

CONSTANTS
    Messages,       \* the messages the users write
    Keyed,          \* those that carry an id given by the client
    Conversations,
    ConvOf,         \* ConvOf[m]: the conversation message m belongs to
    Users,
    Memberships,    \* the memberships the service for conversations may set
    FirstMembers,   \* FirstMembers[cv]: the members at the start
    Rooms,          \* Room objects
    Workers,
    Faulty,         \* the database may fail
    MaxRetries,     \* attempts of InsertMessage (maxRetries)
    MaxSends, MaxLost, MaxMarks, MaxChanges,
    None            \* nil

ASSUME ConvAssumption == ConvOf \in [Messages -> Conversations] /\ Keyed \subseteq Messages
ASSUME MembersAssumption ==
    /\ Memberships \subseteq SUBSET Users
    /\ FirstMembers \in [Conversations -> Memberships]
ASSUME NoneAssumption == None \notin Messages \cup Conversations \cup Rooms
ASSUME BoundAssumption ==
    /\ Faulty \in BOOLEAN
    /\ MaxRetries \in Nat \ {0}
    /\ MaxSends \in [Messages -> Nat \ {0}]
    /\ MaxLost \in Nat /\ MaxMarks \in Nat /\ MaxChanges \in Nat

VARIABLES
    store,      \* the collection of messages; a document's id is its position
    last,       \* last[cv]: the document in the conversation's last_message, 0 if none
    marked,     \* the documents with status delivered
    members,    \* members[cv]: participant_ids of the conversation
    cache,      \* cache[cv]: the Room in its shard
    room,       \* room[r]: the fields of a Room object
    task,       \* where each worker is, and its local variables
    sent,       \* sent[m]: how often m was sent
    refused,    \* the messages whose sender was told that they were not saved
    shown,      \* the events users received: <<user, event, document>>
    lost, marks, changes,   \* how much of the bounds is used up
    recent      \* recent[cv]: the memberships since the hub last knew none of them

database == <<store, last, marked, members>>
rooms == <<cache, room>>
clients == <<sent, refused, shown>>
bounds == <<lost, marks, changes, recent>>
vars == <<database, rooms, task, clients, bounds>>

Docs == 1..Len(store)

Idle == [pc |-> "idle", message |-> None, attempt |-> 0, doc |-> 0,
         conv |-> None, room |-> None, users |-> {}]

Step(w, pc) == task' = [task EXCEPT ![w].pc = pc]
Return(w) == task' = [task EXCEPT ![w] = Idle]

----------------------------------------------------------------------------
(* send_message: the message is inserted, then the conversation updated. *)

\* A worker takes up a message: a new one, or one its sender was told to retry.
handleEvent(w, m) ==
    /\ task[w] = Idle
    /\ sent[m] = 0 \/ (m \in refused /\ sent[m] < MaxSends[m])
    /\ sent' = [sent EXCEPT ![m] = @ + 1]
    /\ refused' = refused \ {m}
    /\ task' = [task EXCEPT ![w] = [Idle EXCEPT !.pc = "insert", !.message = m,
                                                !.conv = ConvOf[m]]]
    /\ UNCHANGED <<database, rooms, shown, bounds>>

\* sendErrorToClient "save_failed", and the end of the handler.
sendErrorToClient(w) ==
    /\ refused' = IF task[w].message = None THEN refused ELSE refused \cup {task[w].message}
    /\ Return(w)

\* The ids of the collection are unique; without one the driver makes a new one.
Insertable(m) == m \in Keyed => ~ \E d \in Docs : store[d] = m

\* InsertOne is executed and answered.
Create(w) ==
    LET m == task[w].message IN
    /\ task[w].pc = "insert"
    /\ Insertable(m)
    /\ store' = Append(store, m)
    /\ task' = [task EXCEPT ![w].pc = "update", ![w].attempt = 0,
                            ![w].doc = Len(store) + 1]
    /\ UNCHANGED <<last, marked, members, rooms, clients, bounds>>

\* Whether InsertMessage tries again.
\* Mutant: once too often.
TriesAgainMutant(w) == task[w].attempt + 1 <= MaxRetries
TriesAgain(w) == task[w].attempt + 1 < MaxRetries

\* InsertOne fails: with an error of the network or a timeout, executed or not,
\* which is retried; or with another error, of which the id that is taken is one.
CreateFails(w) ==
    LET m == task[w].message IN
    /\ task[w].pc = "insert"
    /\ \/ UNCHANGED <<store, lost>> /\ (Faulty \/ ~Insertable(m))
       \/ /\ Faulty /\ Insertable(m) /\ lost < MaxLost
          /\ store' = Append(store, m)
          /\ lost' = lost + 1
    /\ \/ /\ Faulty /\ TriesAgain(w)
          /\ task' = [task EXCEPT ![w].pc = "wait", ![w].attempt = @ + 1]
          /\ UNCHANGED refused
       \/ sendErrorToClient(w)
    /\ UNCHANGED <<last, marked, members, rooms, sent, shown, marks, changes, recent>>

\* waitForRetry: the delay passes, or the five seconds of the whole insert do.
\* Mutant: the error is reported, and the insert tried again all the same.
waitForRetryMutant(w) ==
    /\ task[w].pc = "wait"
    /\ Step(w, "insert")
    /\ refused' \in {refused, refused \cup {task[w].message}}
    /\ UNCHANGED <<database, rooms, sent, shown, bounds>>
waitForRetry(w) ==
    /\ task[w].pc = "wait"
    /\ \/ Step(w, "insert") /\ UNCHANGED refused
       \/ sendErrorToClient(w)
    /\ UNCHANGED <<database, rooms, sent, shown, bounds>>

UpdateLastMessage(w) ==
    /\ task[w].pc = "update"
    /\ last' = [last EXCEPT ![task[w].conv] = task[w].doc]
    /\ Step(w, "find")
    /\ UNCHANGED <<store, marked, members, rooms, clients, bounds>>

\* The update fails, executed or not.
\* Mutant: the error is reported, and the message published all the same.
UpdateFailsMutant(w) ==
    /\ task[w].pc = "update"
    /\ Faulty
    /\ refused' = refused \cup {task[w].message}
    /\ Step(w, "find")
    /\ UNCHANGED <<database, rooms, sent, shown, bounds>>
UpdateFails(w) ==
    /\ task[w].pc = "update"
    /\ Faulty
    /\ \/ last' = [last EXCEPT ![task[w].conv] = task[w].doc]
       \/ UNCHANGED last
    /\ sendErrorToClient(w)
    /\ UNCHANGED <<store, marked, members, rooms, sent, shown, bounds>>

----------------------------------------------------------------------------
(* mark_delivered. *)

\* A user who knows a stored message, from the hub or from its page of the
\* history, reports it.
Handle(w, d) ==
    /\ task[w] = Idle
    /\ marks < MaxMarks
    /\ marks' = marks + 1
    /\ task' = [task EXCEPT ![w] = [Idle EXCEPT !.pc = "mark", !.doc = d,
                                                !.conv = ConvOf[store[d]]]]
    /\ UNCHANGED <<database, rooms, clients, lost, changes, recent>>

\* Mutant: the error of the update is not looked at.
UpdateMessageDeliveryMutant(w) ==
    /\ task[w].pc = "mark"
    /\ marked' \in {marked, marked \cup {task[w].doc}}
    /\ Step(w, "find")
    /\ UNCHANGED <<store, last, members, rooms, clients, bounds>>
UpdateMessageDelivery(w) ==
    /\ task[w].pc = "mark"
    /\ \/ /\ marked' = marked \cup {task[w].doc}
          /\ Step(w, "find")
       \/ /\ Faulty
          /\ marked' \in {marked, marked \cup {task[w].doc}}
          /\ Return(w)
    /\ UNCHANGED <<store, last, members, rooms, clients, bounds>>

----------------------------------------------------------------------------
(* publishToRoom, with GetRoom and the room cache. *)

\* FindRoom, under the lock of the shard.
FindRoom(w) ==
    LET r == cache[task[w].conv] IN
    /\ task[w].pc = "find"
    /\ task' = [task EXCEPT ![w].pc = IF r = None THEN "load" ELSE "touch", ![w].room = r]
    /\ UNCHANGED <<database, rooms, clients, bounds>>

\* FindRoom, under the lock of the room, which may have been evicted meanwhile.
touch(w) ==
    /\ task[w].pc = "touch"
    /\ room' = [room EXCEPT ![task[w].room].expired = FALSE]
    /\ Step(w, "members")
    /\ UNCHANGED <<database, cache, clients, bounds>>

\* GetRoomDetail; without an answer nothing is published.
GetRoomDetail(w) ==
    /\ task[w].pc = "load"
    /\ \/ task' = [task EXCEPT ![w].pc = "set", ![w].users = members[task[w].conv]]
       \/ Faulty /\ Return(w)
    /\ UNCHANGED <<database, rooms, clients, bounds>>

\* A Room object nobody refers to.
Fresh(r) ==
    /\ \A cv \in Conversations : cache[cv] # r
    /\ \A w \in Workers : task[w].room # r

\* The members that SetRoomMembers leaves in room r.
\* Mutant: it does not begin with an empty map.
MembersSetMutant(w, r) ==
    task[w].users \cup (IF cache[task[w].conv] = r THEN room[r].members ELSE {})
MembersSet(w, r) == task[w].users

\* SetRoomMembers, in the room of the shard or in a new one.  The FindRoom that
\* follows finds this room: only after roomTTL would it be evicted.
SetRoomMembers(w) ==
    /\ task[w].pc = "set"
    /\ \E r \in Rooms :
        /\ IF cache[task[w].conv] = None THEN Fresh(r) ELSE r = cache[task[w].conv]
        /\ cache' = [cache EXCEPT ![task[w].conv] = r]
        /\ room' = [room EXCEPT ![r] = [members |-> MembersSet(w, r), expired |-> FALSE]]
        /\ task' = [task EXCEPT ![w].pc = "touch", ![w].room = r, ![w].users = {}]
    /\ UNCHANGED <<database, clients, bounds>>

\* The members are copied under the lock of the room.
publishToRoom(w) ==
    /\ task[w].pc = "members"
    /\ task' = [task EXCEPT ![w].pc = "deliver", ![w].room = None,
                            ![w].users = room[task[w].room].members]
    /\ UNCHANGED <<database, rooms, clients, bounds>>

EventOf(w) == IF task[w].message = None THEN "message_delivered" ELSE "new_message"

\* One member, who is online and gets the event, or not.
SafeSend(w) ==
    /\ task[w].pc = "deliver"
    /\ \E u \in task[w].users :
         /\ task' = [task EXCEPT ![w].users = @ \ {u}]
         /\ \/ shown' = shown \cup {<<u, EventOf(w), task[w].doc>>}
            \/ UNCHANGED shown
    /\ UNCHANGED <<database, rooms, sent, refused, bounds>>

published(w) ==
    /\ task[w].pc = "deliver"
    /\ task[w].users = {}
    /\ Return(w)
    /\ UNCHANGED <<database, rooms, clients, bounds>>

----------------------------------------------------------------------------
(* Time, and what happens outside the hub. *)

\* Room r has not been accessed for roomTTL.  A worker that has touched a room is
\* done with it long before.
Expire(r) ==
    /\ ~room[r].expired
    /\ \E cv \in Conversations : cache[cv] = r
    /\ \A w \in Workers : task[w].room # r
    /\ room' = [room EXCEPT ![r].expired = TRUE]
    /\ UNCHANGED <<database, cache, task, clients, bounds>>

\* evictExpiredRooms, one room under the lock of its shard.
evictExpiredRooms(cv) ==
    /\ cache[cv] # None
    /\ room[cache[cv]].expired
    /\ cache' = [cache EXCEPT ![cv] = None]
    /\ UNCHANGED <<database, room, task, clients, bounds>>

\* No copy of the membership of cv is cached or on its way.
Unknown(cv) ==
    /\ cache[cv] = None
    /\ \A w \in Workers : task[w].conv = cv => task[w].pc \notin {"touch", "set", "members"}

\* Another service changes the membership.
ChangeMembers(cv, S) ==
    /\ changes < MaxChanges
    /\ S # members[cv]
    /\ changes' = changes + 1
    /\ members' = [members EXCEPT ![cv] = S]
    /\ recent' = [recent EXCEPT ![cv] = IF Unknown(cv) THEN {S} ELSE @ \cup {S}]
    /\ UNCHANGED <<store, last, marked, rooms, task, clients, lost, marks>>

----------------------------------------------------------------------------

Init ==
    /\ store = <<>>
    /\ last = [cv \in Conversations |-> 0]
    /\ marked = {}
    /\ members = FirstMembers
    /\ cache = [cv \in Conversations |-> None]
    /\ room = [r \in Rooms |-> [members |-> {}, expired |-> FALSE]]
    /\ task = [w \in Workers |-> Idle]
    /\ sent = [m \in Messages |-> 0]
    /\ refused = {}
    /\ shown = {}
    /\ lost = 0 /\ marks = 0 /\ changes = 0
    /\ recent = [cv \in Conversations |-> {FirstMembers[cv]}]

Save(w) ==
    Create(w) \/ CreateFails(w) \/ waitForRetry(w) \/ UpdateLastMessage(w) \/ UpdateFails(w)
Publish(w) ==
    \/ FindRoom(w) \/ touch(w) \/ GetRoomDetail(w) \/ SetRoomMembers(w)
    \/ publishToRoom(w) \/ SafeSend(w) \/ published(w)
Work(w) == Save(w) \/ UpdateMessageDelivery(w) \/ Publish(w)

Next ==
    \/ \E w \in Workers : Work(w)
    \/ \E w \in Workers, m \in Messages : handleEvent(w, m)
    \/ \E w \in Workers, d \in Docs : Handle(w, d)
    \/ \E r \in Rooms : Expire(r)
    \/ \E cv \in Conversations : evictExpiredRooms(cv)
    \/ \E cv \in Conversations, S \in Memberships : ChangeMembers(cv, S)

Spec == Init /\ [][Next]_vars

----------------------------------------------------------------------------
(* Properties. *)

Labels == {"idle", "insert", "wait", "update", "mark", "find", "load", "set", "touch",
           "members", "deliver"}
Task == [pc : Labels, message : Messages \cup {None}, attempt : 0..(MaxRetries - 1), doc : Nat,
         conv : Conversations \cup {None}, room : Rooms \cup {None}, users : SUBSET Users]

\* The shape of the state; ids that are used exist.
TypeOK ==
    /\ store \in Seq(Messages)
    /\ last \in [Conversations -> {0} \cup Docs]
    /\ marked \subseteq Docs
    /\ members \in [Conversations -> Memberships]
    /\ cache \in [Conversations -> Rooms \cup {None}]
    /\ room \in [Rooms -> [members : SUBSET Users, expired : BOOLEAN]]
    /\ task \in [Workers -> Task]
    /\ sent \in [Messages -> Nat] /\ \A m \in Messages : sent[m] <= MaxSends[m]
    /\ refused \subseteq Messages
    /\ shown \subseteq Users \X {"new_message", "message_delivered"} \X Docs
    /\ lost \in 0..MaxLost /\ marks \in 0..MaxMarks /\ changes \in 0..MaxChanges
    /\ recent \in [Conversations -> SUBSET Memberships]

\* A message that its sender was told to send again has been shown to nobody,
\* under the id of any of its copies: the error reply and the publication of one
\* handler exclude each other.
RefusedNotShown ==
    \A s \in shown : s[2] = "new_message" => store[s[3]] \notin refused

\* However often an insert was executed, and a message sent, nobody is shown two
\* copies of it.
ShownOnce ==
    \A s, t \in shown :
        s[1] = t[1] /\ s[2] = "new_message" /\ t[2] = "new_message"
            /\ store[s[3]] = store[t[3]] => s[3] = t[3]

\* Who is shown that a message was delivered finds it so in the database.
ShownDelivered == \A s \in shown : s[2] = "message_delivered" => s[3] \in marked

\* The members of a cached room are one membership of the conversation, not a
\* mixture of two, and not one from before the room was last unknown to the hub.
RoomsAreMemberships ==
    \A cv \in Conversations : cache[cv] # None => room[cache[cv]].members \in recent[cv]

\* The messages that were sent, and who was shown which copy of them, as
\* MessageLifecycle sees it.
Written == {m \in Messages : sent[m] > 0}
Seen == {<<s[1], s[3]>> : s \in {t \in shown : t[2] = "new_message"}}

Lifecycle == INSTANCE MessageLifecycle WITH written <- Written, seen <- Seen

\* The handlers, with their retries, two writes and the room cache, implement the
\* life of a message: once anybody was shown it, it is never refused, never stored
\* again, and shown to everybody else under the same id.
ImplementsLifecycle == Lifecycle!Spec

=============================================================================
