# A verification project for Confeet

Confeet is a WebSocket chat and call server in Go. One process holds one hub;
browsers connect to it, exchange chat messages through MongoDB-backed rooms and
place audio and video calls. This directory holds TLA+ models of the parts of
the server where goroutines meet, the TLC configurations that check them, and
machine-checked proofs of the invariants and action properties they satisfy.

Source paths below are relative to `src/`.

## 1. Inventory

| Component | State it keeps | Operations | Where it meets the others |
|---|---|---|---|
| Call signalling (`internal/hub/call_handler.go`, `call_state.go`, `call_notifications.go`, `handler_call.go`) | `activeCalls` (conversation to call), each call's participants and overall status, the busy status on every client | initiate, join, accept, reject, dismiss, cancel, timeout, end; a watcher goroutine per initiation | workers run the handlers; reads `onlineUsers` and rooms of the hub; user directory |
| Presence and sessions (`manager.go`, `client.go`) | `onlineUsers`, `register`/`unregister` channels, last heartbeat | dial, add, remove, heartbeat, stale check, kick, broadcast of statuses, `update_status` (`handler_update_status.go`) | every sender looks clients up under `onlineUsersMu` |
| Client connection (`client.go`) | egress channel, closed flag, context, connection | SafeSend, WriteMessage, Close | all hub goroutines send; five kinds of goroutine close |
| Event dispatch (`registry.go`, `middleware.go`, `manager.go:151-167`) | handler table (fixed), inbound channel | 16 workers take events and run handlers; panics in handlers are recovered | readers fill the channel, handlers do the work |
| Message handling (`manager.go:178-249`, `message_repository.go`, `conversation_repository.go`, `handler_mark_delivered.go`) | messages and last message in MongoDB | save with retries, update the conversation, publish, mark delivered | room cache, presence |
| Room cache (`manager.go:314-512`) | 64 shards of rooms, members, last access | find, load, set, add, remove, evict after 30 min | message handling, initiation, monitoring |
| Shutdown (`manager.go:590`, `routers.go`, `container.go`, `main.go`) | hub context, inbound channel, wait group | Stop, server shutdown, database disconnect | all goroutines |
| Monitoring (`monitor.go`) | none | counts under the hub's locks, up to three of them nested | rooms, presence, calls |
| Locks and goroutines (all of `internal/hub`) | five classes of `sync.RWMutex`, the inbound and unregister channels, the contexts | lock, unlock, wait, hand over | every component above |
| Database access (`db/mongo.go`, `filter.go`) | none | thin wrapper, page arithmetic | repositories |
| HTTP and wiring (`app_routers`, `configuration`, `handler`, `service`) | none | routing, configuration | hub |

What makes each part correct, and what makes it hard:

- **Calls.** A call somebody is in must stay reachable, a call nobody is in must
  go away, nobody may be answered for by somebody else, ringing must end, and
  the busy status must follow. Hard because handlers look a call up under one
  lock, change it under another and touch client statuses under a third; because
  one client's events are handled by several workers in any order; because
  watchers act on whatever call their conversation has after thirty seconds; and
  because `endCall` removes whatever call the conversation has.
- **Presence.** Who is online must be known to everybody online; a reconnect must
  survive the removal of the session it replaced; sessions must be cleaned up
  when the loop is slow or stuck. Hard because requests travel in two channels,
  with timeouts, because one lock is held across a broadcast, because a session may
  refuse what it is sent before anybody closed it, and because clients announce
  statuses too, of any user.
- **Client connection.** Accepted events arrive in order and none is lost while
  the client lives; closing is done once, by anybody, and always completes. Hard
  because `Close` works in steps that senders interleave with.
- **Messages.** A sender is told to send a message again only if nobody was shown
  it, nobody is shown a message twice, and what is announced is in the database.
  Hard because of retries after lost answers and of two writes without a
  transaction.
- **Rooms.** The members of a cached room are one membership of the conversation
  of some recent moment. Hard because a load races with membership changes, other
  loads and eviction.
- **Shutdown.** Everything stops, once, without a panic. Hard because `Stop` runs
  twice on the way out, readers may still send into the channel it closes, and it
  waits for workers that wait for a loop that has left.
- **Locks and goroutines.** Nobody waits in a circle. Hard because handlers, the
  monitor page, the evictor and the hub loop nest the same locks in chains of
  their own, written in different files, and a waiting writer keeps out readers.

`PROJECT.json` lists the hazards one by one at their source lines.

## 2. The modules

| Module | What it is |
|---|---|
| `CallHandler` | the call subsystem, one step per lock |
| `CallLifecycle` | what the call subsystem promises: the life of a call, without locks |
| `MCCallHandler` | its instances for TLC |
| `CallHandlerProofs` | the inductive invariant of `CallHandler`, its types, and that no call is abandoned |
| `CallAnswerProofs` | who answers, who is shown as in a call, and that `CallHandler` implements `CallLifecycle` |
| `CallEndProofs` | that nobody is rung without a watcher to come, and that a decision to end a call stands |
| `Presence`, `MCPresence` | sessions, the hub loop, heartbeats, kicks |
| `AddressBook` | what the hub promises about presence: who is online and what everybody is told of it |
| `PresenceProofs` | the theorems about `Presence`, and that it implements `AddressBook` |
| `Client`, `MCClient` | SafeSend, Close, WriteMessage |
| `EventStream` | what a client promises for the events it accepts |
| `ClientProofs` | the theorems about `Client`, and that it implements `EventStream` |
| `Messages`, `MCMessages` | saving, publishing and marking messages, with the room cache |
| `MessageLifecycle` | what the message subsystem promises: the life of a message, without workers, retries and rooms |
| `MessagesProofs` | the theorems about `Messages` |
| `Hub`, `MCHub` | the goroutines of the server, the locks they nest, shutdown |
| `HubProofs` | the theorems about `Hub` |

### CallHandler

*State.* `activeCalls` is the registry; a call object `k` is spread over
`conversation[k]`, `caller[k]`, `callStatus[k]` and `participants[k]` (each
user's participant status, `"none"` for a user outside the map). `onlineUsers`,
`status`, `inConv` are what the call code sees of the hub's clients. `task[p]`
is the goroutine p: a worker, or the watcher of call p. A task records the label
of its next step, the sender, the conversation it was sent about, the call
object it looked up, the users a loop has still to visit (`todo`), the client a
comparison has hit and not yet reset (`hit`) and what follows a loop (`then`).

*Actions.* A handler is one action per critical section:

| Code | Actions |
|---|---|
| `handleCallInitiate` | `handleCallInitiate` (payload, room, busy tests), `registerCall` (lookup of the users, new object, registry, watcher), `markCaller`, `markCallees` (one per callee) |
| `raiseJoiningRequest` | `raiseJoiningRequest`, `markCallees` |
| accept | `getActiveCall`, `handleCallAccept`, `acceptMark` |
| reject, timeout, end | `getActiveCall`, `handleCallReject` / `handleCallTimeout` / `handleCallEnd` (all `Depart`), `clearCheck`/`clearWrite`, perhaps `endCall` |
| dismiss | `getActiveCall`, `handleCallDismiss` |
| cancel | `handleCallCancel`, `clearCheck`/`clearWrite` per participant, `endCall` |
| no call found; sender is no participant | `CallNotFound`, `RefuseStranger`, `ClearStranger` |
| `endCall` | `endCall` (registry), then `clearCheck`/`clearWrite` for the caller and each participant, the latter under `call.Mu.RLock` (label `clearAll`) |
| watcher | `watcherWake` (lookup), `startCallTimeoutWatcher` (critical section), clearing, perhaps `endCall` |
| `addClient`, `update_status` as far as the call code sees them | `Connect`, `UpdateStatus` |

*Abstractions.* Notifications, tokens, durations and error replies change no
state of the module; a notification that panics is left to `Hub`. A step that only refuses (a busy caller, a bad payload, a
caller who does not own the call) is a stutter and has no action. The busy tests
of an initiation read all statuses in one step. The sleep of a watcher has no
length: it may end at once, which includes every order of answers and timers.
Room membership is fixed. Clients connect and reconnect but do not leave, since
`removeClient` does not complete (`Presence`); accordingly what is shown here
holds up to the first removal, after which every access to `onlineUsers` waits.

### CallLifecycle

`live[cv]` and `phase[k][u]` (none, invited, in, out), with `Place`, `Request`,
`Answer`, `Withdraw`, `Remove`. `CallHandler` implements it under
`live <- activeCalls` and `phase <- PhaseOf(participants)`: a call object is
placed once, an invitation is answered at most once, who is out stays out, and a
call that was removed or replaced never becomes live again.

### Presence

`loop` is the hub's goroutine (`Hub.run`) inside `addClient` (insert, broadcast,
tell the newcomer) or `removeClient` (delete, broadcast, unlock and close); `register` and
`unregister` are its channels; `dial[s]` and `reader[s]` are `RegisterClient`
and `ReadMessages` of session s; `checker` is `removeStaleClients`, `worker[w]`
a worker that publishes and kicks clients that do not take what they are sent, or
handles an `update_status` (`UpdateStatus`, then `broadcastClaim`). `mu` is
`onlineUsersMu`, held across steps by `removeClient` only. A timeout of a
channel send fires only when the channel is full, as a Go select takes a ready
case at once. `known[s]` are the users session s was told are online, `status[s]` is
the status of its client, reduced to offline or another one, and `GetStatus` of it is
what newcomers are told (`Invisible`). `Close` is one step here.

A session misses what it is sent when it is closed, and may miss it when its egress
is full (`Slow`) or its context is over: a reader whose event the hub does not take
within `inboundSendTimeout` cancels its own context (`CancelSelf`), long before
somebody closes the client. That happens to the sessions in `Frail`, whose writer may
also fail and close them (`WriterCloses`). Together these are the `Deaf`.

`Claims` are the `update_status` events there may be. Nothing in the code compares the
user id of the event with that of the client, nor with `onlineUsers`, so the users in
`Hidden` (some client calls them offline, or their own client says so) and in `Claimed`
(some client calls them online) are excepted from what the hub promises.

### AddressBook

`book` (who is online, with which session), `told` (the users each session was told
are online), `deaf` and `phase`, with `Arrive`, `Leave`, `Inform`, `Settle`, `Claim` and
`Deafen`. One arrival is announced before the next change begins; what the hub tells is
true; and the last telling (`Settle`) leaves everybody in the book who can hear with
exactly the users who are there, but for those in `Hidden` and `Claimed`, of whom
clients may say anything at any time (`Claim`). A departure (`Leave`) shuts the book:
nobody is told of it, and nobody arrives or leaves afterwards, which is what the code
does (`RemovalNeverEnds` below) and not what its comment says (`presence_offline`).
`Presence` implements it under `book <- onlineUsers`, `told <- known`, `deaf <- Deaf`
and `phase <- BookPhase`: settled while the loop is between two requests or about to
close a session that is not online, announcing inside `addClient`, shut once it is
inside the removal of a session that is online.

### Client

`sender[p]` is in `SafeSend` (closed test, select, blocked in the select),
`closer[c]` in `Close` (`once`, flag, context, channel), `writer` in
`WriteMessage`, `watch` the goroutine `Close` starts. A blocked sender is woken
by the end of the context, so only a sender between its test and its select can
meet a closed channel. `accepted` and `written` record what `SafeSend` returned
true for and what reached the connection.

### EventStream

`accepted`, `written`, `ended` and `shut`, with `Accept`, `Write`, `End` and `Shut`: an
event is accepted once and before the stream is shut, and written in the order of
acceptance and before the stream has ended. Neither the capacity nor the goroutines
are left. `Client` implements it under `ended <- writer.pc \in {"exit", "done"} \/
~connOpen` and `shut <- egressClosed`. It says more than the invariants of `Client`:
nothing gets into the channel once it is closed, also not from a sender that was past
the test of the flag, or waiting for a place, when `Close` began.

### Messages

*State.* `store` is the collection of messages, a document's id being its
position; `last[cv]` the `last_message` of a conversation; `marked` the documents
with status delivered; `members[cv]` its `participant_ids`. `cache[cv]` is the
room in the shard of cv, `room[r]` the fields of a `Room` object, which outlives
its place in the shard while a worker refers to it. `task[w]` is a worker.
`sent`, `refused` and `shown` are what the clients did and saw, `recent[cv]` the
memberships of which the hub may still hold a copy.

| Code | Actions |
|---|---|
| `handleEvent`, `send_message` | `handleEvent` |
| `InsertMessage` | `Create`, `CreateFails` (executed or not; retried, or reported with `save_failed`), `waitForRetry` |
| `UpdateLastMessage` | `UpdateLastMessage`, `UpdateFails` (executed or not; reported) |
| `MarkDeliveredHandler.Handle` | `Handle`, `UpdateMessageDelivery` |
| `FindRoom` | `FindRoom` (lock of the shard), `touch` (lock of the room) |
| `GetRoom`, miss | `GetRoomDetail`, `SetRoomMembers` with the lookup that follows |
| `publishToRoom` | `publishToRoom` (copies the members), `SafeSend` per member, `published` |
| `evictExpiredRooms` | `Expire` (thirty minutes pass), `evictExpiredRooms` per room |
| another service | `ChangeMembers` |

*Abstractions.* A database call is one step with two outcomes each for its
execution and its answer. Whether a member is online and whether the event gets
into the egress channel is one choice per member (`Presence` and `Client` model
both). The client that sends again is the one that was told to; a client that
repeats a message it was not refused is a new message of its own. `sendErrorToClient` counts
as told even when the client is gone. Rejected payloads change no state.

### MessageLifecycle

`written`, `refused`, `store` (the copies in the database) and `seen` (who was
shown which copy), with `Send`, `Refuse`, `Keep` and `Show`. `Messages` implements
it under `written <- Written` and `seen <- Seen`. It says more than the invariants
of `Messages`: once anybody was shown a message, it is never refused and never
stored again, and everybody else is shown the same copy, under one id, which is
what a later `mark_delivered` refers to.

### Hub

The other modules follow what a handler does to the state a lock guards. `Hub`
forgets that state and keeps only where each goroutine is in its outermost
critical section, for all goroutines at once.

*State.* `section[g]` names the section goroutine g is in, `held[g]` how many
locks of its chain it has, `step[g]` whether it is outside, waits, has all its
locks, is idle in its select, kicks a client, or has returned. `inbound` and
`kicks` count what is in `Hub.inbound` and `Hub.unregister`; `stage` and `stops`
follow `Stop` in the main goroutine.

*Sections.* A section is a chain of locks taken one inside the other:

| Section | Chain | Code |
|---|---|---|
| `lookup` | online (read) | `sendToUser`, `setUserBusy`, `broadcastToAll`, `GetUserDetail`, the walk of `Stop` |
| `readCalls`, `writeCalls` | calls | `getActiveCall`; `registerCall`, `endCall` |
| `writeCall` | call (write) | the critical sections of the handlers and the watcher |
| `notify` | call, online (read) | `notifyCallees`, the second loop of `endCall` |
| `findRoom`, `touchRoom`, `readRoom` | bucket; room | `FindRoom`, `publishToRoom` |
| `setRoom`, `evict` | bucket (write), room | `SetRoomMembers`, `evictExpiredRooms` |
| `roomStats`, `callStats` | bucket, room, online; calls, call | `monitor.go` |
| `addClient` | online (write) | `addClient`, `removeClient` of a replaced client |
| `remove` | online (write), online (read) | `removeClient` of an online client, with its broadcast |

A goroutine outside all sections may enter any section of its code next.
`RLock`, `Lock` and `Unlock` are those of `sync.RWMutex`: a waiting writer keeps
new readers out, and the readers that waited for a writer get the lock when it
leaves. There is one lock of each class, at which goroutines meet at least as
often as they do at the many of the program; this may show a circle that is none,
but hides no circle between classes. Two locks of one class are never nested in
the code except in `remove`, where it is the same one.

*Shutdown.* `Stop` (called by `StartServer` and again by `Container.Close`) ends
the context, walks `onlineUsers`, `closeInbound` closes the channel, or panics the
second time, `wait` waits for the workers. A reader that sends meanwhile panics
(`ReadPanics`), which ends the process. `kickOnFull` waits
for a place in `unregister` without a timeout (`manager.go:288`), readers and the
checker give up after theirs.

*Panics.* A send to a client that is being closed may panic (`Client`).
`SendPanics` is such a send in a handler that walks the participants of a call
under `call.Mu.RLock`: `RecoveryMiddleware` recovers and the worker takes its next
event, but nothing gives the lock up (`orphaned`). `SendCrashes` is one in
`send_message`, in a broadcast of the loop or in a watcher, none of which is run by
the registry: the process ends (`crashed`).

*Abstractions.* The mutexes of a client (`statusMu`, `lastSeenMu`, `closedMu`) are
held for one assignment and never around a wait. What holds a goroutine up for a
limited time, a database call or `SafeSend`, is a step.

## 3. What is checked

| Run | Instance | What it shows |
|---|---|---|
| `call_overlap` | 2 users, 1 conversation, 2 calls, 1 worker and 2 watchers; initiate, cancel, accept | `AnsweredStays`, `ImplementsLifecycle`, `RingingWatched`, `RingingEnds`, `EndedCallRemoved` |
| `call_events` | a group of 3 users, 1 call, 2 workers, every event, failing lookups, reconnects, announced statuses | `TypeOK`, `NobodyInCallUnasked`, `ActiveCallAlive`, `RingingCallUnanswered` |
| `presence` | 2 users, 3 sessions (one user twice), 1 worker, a slow peer of the user who reconnects, a frail one of the other, who may hide (`update_status` offline) and whose directory update may fail; channels of length 1 | `TypeOK`, `PresenceKnown`, `NewerSessionStays`, `ImplementsBook` |
| `presence_liveness` | 2 users, 3 sessions, one of which may miss heartbeats; channels of length 1 | `SessionEnds`, `DialEnds` |
| `client` | 2 senders, 2 closers and the writer, channel of length 1, 4 events | `TypeOK`, `NothingSkipped`, `ClosedOnce`, `SendersReturn`, `CloseReturns`, `ClosedConnEnds`, `ImplementsStream` |
| `messages` | 1 conversation, 2 users, 2 rooms, 2 workers; one message with a client id, one that may be sent twice; 2 attempts, 1 lost answer, 1 delivery report, 1 change of membership | `TypeOK`, `RefusedNotShown`, `ShownOnce`, `ShownDelivered`, `RoomsAreMemberships`, `ImplementsLifecycle` |
| `hub` | 1 worker, the loop, the evictor and main, channels of length 1, one panic at most | `TypeOK`, `NoDeadlock`, `StopReturns` |

*Why these bounds.* Two call objects of one conversation are the smallest
instance in which a watcher, an end or an accept meets a call that is not the
one it was meant for; a third would repeat the relation of the first two. Two
workers are the smallest pair of handlers that interleave; a watcher is a further
goroutine. `call_overlap`
has one worker, whose handlers meet the watchers of both calls at every step, so
that its liveness properties stay within reach; `AnsweredStays` and
`ImplementsLifecycle` are proved for any number of workers. Three users are needed for a group call, in which one departure does
not end the call. `call_events` trades the second call for every event, and lets the
third user only accept. In
`Presence`, three sessions let one user reconnect, one channel fill and a dial
time out after the loop has stopped. The heartbeats are in `presence_liveness`, the
worker in `presence`: together they are too many states, and to the loop a session the
checker asks to remove is one that its reader or a worker asks to remove. One claim, of
an offline status, is enough to hide a user from the broadcast and from newcomers; claims
of an online status are covered by the theorems of `PresenceProofs` only. In `Client`, a channel of one place and two
senders make a sender wait while another gets in; the third closer is the one
that finds the once over. In `Messages`, two workers are the least that load one
room together, two rooms the least that let one be used after its eviction; a
second attempt and one lost answer give a message two copies, and sending it
again a third. `MaxRetries` is 3 in the code; the attempts differ in nothing but
their number. In `Hub`, a worker, the loop, the evictor and `Stop` make a reader wait for a
writer that waits for another reader, and one place in a channel makes a kick
wait; watchers and the checker take no chain that workers do not. The monitor page,
which has chains of its own, is in `hub_recovered` only, because with it and the
panics the liveness of `Stop` takes too long. The theorems of `HubProofs` hold for any
number of each kind. One lost lock of a call is lost for good, so a second panic adds nothing.
`call_stuck` needs two users, one call and two workers, an initiation and a
cancel. Symmetry is used over calls, rooms and workers in the runs without
liveness properties.

*Fairness.* Weak fairness of every goroutine that can take a step: the Go
scheduler is preemptive, `RWMutex` and channel waits are first come, first
served, and timers fire. Events, peers, heartbeats and dials are not fair. In
`Client` a write to the connection is not fair: a peer that does not read holds
it up for `writeWait`, longer than the five seconds `Close` allows, and the
properties hold without it. `Messages` states no liveness: the code promises no
delivery. In `Hub` every goroutine that has or gets its lock goes on (weak
fairness); a worker that waits to write gets its turn among the other writers, as
a `sync.Mutex` hands itself to whoever has starved, and a handler returns in the
end, as it has finitely many sections (strong fairness of `Lock` and `Return` of
workers); the loop does not overlook a channel for ever (strong fairness of
`Remove`, as a Go select chooses evenly); `Stop` goes on once it was called. When
a signal comes, what clients send, and when the page is read is not fair.
Deadlock is checked for the calls; `Presence`, `Client` and `Messages` may stop,
because their supply of sessions, events and messages is finite and because the
loop of `Presence` does stop, and `Hub` because the process ends.

*What `StopReturns` leaves out.* `Stop` does not come back in three cases, which
the property names: the loop is stuck in `removeClient` (`LoopStuck`), the loop has
left and a worker waits to kick a client into a full channel (`KickStuck`), or a
worker waits to change a call whose lock a panic has left behind (`LockLost`). The
panic of a second `close(h.inbound)` and of a send into the closed channel are
outcomes of the model; no line of the code says that they cannot occur.

### Where code and comments disagree

| Run | Comment | What TLC shows |
|---|---|---|
| `call_timer` | `call_state.go:63` "End call if no one accepted and no one still ringing" | the watcher ends an answered 1-to-1 call |
| `call_stuck` | `call_state.go:85` "Clear all participants busy status" | a cancel handled between `registerCall` and the marking of the callees (`call_handler.go:251-258`, `485`) clears statuses before they are set; users stay in_call or ringing for a call that is gone, and are busy for every later one |
| `presence_offline` | `manager.go:617` "Broadcast offline status to all other online users" | the loop waits for its own lock; the broadcast never happens |
| `client_panic` | `manager.go:281` "Use SafeSend to prevent panic on closed channel" | a send on the closed channel |
| `hub_recovered` | `middleware.go:16` "RecoveryMiddleware prevents panics from killing worker goroutines" | after a recovered panic in `notifyCallees` (`call_notifications.go:101`) `call.Mu` stays locked, and the worker that gets the next event of that call waits for ever |

## 4. What is proved

### Calls

`CallHandlerProofs` proves, for every set of users, conversations, calls and
workers and every assignment of events, from the named assumptions of
`CallHandler` alone:

- `Invariance`: `Spec => []IInv`;
- `TypeCorrect`: `Spec => []TypeOK`;
- `NoAbandonedCall`: `Spec => []ActiveCallAlive`.

`IInv` is `TypeOK` with four further parts, each needed for the next:

- `TasksAgree`: what a goroutine's label says about its other fields. A task in
  a critical section has a call, a user and a conversation; one that is about to
  end a call has that call, and the call was created.
- `Reserved`: the call object an initiation has taken is not yet created and no
  other goroutine works on it, so that `registerCall` overwrites no participants.
- `CallsInv`: a created call has a caller, and the watcher of a call not yet
  created is at rest, so that creating a call starts a fresh watcher.
- `RegistryInv`: a call is registered under its own conversation, so that
  `endCall` removes an entry of the conversation it means.

`NoAbandonedCall` is a second induction on top of `IInv`: `ActiveCallAlive` is
preserved by every step from a state that has both. Each action has a lemma. The
argument lies in `Depart`: if the sender was the last one ringing or in the call,
the count of the same critical section decides `endCall`, and the task itself is
the witness of `Ending`. A goroutine keeps that decision until `endCall` carries
it out (`EndingKept`), and what `endCall` removes is the entry of the call's
conversation, so the call is no longer registered.

`CallAnswerProofs` builds on it. A step of the call subsystem, whatever its handler
does in between, creates a call object (`Creates`), lets one participant respond
(`Responds`), times the ringing participants out (`Expires`), removes a call
(`Removes`) or leaves the calls alone (`Keeps`); `StepKinds` proves that there is
no other kind, and each property then has five cases instead of one per action.

- `CallInvariance`: `Spec => []CallInv`, where `CallInv` adds to `IInv` that nobody
  takes part in a call object that was not created (`Unborn`), and
  `RingingCallUnanswered`;
- `RingingUnanswered`: `Spec => []RingingCallUnanswered`;
- `AnsweredKept`: `Spec => AnsweredStays`, an accepted status is overwritten only by
  the participant's own later event on that call. This is about the status: the call
  itself may be ended under its participants, by the other side or by a watcher
  (`call_timer`);
- `NobodyUnasked`: `Spec => []NobodyInCallUnasked`, under the assumption that clients
  do not announce in_call themselves (`"in_call" \notin Settable`). The status is set
  steps after it was earned, so the invariant says of every goroutine on its way to
  set it that the user has placed or answered a call there (`Deserved`, `TasksFair`);
- `Refinement`: `Spec => ImplementsLifecycle`. A call object is placed once because
  only its creator works on it until then (`Creates`), and nobody is in a call again
  after leaving it because an answer needs a ringing participant (`Responds`).

`CallEndProofs` proves the safety cores of two liveness properties:

- `RingingHasWatcher`: `Spec => []RingingWatched`, whoever is rung by a registered call
  has that call's own watcher before them. A watcher looks its call up by conversation,
  so it may act on a later call and never on its own; but as long as its own call is
  registered, that is the call it finds (`RegistryInv`), and no call gets into the
  registry, and nobody becomes ringing, without a watcher that starts in the same step
  (`CreatedWatched`, `RingingBefore`);
- `DecisionStands`: whoever has decided to end a call keeps the decision, through the
  walks over the users to clear and the reconnects that shorten them, until the call has
  left `activeCalls`.

Both rest on `OnItsOwn`: a goroutine that sleeps, times out, clears or ends is moved by
nobody else, except that a reconnect takes a user off its hands.

### Clients

`ClientProofs` proves, for every set of senders and closers, every capacity of
the egress channel and every number of events:

- `Invariance`: `Spec => []IInv`;
- `TypeCorrect`: `Spec => []TypeOK`;
- `ChannelClosedOnce`: `Spec => []ClosedOnce`;
- `AcceptedInOrder`: `Spec => []NothingSkipped`;
- `Refinement`: `Spec => ImplementsStream`;
- `CloserAwaited`: whoever waits in `once.Do` waits for a goroutine inside the body of
  `Close`;
- `ConnWatched`: after `Close` the connection is closed, or the goroutine it started
  still watches it;
- `NobodyWaitsForTheDead`: no sender is blocked in the select of a client whose
  context is over.

The last three are the safety cores of `CloseReturns`, `ClosedConnEnds` and
`SendersReturn`: there is always somebody who can go on; that they do is fairness.

`IInv` joins `TypeOK` and the two properties with what they need:

- `EventsInv`: a sender in its select and a writer in its write hold an event
  that was really issued, so that what they append belongs to the channel.
- `OnceInv`: a closer in the body of `once.Do` means that `once` is running, there
  is only one, and the channel is not closed before it has left. `closeEgress`
  therefore meets an open channel; that is the argument of `ChannelClosedOnce`.
- `UniqueInv`: an event is with one sender at most and is not accepted while a sender
  still has it, so that it is accepted once.
- `OrderInv`: the context is over before the channel is closed, and then nobody is
  blocked, so that no sender gets an event into a closed channel.
- `AwaitedInv`: what the steps of `Close` that are done have left behind: a running
  `once` has its closer, one that is over a closed channel and a watched connection.

`AcceptedInOrder` is an argument about sequences: the event a sender puts into
the channel comes after everything accepted before it (`LastInChannel`), and what
the writer takes is the head of the channel, so that the event in hand and the
rest of the channel are still the old channel (`HeadThenTail`). `Refinement` uses the
same facts from the other side: the channel is what was accepted and not yet written,
so the event that `Write` of the stream has to take is the one in the writer's hand.

### Presence

`PresenceProofs` proves, for all users, sessions, workers and capacities:

- `Invariance`: `Spec => []IInv`;
- `TypeCorrect`: `Spec => []TypeOK`;
- `EveryoneKnows`: `Spec => []PresenceKnown`;
- `NewerStays`: `Spec => NewerSessionStays`;
- `Refinement`: `Spec => ImplementsBook`;
- `RemovalNeverEnds`: a loop that is about to broadcast a departure stays there, with
  the lock in hand, whatever anybody does;
- `DeparturesUntold`: `known[s]` shrinks by hidden users only: the hub itself never tells
  a session that a user went offline, only a client's `update_status` does;
- `GoneForGood`: a session is online at most once: when a reconnect replaces it, or it
  is removed, no request still under way on its behalf brings it back.

What everybody knows is not inductive: in the middle of `addClient` the newcomer
knows nothing and nobody knows the newcomer. `Untold` says who is still to be told
what at each place of the loop, and `Known` that every other session that is not deaf
knows every user online who is not hidden; a session that ends its context, or is
closed by its writer, becomes deaf in the same step, so the invariant asks nothing of
it afterwards. `Shown` says that a client is offline to newcomers only if it hides.
`OwnSession` (a user is online with a session of their own) makes a broadcast about
a session one about its user, and `Working` that the loop inside `removeClient` holds
the lock, so that it never reaches its broadcast. `Truthful` is the other direction,
which only the refinement needs: nobody knows of a user who is neither online nor
claimed to be, unless the loop is in the middle of a removal. The refinement rests on
`RemovalNeverEnds` too: what `AddressBook` demands after an arrival is kept by what is
broadcast, and that nothing follows a departure because the loop never gets past it.
`GoneForGood` needs an invariant of its own, `Arrivals`: a session is in the register
channel once, not while it is online, and nowhere before it was put there.

### Messages

`MessagesProofs` proves, for all messages, conversations, rooms, workers, retries,
and faults of the database:

- `Invariance`: `Spec => []IInv`;
- `TypeCorrect`: `Spec => []TypeOK`;
- `RefusedHidden`: `Spec => []RefusedNotShown`;
- `NoSecondCopy`: `Spec => []ShownOnce`;
- `DeliveriesRecorded`: `Spec => []ShownDelivered`;
- `RoomsCorrect`: `Spec => []RoomsAreMemberships`;
- `Refinement`: `Spec => ImplementsLifecycle`.

The key is that a message is in the hands of one worker at a time (`Handled`): it is
taken up when it was never sent or when its sender was told that it was not saved,
and both end with the worker that takes it up. `Shown` ties what users saw to that
worker: a message that was shown is not refused, and a worker that still has it is
publishing exactly the copy that was shown. From these, no second copy can be shown,
and nothing shown can be refused or stored again. `Fits` says what the place of a
worker says about its local variables, `Cached` that two conversations share no
room.

### Locks

`HubProofs` proves, for every number of workers, watchers, monitor pages and
checkers and every capacity:

- `Invariance`: `Spec => []IInv`;
- `TypeCorrect`: `Spec => []TypeOK`;
- `NoCircle`: `Spec => []NoDeadlock`;
- `LocksExclude`: a lock held for writing is held by nobody else, and a call whose lock a
  panic has left behind is held for writing by nobody;
- `StopOnce`: `Stop` comes back only when all workers have ended; called a second time
  it gets as far as the closed channel, and never comes back;
- `LoopStuckForGood`, `LockLostForGood`: the two exceptions of `NoDeadlock` are
  permanent; only the end of the process ends them.

The locks have ranks, bucket < room < calls < call < online, and every chain but
that of `removeClient` climbs (`ChainsClimb`). Whoever is blocked is blocked by a
goroutine that holds, or waits to write, the lock it needs; that goroutine is in, can
go on, or waits for a lock of higher rank, and there are five ranks. The exceptions
are those the property names: the loop in `remove`, and a writer that waits for a lock
nobody is left to give up. `IInv` says that a goroutine that
waits has not all locks of its section, and one outside holds none.

The other theorems rest on what a step does to a goroutine that is not the one that
takes it (`NonLockingMoves`, `TakeMoves`, `UnlockMoves`): it stays as it is, or it is
handed the lock for reading that it waited for. `LocksExclude` needs in addition that the
one who hands over is the last to hold the lock. `LoopStuckForGood` follows from it: the lock
the loop waits for is its own, so nobody can hand it on.

### Not proved

Every invariant and action property of the passing runs is proved. Liveness stays
with TLC, as the proof system does not reason about fairness of these actions:
`RingingEnds`, `EndedCallRemoved`, `SessionEnds`, `DialEnds`,
`SendersReturn`, `CloseReturns`, `ClosedConnEnds` and `StopReturns` hold on the
instances of their runs. The safety part of some of them is proved: the three theorems
about `Client` above, `LoopStuckForGood` and `LockLostForGood` for the exceptions of
`StopReturns`, `RingingHasWatcher` for `RingingEnds`, and `DecisionStands` for
`EndedCallRemoved`. `WorkersSurvive` fails
(`hub_recovered`), and `LockLostForGood` says that no fairness helps: a worker that waits
for such a call waits until the process ends. What the capacities and the numbers of
sessions, calls and attempts do to liveness is covered by the bounds of the runs only.

## 5. Plan

What would come next:

1. The presence of `Presence` and the calls of `CallHandler` in one module: what
   becomes of the calls of a client that is removed. As long as the first removal
   stops the hub, nothing does, and no property beyond `OfflineAnnounced` is worth
   stating.
2. `Hub` with the page, a watcher and the checker in the passing run, if the state
   space allows; its locks are proved about for any number of them.
3. An abstract specification of the room cache, memberships of a recent moment, of
   which `RoomsAreMemberships` is the invariant part, and its refinement.

## 6. Not modelled, and why

- Payload parsing and validation, logging, tokens, durations, wording of
  notifications: no state depends on them.
- `SendMessageHandler`, `InsertMessageIdempotent`, `AddMemberToRoom`,
  `RemoveMemberFromRoom`, `Client.Send`, `notifyCallEnded` and `generateaUUID`:
  no caller reaches them.
- Typing indicators: the handler publishes to a room and keeps no state.
- HTTP routes and configuration: stateless.
- Reading: the MongoDB wrapper, history pages (`FindWithPagination`) and user and
  participant filters change nothing, and no line of the code says what a page owes
  its reader.
- What the monitor page counts: `Hub` has the locks it takes, not the numbers.
- Data races. `json.Marshal(call.Participants)` (`call_notifications.go:66`, `95`)
  walks the participants without `call.Mu`, and the monitor page hands live call
  objects to its serialiser (`monitor.go:126`). What is read goes into a notification
  or the page and changes no state of a module.
- The order of `last_message` (`manager.go:224`): two workers may write it in the
  opposite order of their inserts; nothing compares the two, and no property says
  otherwise.
- Real time: timers fire at any moment, or, for sends with a timeout, at any
  moment at which the channel is full.
- What a restarted process finds: rooms, calls and sessions are in memory only and
  begin empty; the messages are in the database, which `Messages` has.

## 7. Running it

    tlc -workers 2 -config CallOverlap.cfg MCCallHandler.tla
    tlapm CallHandlerProofs.tla
    tlapm CallAnswerProofs.tla
    tlapm CallEndProofs.tla
    tlapm PresenceProofs.tla
    tlapm ClientProofs.tla
    tlapm MessagesProofs.tla
    tlapm HubProofs.tla

The `violation` runs end with a counterexample. Mutated forms of definitions, by
which each property was seen to fail, are kept before the definitions they
mutate and are named `...Mutant`.
