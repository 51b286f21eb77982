------------------------------- MODULE Client -------------------------------
(***************************************************************************)
(* One connected client (internal/hub/client.go): the goroutines that send *)
(* to it with SafeSend, the egress channel, the writer goroutine, and Close *)
(* with the goroutine it leaves behind to close the connection.             *)
(*                                                                         *)
(* Close works in three steps, the flag, the context, the channel, and a    *)
(* sender looks at the flag before it enters its select: every order of     *)
(* these steps is explored.  A select takes any case that is ready; a       *)
(* sender that waits in its select is woken by the context.                 *)
(*                                                                         *)
(* Bounds: MaxEvents events are sent in all; BufSize stands for 256.        *)
(***************************************************************************)
EXTENDS Naturals, Sequences

CONSTANTS
    Senders,    \* goroutines that send to the client
    Closers,    \* goroutines that close it: hub loop, checker, Stop, reader
    Writer,     \* the WriteMessage goroutine, which closes it as well
    BufSize,    \* capacity of the egress channel
    MaxEvents   \* how many events are sent

ASSUME BufAssumption == BufSize \in Nat \ {0} /\ MaxEvents \in Nat
ASSUME GoroutineAssumption == Writer \notin Closers

VARIABLES
    sender,         \* where each sender is in SafeSend, and its event
    issued,         \* how many events were handed to SafeSend
    closer,         \* where each closer is in Close
    once,           \* Client.once: not entered, running or over
    closed,         \* Client.closed
    cancelled,      \* Client.ctx is done
    egress,         \* Client.egress
    egressClosed,   \* close(egress) has run
    writer,         \* where the writer is, and the event it writes
    connClosed,     \* Client.connClosed is closed
    watch,          \* the goroutine Close starts: "off", "waiting", "done"
    connOpen,       \* the server has not closed the WebSocket connection
    accepted,       \* the events SafeSend returned true for
    written         \* the events written to the connection

vars == <<sender, issued, closer, once, closed, cancelled, egress, egressClosed,
          writer, connClosed, watch, connOpen, accepted, written>>
closing == <<closer, once, closed, egressClosed, watch>>
writing == <<writer, written, connClosed>>

AllClosers == Closers \cup {Writer}
Events == 1..MaxEvents

Idle == [pc |-> "idle", event |-> 0]

----------------------------------------------------------------------------
(* SafeSend. *)

\* The fast path: a client known to be closed refuses the event.
SafeSend(p) ==
    /\ sender[p] = Idle
    /\ issued < MaxEvents
    /\ issued' = issued + 1
    /\ IF closed THEN UNCHANGED sender
       ELSE sender' = [sender EXCEPT ![p] = [pc |-> "checked", event |-> issued + 1]]
    /\ UNCHANGED <<closing, writing, cancelled, egress, connOpen, accepted>>

\* Mutant: one event too many.
HasRoomMutant == Len(egress) <= BufSize
HasRoom == Len(egress) < BufSize

\* The select, with the cases that are ready: the context is done, the channel
\* is closed (sending on it panics), or it has room; else the sender waits.
selectCase(p) ==
    /\ sender[p].pc = "checked"
    /\ \/ /\ cancelled
          /\ sender' = [sender EXCEPT ![p] = Idle]
          /\ UNCHANGED <<egress, accepted>>
       \/ /\ egressClosed
          /\ sender' = [sender EXCEPT ![p].pc = "panic"]
          /\ UNCHANGED <<egress, accepted>>
       \/ /\ ~egressClosed
          /\ HasRoom
          /\ egress' = Append(egress, sender[p].event)
          /\ accepted' = Append(accepted, sender[p].event)
          /\ sender' = [sender EXCEPT ![p] = Idle]
       \/ /\ ~cancelled /\ ~egressClosed /\ ~HasRoom
          /\ sender' = [sender EXCEPT ![p].pc = "blocked"]
          /\ UNCHANGED <<egress, accepted>>
    /\ UNCHANGED <<issued, closing, writing, cancelled, connOpen>>

\* sendTimeout passes.
\* Mutant: the sender waits for ever.
sendTimeoutMutant(p) == FALSE /\ UNCHANGED vars
sendTimeout(p) ==
    /\ sender[p].pc = "blocked"
    /\ sender' = [sender EXCEPT ![p] = Idle]
    /\ UNCHANGED <<issued, closing, writing, cancelled, egress, connOpen, accepted>>

\* The end of the context wakes the senders that wait in their select.
\* Mutant: it does not, and a sender may still hand over its event much later.
CancelMutant == cancelled' = TRUE /\ UNCHANGED sender
Cancel ==
    /\ cancelled' = TRUE
    /\ sender' = [p \in Senders |-> IF sender[p].pc = "blocked" THEN Idle ELSE sender[p]]

----------------------------------------------------------------------------
(* Close. *)

\* once.Do: the first closer runs the body, the others wait until it is over.
\* Mutant: every closer runs the body.
RunsBodyMutant == TRUE
RunsBody == once = "ready"

Close(c) ==
    /\ closer[c] = "off"
    /\ c = Writer => writer.pc = "exit"
    /\ IF RunsBody
       THEN /\ once' = "running"
            /\ closer' = [closer EXCEPT ![c] = "flag"]
       ELSE /\ closer' = [closer EXCEPT ![c] = "waiting"]
            /\ UNCHANGED once
    /\ UNCHANGED <<sender, issued, closed, cancelled, egress, egressClosed, writing,
                   watch, connOpen, accepted>>

awaitOnce(c) ==
    /\ closer[c] = "waiting"
    /\ once = "over"
    /\ closer' = [closer EXCEPT ![c] = "returned"]
    /\ UNCHANGED <<sender, issued, once, closed, cancelled, egress, egressClosed, writing,
                   watch, connOpen, accepted>>

setClosed(c) ==
    /\ closer[c] = "flag"
    /\ closed' = TRUE
    /\ closer' = [closer EXCEPT ![c] = "cancel"]
    /\ UNCHANGED <<sender, issued, once, cancelled, egress, egressClosed, writing,
                   watch, connOpen, accepted>>

cancel(c) ==
    /\ closer[c] = "cancel"
    /\ Cancel
    /\ closer' = [closer EXCEPT ![c] = "channel"]
    /\ UNCHANGED <<issued, once, closed, egress, egressClosed, writing, watch, connOpen, accepted>>

\* close(egress), which panics when it is closed already; then Close starts the
\* goroutine that watches the connection, and returns.
\* Mutant: Close itself waits for the writer to close the connection.
closeEgressMutant(c) ==
    /\ closer[c] = "channel"
    /\ connClosed
    /\ closer' = [closer EXCEPT ![c] = "returned"]
    /\ once' = "over"
    /\ egressClosed' = TRUE
    /\ watch' = "done"
    /\ UNCHANGED <<sender, issued, closed, cancelled, egress, writing, connOpen, accepted>>
closeEgress(c) ==
    /\ closer[c] = "channel"
    /\ closer' = [closer EXCEPT ![c] = IF egressClosed THEN "panic" ELSE "returned"]
    /\ once' = "over"
    /\ egressClosed' = TRUE
    /\ watch' = IF watch = "off" THEN "waiting" ELSE watch
    /\ UNCHANGED <<sender, issued, closed, cancelled, egress, writing, connOpen, accepted>>

\* The watching goroutine: the writer has closed the connection, or five seconds
\* are over and it is closed here.
\* Mutant: it relies on the writer.
closeAfterTimeoutMutant ==
    /\ watch = "waiting"
    /\ connClosed
    /\ watch' = "done"
    /\ UNCHANGED <<sender, issued, closer, once, closed, cancelled, egress, egressClosed,
                   writing, connOpen, accepted>>
closeAfterTimeout ==
    /\ watch = "waiting"
    /\ watch' = "done"
    /\ connOpen' = FALSE
    /\ UNCHANGED <<sender, issued, closer, once, closed, cancelled, egress, egressClosed,
                   writing, accepted>>

\* ReadMessages, on an inbound queue that is full for inboundSendTimeout: it ends
\* the context and the connection and leaves Close to its deferred function.
dropClient ==
    /\ ~cancelled
    /\ Cancel
    /\ connOpen' = FALSE
    /\ UNCHANGED <<issued, closing, writing, egress, accepted>>

----------------------------------------------------------------------------
(* WriteMessage. *)

\* An event is received; a sender that waits moves its own into the place.
receive ==
    /\ writer.pc = "select"
    /\ egress # <<>>
    /\ writer' = [pc |-> "write", event |-> Head(egress)]
    /\ IF \E p \in Senders : sender[p].pc = "blocked"
       THEN \E p \in Senders :
              /\ sender[p].pc = "blocked"
              /\ egress' = Append(Tail(egress), sender[p].event)
              /\ accepted' = Append(accepted, sender[p].event)
              /\ sender' = [sender EXCEPT ![p] = Idle]
       ELSE /\ egress' = Tail(egress)
            /\ UNCHANGED <<sender, accepted>>
    /\ UNCHANGED <<issued, closing, cancelled, connClosed, connOpen, written>>

\* The context is done, or the channel is closed and drained.
stopWriting ==
    /\ writer.pc = "select"
    /\ cancelled \/ (egressClosed /\ egress = <<>>)
    /\ writer' = [pc |-> "exit", event |-> 0]
    /\ UNCHANGED <<sender, issued, closing, cancelled, egress, connClosed, connOpen, accepted, written>>

\* The writer's place after a failed write.
\* Mutant: it goes on with the next event.
AfterFailureMutant == "select"
AfterFailure == "exit"

\* WriteJSON: it succeeds on an open connection, and may fail on any.
write ==
    /\ writer.pc = "write"
    /\ \/ /\ connOpen
          /\ written' = Append(written, writer.event)
          /\ writer' = [pc |-> "select", event |-> 0]
       \/ /\ writer' = [pc |-> AfterFailure, event |-> 0]
          /\ UNCHANGED written
    /\ UNCHANGED <<sender, issued, closing, cancelled, egress, connClosed, connOpen, accepted>>

\* The writer's deferred cleanup, after its own Close.
closeConn ==
    /\ writer.pc = "exit"
    /\ closer[Writer] = "returned"
    /\ connOpen' = FALSE
    /\ connClosed' = TRUE
    /\ writer' = [pc |-> "done", event |-> 0]
    /\ UNCHANGED <<sender, issued, closing, cancelled, egress, accepted, written>>

----------------------------------------------------------------------------

Init ==
    /\ sender = [p \in Senders |-> Idle]
    /\ issued = 0
    /\ closer = [c \in AllClosers |-> "off"]
    /\ once = "ready"
    /\ closed = FALSE
    /\ cancelled = FALSE
    /\ egress = <<>>
    /\ egressClosed = FALSE
    /\ writer = [pc |-> "select", event |-> 0]
    /\ connClosed = FALSE
    /\ watch = "off"
    /\ connOpen = TRUE
    /\ accepted = <<>>
    /\ written = <<>>

Send(p) == selectCase(p) \/ sendTimeout(p)
CloseBody(c) == awaitOnce(c) \/ setClosed(c) \/ cancel(c) \/ closeEgress(c)
WriteLoop == receive \/ stopWriting \/ Close(Writer) \/ closeConn

Next ==
    \/ \E p \in Senders : SafeSend(p) \/ Send(p)
    \/ \E c \in Closers : Close(c)
    \/ \E c \in AllClosers : CloseBody(c)
    \/ closeAfterTimeout \/ dropClient
    \/ WriteLoop \/ write

Spec == Init /\ [][Next]_vars

\* Goroutines that can run do, and timers fire.  A write is not fair: a peer that
\* does not read holds it up for longer than Close waits.
Fairness ==
    /\ \A p \in Senders : WF_vars(Send(p))
    /\ \A c \in AllClosers : WF_vars(CloseBody(c))
    /\ WF_vars(closeAfterTimeout) /\ WF_vars(WriteLoop)

FairSpec == Spec /\ Fairness

----------------------------------------------------------------------------
(* Properties. *)

SenderState == [pc : {"idle", "checked", "blocked", "panic"}, event : 0..MaxEvents]
WriterState == [pc : {"select", "write", "exit", "done"}, event : 0..MaxEvents]

\* The shape of the state; the channel keeps within its capacity.
TypeOK ==
    /\ sender \in [Senders -> SenderState]
    /\ issued \in 0..MaxEvents
    /\ closer \in [AllClosers ->
         {"off", "waiting", "flag", "cancel", "channel", "returned", "panic"}]
    /\ once \in {"ready", "running", "over"}
    /\ closed \in BOOLEAN /\ cancelled \in BOOLEAN /\ egressClosed \in BOOLEAN
    /\ connClosed \in BOOLEAN /\ connOpen \in BOOLEAN
    /\ egress \in Seq(Events) /\ Len(egress) <= BufSize
    /\ writer \in WriterState
    /\ watch \in {"off", "waiting", "done"}
    /\ accepted \in Seq(Events)
    /\ written \in Seq(Events)

\* Nothing is lost, doubled or overtaken on the way of a live client: while the
\* writer is in its loop, what SafeSend accepted is what was written, then the
\* event being written, then the channel.  (A full channel, senders waiting for
\* a place, timeouts and a Close under way make no difference.)
NothingSkipped ==
    writer.pc \in {"select", "write"} =>
        accepted = written \o (IF writer.pc = "write" THEN <<writer.event>> ELSE <<>>) \o egress

\* The egress channel is closed once, whoever calls Close and however often:
\* closing it twice panics.
ClosedOnce == \A c \in AllClosers : closer[c] # "panic"

\* A client is a stream: what SafeSend accepts is written in that order, each event
\* once, until the writer leaves its loop or the connection is closed; and nothing
\* is accepted once Close has closed the channel, also not from a sender that was
\* past the flag, or waiting for a place, when Close began.
Stream == INSTANCE EventStream WITH
    ended <- writer.pc \in {"exit", "done"} \/ ~connOpen,
    shut <- egressClosed
ImplementsStream == Stream!Spec

\* Every SafeSend returns, also with a writer that is stuck in a write.
SendersReturn == \A p \in Senders : sender[p].pc \in {"checked", "blocked"}
                                         ~> sender[p].pc \in {"idle", "panic"}

\* Every Close returns, the writer's own too: a closer waits for nobody who
\* waits for it.
CloseReturns == \A c \in AllClosers : closer[c] = "waiting" ~> closer[c] = "returned"

\* The connection of a closed client is closed, also with a writer that is stuck
\* in a write.
ClosedConnEnds == closed ~> ~connOpen

----------------------------------------------------------------------------
(* What a comment of the code says of it, and the code does not do. *)

\* manager.go:281, "Use SafeSend to prevent panic on closed channel".
SendersNeverPanic == \A p \in Senders : sender[p].pc # "panic"

=============================================================================
