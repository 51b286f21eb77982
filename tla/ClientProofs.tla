---------------------------- MODULE ClientProofs ----------------------------
(***************************************************************************)
(* Proofs about Client, for any number of senders and closers and any      *)
(* capacity of the channel: the egress channel is closed once, nothing is  *)
(* lost, doubled or overtaken between SafeSend and a writer in its loop,   *)
(* and the client is a stream of events that ends (EventStream).           *)
(***************************************************************************)
EXTENDS Client, SequenceTheorems, TLAPS

\* The places of a closer inside the body of once.Do.
Body == {"flag", "cancel", "channel"}

\* A sender past the flag holds its event until it is accepted or given up.
Holds(p) == sender[p].pc \in {"checked", "blocked"}

Fresh(e) == \A i \in 1 .. Len(accepted) : accepted[i] # e

\* A sender in its select and a writer in its write hold a real event.
EventsInv ==
    /\ \A p \in Senders : sender[p].pc \in {"checked", "blocked"} => sender[p].event \in Events
    /\ writer.pc = "write" => writer.event \in Events

\* Only one closer is ever in the body, and the channel is open until it leaves.
OnceInv ==
    /\ ClosedOnce
    /\ \A c \in AllClosers : closer[c] \in Body => once = "running"
    /\ \A c, d \in AllClosers : closer[c] \in Body /\ closer[d] \in Body => c = d
    /\ egressClosed => once = "over"

\* An event is one sender's until it is accepted, and is accepted once.
UniqueInv ==
    /\ \A p \in Senders : Holds(p) => sender[p].event <= issued /\ Fresh(sender[p].event)
    /\ \A p, q \in Senders : Holds(p) /\ Holds(q) /\ sender[p].event = sender[q].event => p = q
    /\ \A i \in 1 .. Len(accepted) : accepted[i] <= issued

\* What Close has done: the context is over before the channel is closed, and a
\* context that is over has woken every sender that waited.
OrderInv ==
    /\ \A c \in AllClosers : closer[c] = "channel" => cancelled
    /\ egressClosed => cancelled
    /\ cancelled => \A p \in Senders : sender[p].pc # "blocked"

\* Who is left to go on: a body that runs has a closer in it, and a body that is
\* over has closed the channel and left the watching goroutine behind.
AwaitedInv ==
    /\ once = "running" => \E c \in AllClosers : closer[c] \in Body
    /\ once = "over" => egressClosed /\ watch # "off"
    /\ watch = "done" => ~connOpen

IInv ==
    /\ TypeOK /\ EventsInv /\ OnceInv /\ NothingSkipped
    /\ UniqueInv /\ OrderInv /\ AwaitedInv

\* What the writer has taken from the channel and not yet written.
InHand == IF writer.pc = "write" THEN <<writer.event>> ELSE <<>>

----------------------------------------------------------------------------
(* Facts about sequences. *)

\* A sequence is its head followed by its tail.
LEMMA HeadThenTail ==
  ASSUME NEW S, NEW s \in Seq(S), s # <<>>
  PROVE  s = <<Head(s)>> \o Tail(s)
<1>1. /\ Head(s) \in S /\ Tail(s) \in Seq(S) /\ Len(Tail(s)) = Len(s) - 1
      /\ \A i \in 1 .. Len(Tail(s)) : Tail(s)[i] = s[i+1]
  BY HeadTailProperties
<1>2. Len(s) \in Nat \ {0} /\ Head(s) = s[1]
  BY EmptySeq
<1>3. <<Head(s)>> \in Seq(S) /\ Len(<<Head(s)>>) = 1 /\ <<Head(s)>>[1] = Head(s)
  BY <1>1
<1> DEFINE t == <<Head(s)>> \o Tail(s)
<1>4. /\ t \in Seq(S) /\ Len(t) = Len(s)
      /\ \A i \in 1 .. Len(t) : t[i] = IF i <= 1 THEN <<Head(s)>>[i] ELSE Tail(s)[i - 1]
  BY <1>1, <1>2, <1>3, ConcatProperties
<1>5. \A i \in 1 .. Len(s) : t[i] = s[i]
  <2> SUFFICES ASSUME NEW i \in 1 .. Len(s) PROVE t[i] = s[i]
    OBVIOUS
  <2>1. CASE i = 1
    BY <2>1, <1>2, <1>3, <1>4
  <2>2. CASE i # 1
    <3>1. i - 1 \in 1 .. Len(Tail(s)) /\ i \in 1 .. Len(t) /\ ~(i <= 1)
      BY <2>2, <1>1, <1>2, <1>4
    <3>2. t[i] = Tail(s)[i - 1]
      BY <3>1, <1>4
    <3>3. Tail(s)[i - 1] = s[(i - 1) + 1]
      BY <3>1, <1>1
    <3>4. (i - 1) + 1 = i
      OBVIOUS
    <3> QED
      BY <3>2, <3>3, <3>4
  <2> QED
    BY <2>1, <2>2
<1> HIDE DEF t
<1>6. s = t
  BY <1>4, <1>5, SeqEqual
<1> QED
  BY <1>6 DEF t

\* What is put at the end of the channel comes last of all.
LEMMA LastInChannel ==
  ASSUME NEW S, NEW a \in Seq(S), NEW b \in Seq(S), NEW c \in Seq(S), NEW d \in Seq(S)
  PROVE  (a \o b \o c) \o d = a \o b \o (c \o d)
<1>1. a \o b \in Seq(S)
  BY ConcatProperties
<1> QED
  BY <1>1, ConcatAssociative

----------------------------------------------------------------------------
(* Every step keeps the shape of the state. *)

LEMMA IdleTyped == Idle \in SenderState /\ Idle.pc = "idle"
  BY BufAssumption DEF Idle, SenderState

LEMMA SafeSendTyped ==
  ASSUME TypeOK, EventsInv, NEW p \in Senders, SafeSend(p)
  PROVE  TypeOK' /\ EventsInv'
<1> DEFINE checked == [pc |-> "checked", event |-> issued + 1]
<1>1. issued + 1 \in Events /\ issued' = issued + 1
  BY BufAssumption DEF SafeSend, TypeOK, Events
<1>2. checked \in SenderState /\ checked.event \in Events
  BY <1>1, BufAssumption DEF SenderState, Events
<1>3. sender' = sender \/ sender' = [sender EXCEPT ![p] = checked]
  BY DEF SafeSend
<1> HIDE DEF checked
<1>4. /\ sender' \in [Senders -> SenderState]
      /\ \A q \in Senders : sender'[q].pc \in {"checked", "blocked"} => sender'[q].event \in Events
  BY <1>2, <1>3 DEF TypeOK, EventsInv
<1>5. issued' \in 0..MaxEvents
  BY <1>1, BufAssumption DEF Events
<1> QED
  BY <1>4, <1>5 DEF SafeSend, TypeOK, EventsInv, closing, writing

LEMMA SelectTyped ==
  ASSUME TypeOK, EventsInv, NEW p \in Senders, selectCase(p) \/ sendTimeout(p)
  PROVE  TypeOK' /\ EventsInv'
<1>1. CASE selectCase(p) /\ egress' # egress
  <2>1. /\ HasRoom
        /\ egress' = Append(egress, sender[p].event)
        /\ accepted' = Append(accepted, sender[p].event)
        /\ sender' = [sender EXCEPT ![p] = Idle]
    BY <1>1 DEF selectCase
  <2>2. sender[p].event \in Events
    BY <1>1 DEF selectCase, EventsInv
  <2>3. /\ egress' \in Seq(Events) /\ Len(egress') = Len(egress) + 1
        /\ accepted' \in Seq(Events)
    BY <2>1, <2>2, AppendProperties DEF TypeOK
  <2>4. Len(egress') <= BufSize
    BY <2>1, <2>3, BufAssumption, LenProperties DEF TypeOK, HasRoom
  <2> QED
    BY <1>1, <2>1, <2>3, <2>4, IdleTyped DEF selectCase, TypeOK, EventsInv, closing, writing
<1>2. CASE selectCase(p) /\ egress' = egress
  <2> DEFINE at(pc) == [sender[p] EXCEPT !.pc = pc]
  <2>1. sender[p].event \in Events /\ sender[p] \in SenderState
    BY <1>2 DEF selectCase, EventsInv, TypeOK
  <2>2. \A pc \in {"panic", "blocked"} :
          at(pc) \in SenderState /\ at(pc).event \in Events
    BY <2>1 DEF SenderState
  <2>3. accepted' = accepted
    BY <1>2, AppendProperties, <2>1 DEF selectCase, TypeOK
  <2>4. PICK s \in {Idle, at("panic"), at("blocked")} : sender' = [sender EXCEPT ![p] = s]
    BY <1>2, <2>1 DEF selectCase
  <2>5. s \in SenderState /\ (s.pc \in {"checked", "blocked"} => s.event \in Events)
    BY <2>2, <2>4, IdleTyped
  <2> HIDE DEF at
  <2> QED
    BY <1>2, <2>3, <2>4, <2>5 DEF selectCase, TypeOK, EventsInv, closing, writing
<1>3. CASE sendTimeout(p)
  BY <1>3, IdleTyped DEF sendTimeout, TypeOK, EventsInv, closing, writing
<1> QED
  BY <1>1, <1>2, <1>3

LEMMA CancelTyped ==
  ASSUME TypeOK, EventsInv, Cancel
  PROVE  /\ sender' \in [Senders -> SenderState]
         /\ cancelled' \in BOOLEAN
         /\ \A p \in Senders : sender'[p].pc \in {"checked", "blocked"} =>
              sender'[p].event \in Events
  BY IdleTyped DEF Cancel, TypeOK, EventsInv

LEMMA CloserTyped ==
  ASSUME TypeOK, EventsInv, NEW c \in AllClosers, Close(c) \/ CloseBody(c)
  PROVE  TypeOK' /\ EventsInv'
<1>1. CASE Close(c)
  BY <1>1 DEF Close, TypeOK, EventsInv, writing
<1>2. CASE awaitOnce(c)
  BY <1>2 DEF awaitOnce, TypeOK, EventsInv, writing
<1>3. CASE setClosed(c)
  BY <1>3 DEF setClosed, TypeOK, EventsInv, writing
<1>4. CASE cancel(c)
  BY <1>4, CancelTyped DEF cancel, TypeOK, EventsInv, writing
<1>5. CASE closeEgress(c)
  BY <1>5 DEF closeEgress, TypeOK, EventsInv, writing
<1> QED
  BY <1>1, <1>2, <1>3, <1>4, <1>5 DEF CloseBody

LEMMA WriterStates ==
  /\ \A pc \in {"select", "exit", "done"} : [pc |-> pc, event |-> 0] \in WriterState
  /\ \A e \in Events : [pc |-> "write", event |-> e] \in WriterState
  BY BufAssumption DEF WriterState, Events

LEMMA ReceiveTyped ==
  ASSUME TypeOK, EventsInv, receive
  PROVE  TypeOK' /\ EventsInv'
<1>1. /\ Head(egress) \in Events /\ Tail(egress) \in Seq(Events)
      /\ Len(Tail(egress)) = Len(egress) - 1 /\ Len(egress) \in Nat
  BY HeadTailProperties, LenProperties DEF receive, TypeOK
<1>2. writer' \in WriterState /\ writer'.event \in Events
  BY <1>1, WriterStates DEF receive
<1>3. /\ egress' \in Seq(Events) /\ Len(egress') <= BufSize /\ accepted' \in Seq(Events)
      /\ sender' = sender \/ \E p \in Senders : sender' = [sender EXCEPT ![p] = Idle]
  <2>1. CASE \E p \in Senders : sender[p].pc = "blocked"
    <3>1. PICK p \in Senders :
            /\ sender[p].pc = "blocked"
            /\ egress' = Append(Tail(egress), sender[p].event)
            /\ accepted' = Append(accepted, sender[p].event)
            /\ sender' = [sender EXCEPT ![p] = Idle]
      BY <2>1 DEF receive
    <3>2. sender[p].event \in Events
      BY <3>1 DEF EventsInv
    <3>3. /\ egress' \in Seq(Events) /\ Len(egress') = Len(Tail(egress)) + 1
          /\ accepted' \in Seq(Events)
      BY <1>1, <3>1, <3>2, AppendProperties DEF TypeOK
    <3>4. Len(egress') <= BufSize
      BY <1>1, <3>3, BufAssumption DEF TypeOK
    <3> QED
      BY <3>1, <3>3, <3>4
  <2>2. CASE ~ \E p \in Senders : sender[p].pc = "blocked"
    <3>1. egress' = Tail(egress) /\ UNCHANGED <<sender, accepted>>
      BY <2>2 DEF receive
    <3>2. Len(egress') <= BufSize
      BY <1>1, <3>1, BufAssumption DEF TypeOK
    <3> QED
      BY <1>1, <3>1, <3>2 DEF TypeOK
  <2> QED
    BY <2>1, <2>2
<1>4. /\ sender' \in [Senders -> SenderState]
      /\ \A q \in Senders : sender'[q].pc \in {"checked", "blocked"} => sender'[q].event \in Events
  BY <1>3, IdleTyped DEF TypeOK, EventsInv
<1>5. UNCHANGED <<issued, closing, cancelled, connClosed, connOpen, written>>
  BY DEF receive
<1> QED
  BY <1>2, <1>3, <1>4, <1>5 DEF TypeOK, EventsInv, closing

LEMMA WriterTyped ==
  ASSUME TypeOK, EventsInv, stopWriting \/ write \/ closeConn
  PROVE  TypeOK' /\ EventsInv'
<1>1. \E pc \in {"select", "exit", "done"} : writer' = [pc |-> pc, event |-> 0]
  BY DEF stopWriting, write, AfterFailure, closeConn
<1>2. writer' \in WriterState /\ writer'.pc # "write"
  BY <1>1, WriterStates
<1>3. written' \in Seq(Events)
  <2>1. CASE writer.pc = "write" /\ written' = Append(written, writer.event)
    <3>1. writer.event \in Events
      BY <2>1 DEF EventsInv
    <3> QED
      BY <2>1, <3>1, AppendProperties DEF TypeOK
  <2>2. CASE written' = written
    BY <2>2 DEF TypeOK
  <2> QED
    BY <2>1, <2>2 DEF stopWriting, write, closeConn
<1>4. connOpen' \in BOOLEAN /\ connClosed' \in BOOLEAN
  BY DEF stopWriting, write, closeConn, TypeOK
<1>5. UNCHANGED <<sender, issued, closing, cancelled, egress, accepted>>
  BY DEF stopWriting, write, closeConn
<1> QED
  BY <1>2, <1>3, <1>4, <1>5 DEF TypeOK, EventsInv, closing

LEMMA NextTyped ==
  ASSUME TypeOK, EventsInv, [Next]_vars
  PROVE  TypeOK' /\ EventsInv'
<1>1. CASE \E c \in AllClosers : Close(c) \/ CloseBody(c)
  BY <1>1, CloserTyped
<1>2. CASE \E p \in Senders : SafeSend(p) \/ Send(p)
  BY <1>2, SafeSendTyped, SelectTyped DEF Send
<1>3. CASE closeAfterTimeout
  BY <1>3 DEF closeAfterTimeout, TypeOK, EventsInv, writing
<1>4. CASE dropClient
  BY <1>4, CancelTyped DEF dropClient, TypeOK, EventsInv, writing, closing
<1>5. CASE receive \/ stopWriting \/ write \/ closeConn
  BY <1>5, ReceiveTyped, WriterTyped
<1>6. CASE UNCHANGED vars
  BY <1>6 DEF vars, TypeOK, EventsInv
<1> QED
  BY <1>1, <1>2, <1>3, <1>4, <1>5, <1>6 DEF Next, WriteLoop, AllClosers

----------------------------------------------------------------------------
(* Every step keeps one closer in the body. *)

LEMMA CloserOnce ==
  ASSUME TypeOK, OnceInv, NEW c \in AllClosers, Close(c) \/ CloseBody(c)
  PROVE  OnceInv'
<1>1. CASE Close(c)
  BY <1>1 DEF Close, RunsBody, OnceInv, ClosedOnce, Body, TypeOK
<1>2. CASE awaitOnce(c)
  BY <1>2 DEF awaitOnce, OnceInv, ClosedOnce, Body, TypeOK
<1>3. CASE setClosed(c)
  BY <1>3 DEF setClosed, OnceInv, ClosedOnce, Body, TypeOK
<1>4. CASE cancel(c)
  BY <1>4 DEF cancel, OnceInv, ClosedOnce, Body, TypeOK
<1>5. CASE closeEgress(c)
  <2>1. ~egressClosed
    BY <1>5 DEF closeEgress, OnceInv, Body
  <2>2. \A d \in AllClosers : closer'[d] \notin Body
    BY <1>5, <2>1 DEF closeEgress, OnceInv, Body, TypeOK
  <2> QED
    BY <1>5, <2>1, <2>2 DEF closeEgress, OnceInv, ClosedOnce, TypeOK
<1> QED
  BY <1>1, <1>2, <1>3, <1>4, <1>5 DEF CloseBody

LEMMA NextOnce ==
  ASSUME TypeOK, OnceInv, [Next]_vars
  PROVE  OnceInv'
<1>1. CASE \E c \in AllClosers : Close(c) \/ CloseBody(c)
  BY <1>1, CloserOnce
<1>2. CASE UNCHANGED <<closer, once, egressClosed>>
  BY <1>2 DEF OnceInv, ClosedOnce
<1>3. CASE \E p \in Senders : SafeSend(p) \/ Send(p)
  BY <1>2, <1>3 DEF SafeSend, Send, selectCase, sendTimeout, closing
<1>4. CASE closeAfterTimeout \/ dropClient \/ receive \/ stopWriting \/ write \/ closeConn
  BY <1>2, <1>4 DEF closeAfterTimeout, dropClient, receive, stopWriting, write, closeConn, closing
<1>5. CASE UNCHANGED vars
  BY <1>2, <1>5 DEF vars
<1> QED
  BY <1>1, <1>3, <1>4, <1>5 DEF Next, WriteLoop, AllClosers

----------------------------------------------------------------------------
(* Every step keeps the accepted events in their order. *)

LEMMA InHandTyped ==
  ASSUME EventsInv
  PROVE  InHand \in Seq(Events)
<1>1. CASE writer.pc = "write"
  <2>1. writer.event \in Events
    BY <1>1 DEF EventsInv
  <2> QED
    BY <1>1, <2>1 DEF InHand
<1>2. CASE writer.pc # "write"
  BY <1>2 DEF InHand
<1> QED
  BY <1>1, <1>2

LEMMA SelectInOrder ==
  ASSUME TypeOK, EventsInv, NothingSkipped, NEW p \in Senders, selectCase(p)
  PROVE  NothingSkipped'
<1>1. UNCHANGED <<writer, written>>
  BY DEF selectCase, writing
<1>2. CASE UNCHANGED <<egress, accepted>>
  BY <1>1, <1>2 DEF NothingSkipped
<1>3. CASE /\ egress' = Append(egress, sender[p].event)
           /\ accepted' = Append(accepted, sender[p].event)
  <2>1. sender[p].event \in Events
    BY DEF selectCase, EventsInv
  <2> SUFFICES ASSUME writer.pc \in {"select", "write"}
               PROVE  accepted' = written \o InHand \o egress'
    BY <1>1 DEF NothingSkipped, InHand
  <2>2. accepted = written \o InHand \o egress
    BY DEF NothingSkipped, InHand
  <2>3. /\ egress' = egress \o <<sender[p].event>>
        /\ accepted' = accepted \o <<sender[p].event>>
    BY <1>3, <2>1, AppendIsConcat DEF TypeOK
  <2>4. (written \o InHand \o egress) \o <<sender[p].event>>
          = written \o InHand \o (egress \o <<sender[p].event>>)
    <3>1. <<sender[p].event>> \in Seq(Events)
      BY <2>1
    <3>2. written \in Seq(Events) /\ InHand \in Seq(Events) /\ egress \in Seq(Events)
      BY InHandTyped DEF TypeOK
    <3> QED
      BY <3>1, <3>2, LastInChannel, SMTT(30)
  <2> QED
    BY <2>2, <2>3, <2>4
<1> QED
  BY <1>2, <1>3 DEF selectCase

LEMMA ReceiveInOrder ==
  ASSUME TypeOK, EventsInv, NothingSkipped, receive
  PROVE  NothingSkipped'
<1> DEFINE h == <<Head(egress)>>
           t == Tail(egress)
<1>1. writer' = [pc |-> "write", event |-> Head(egress)] /\ written' = written
  BY DEF receive
<1>2. egress \in Seq(Events) /\ egress # <<>> /\ written \in Seq(Events)
  BY DEF receive, TypeOK
<1>3. h \in Seq(Events) /\ t \in Seq(Events)
  BY <1>2, HeadTailProperties
<1>4. egress = h \o t
  BY <1>2, HeadThenTail
<1> SUFFICES accepted' = written \o h \o egress'
  BY <1>1 DEF NothingSkipped
<1>5. accepted = written \o h \o t
  <2>1. accepted = written \o <<>> \o egress
    BY DEF receive, NothingSkipped
  <2>2. written \o <<>> = written
    BY <1>2, ConcatEmptySeq
  <2>3. (written \o h) \o t = written \o (h \o t)
    BY <1>2, <1>3, ConcatAssociative
  <2> HIDE DEF h, t
  <2> QED
    BY <1>4, <2>1, <2>2, <2>3
<1>6. CASE \E p \in Senders : sender[p].pc = "blocked"
  <2>1. PICK p \in Senders :
          /\ sender[p].pc = "blocked"
          /\ egress' = Append(t, sender[p].event)
          /\ accepted' = Append(accepted, sender[p].event)
    BY <1>6 DEF receive
  <2>2. sender[p].event \in Events
    BY <2>1 DEF EventsInv
  <2>3. /\ egress' = t \o <<sender[p].event>>
        /\ accepted' = accepted \o <<sender[p].event>>
    BY <1>3, <2>1, <2>2, AppendIsConcat DEF TypeOK
  <2> HIDE DEF h, t
  <2>4. (written \o h \o t) \o <<sender[p].event>>
          = written \o h \o (t \o <<sender[p].event>>)
    <3>1. <<sender[p].event>> \in Seq(Events)
      BY <2>2
    <3> QED
      BY <1>2, <1>3, <3>1, LastInChannel, SMTT(30)
  <2> QED
    BY <1>5, <2>3, <2>4
<1>7. CASE ~ \E p \in Senders : sender[p].pc = "blocked"
  <2>1. egress' = t /\ accepted' = accepted
    BY <1>7 DEF receive
  <2> HIDE DEF h, t
  <2> QED
    BY <1>5, <2>1
<1> QED
  BY <1>6, <1>7

LEMMA WriteInOrder ==
  ASSUME TypeOK, EventsInv, NothingSkipped, write
  PROVE  NothingSkipped'
<1>1. UNCHANGED <<egress, accepted>>
  BY DEF write
<1>2. CASE writer' = [pc |-> AfterFailure, event |-> 0]
  BY <1>2 DEF NothingSkipped, AfterFailure
<1>3. CASE /\ written' = Append(written, writer.event)
           /\ writer' = [pc |-> "select", event |-> 0]
  <2>1. writer.pc = "write" /\ writer.event \in Events
    BY DEF write, EventsInv
  <2>2. accepted = written \o <<writer.event>> \o egress
    BY <2>1 DEF NothingSkipped
  <2>3. /\ written' = written \o <<writer.event>>
        /\ written' \in Seq(Events)
    BY <1>3, <2>1, AppendIsConcat, AppendProperties DEF TypeOK
  <2>4. written' \o <<>> = written'
    BY <2>3, ConcatEmptySeq
  <2> QED
    BY <1>1, <1>3, <2>2, <2>3, <2>4 DEF NothingSkipped
<1> QED
  BY <1>2, <1>3 DEF write

LEMMA NextInOrder ==
  ASSUME TypeOK, EventsInv, NothingSkipped, [Next]_vars
  PROVE  NothingSkipped'
<1>1. CASE UNCHANGED <<accepted, written, writer, egress>>
  BY <1>1 DEF NothingSkipped
<1>2. CASE \E c \in AllClosers : Close(c) \/ CloseBody(c)
  BY <1>1, <1>2 DEF Close, CloseBody, awaitOnce, setClosed, cancel, closeEgress, writing
<1>3. CASE \E p \in Senders : SafeSend(p) \/ sendTimeout(p)
  BY <1>1, <1>3 DEF SafeSend, sendTimeout, writing
<1>4. CASE closeAfterTimeout \/ dropClient
  BY <1>1, <1>4 DEF closeAfterTimeout, dropClient, writing
<1>5. CASE stopWriting \/ closeConn
  BY <1>5 DEF stopWriting, closeConn, NothingSkipped
<1>6. CASE UNCHANGED vars
  BY <1>1, <1>6 DEF vars
<1> QED
  BY <1>2, <1>3, <1>4, <1>5, <1>6, SelectInOrder, ReceiveInOrder, WriteInOrder
     DEF Next, Send, WriteLoop, AllClosers

----------------------------------------------------------------------------
(* An event is accepted at most once. *)

\* What Append does to the places of a sequence.
LEMMA AppendOf ==
  ASSUME NEW S, NEW s \in Seq(S), NEW e \in S
  PROVE  /\ Append(s, e) \in Seq(S) /\ Len(Append(s, e)) = Len(s) + 1 /\ Len(s) \in Nat
         /\ \A i \in 1 .. Len(s) + 1 :
              Append(s, e)[i] = IF i = Len(s) + 1 THEN e ELSE s[i]
  BY AppendProperties, LenProperties

\* A sender hands its event over.
LEMMA AcceptUnique ==
  ASSUME TypeOK, EventsInv, UniqueInv, NEW p \in Senders, Holds(p),
         accepted' = Append(accepted, sender[p].event),
         sender' = [sender EXCEPT ![p] = Idle],
         issued' = issued
  PROVE  UniqueInv'
<1>1. sender[p].event \in Events /\ sender[p].event <= issued /\ Fresh(sender[p].event)
  BY DEF EventsInv, UniqueInv, Holds
<1>2. /\ Len(accepted') = Len(accepted) + 1 /\ Len(accepted) \in Nat
      /\ \A i \in 1 .. Len(accepted) + 1 :
           accepted'[i] = IF i = Len(accepted) + 1 THEN sender[p].event ELSE accepted[i]
  BY <1>1, AppendOf DEF TypeOK
<1>3. \A i \in 1 .. Len(accepted') :
        \/ i \in 1 .. Len(accepted) /\ accepted'[i] = accepted[i]
        \/ accepted'[i] = sender[p].event
  BY <1>2
<1>4. \A q \in Senders : Holds(q)' => Holds(q) /\ q # p /\ sender'[q] = sender[q]
  BY IdleTyped DEF Holds, TypeOK
<1>5. \A q \in Senders : Holds(q)' => Fresh(sender[q].event)'
  BY <1>3, <1>4 DEF UniqueInv, Fresh, Holds
<1>6. \A i \in 1 .. Len(accepted') : accepted'[i] <= issued'
  BY <1>1, <1>3 DEF UniqueInv
<1> QED
  BY <1>4, <1>5, <1>6 DEF UniqueInv

\* Senders only leave their select.
LEMMA LeaveUnique ==
  ASSUME TypeOK, UniqueInv, UNCHANGED <<accepted, issued>>,
         \A q \in Senders : Holds(q)' => Holds(q) /\ sender'[q].event = sender[q].event
  PROVE  UniqueInv'
  BY DEF UniqueInv, Fresh

LEMMA SafeSendUnique ==
  ASSUME TypeOK, EventsInv, UniqueInv, NEW p \in Senders, SafeSend(p)
  PROVE  UniqueInv'
<1> DEFINE e == issued + 1
<1>1. issued \in Nat /\ issued' = e /\ accepted' = accepted /\ issued < e
  BY DEF SafeSend, TypeOK
<1>2. /\ accepted \in Seq(Events)
      /\ \A i \in 1 .. Len(accepted) : accepted[i] \in Nat /\ accepted[i] <= issued
  <2>1. accepted \in Seq(Events)
    BY DEF TypeOK
  <2>2. \A i \in 1 .. Len(accepted) : accepted[i] \in Events
    BY <2>1, ElementOfSeq
  <2> QED
    BY <2>1, <2>2 DEF UniqueInv, Events
<1>3. \A q \in Senders : Holds(q) => sender[q].event \in Nat /\ sender[q].event <= issued
  BY DEF EventsInv, UniqueInv, Holds, Events
<1>4. \/ sender' = sender
      \/ sender' = [sender EXCEPT ![p] = [pc |-> "checked", event |-> e]]
  BY DEF SafeSend
<1>5. \A q \in Senders : Holds(q)' =>
        \/ Holds(q) /\ sender'[q] = sender[q]
        \/ q = p /\ ~Holds(p) /\ sender'[q].event = e
  BY <1>4, IdleTyped DEF Holds, TypeOK, SafeSend
<1>6. \A x \in Nat : x <= issued => x <= e /\ x # e
  BY <1>1
<1> HIDE DEF e
<1>7. \A q \in Senders : Holds(q)' => sender'[q].event <= e /\ Fresh(sender[q].event)'
  <2> SUFFICES ASSUME NEW q \in Senders, Holds(q)'
               PROVE  sender'[q].event <= e /\ Fresh(sender[q].event)'
    OBVIOUS
  <2>1. CASE Holds(q) /\ sender'[q] = sender[q]
    BY <2>1, <1>1, <1>3, <1>6 DEF UniqueInv, Fresh
  <2>2. CASE sender'[q].event = e
    BY <2>2, <1>1, <1>2, <1>6 DEF Fresh, e
  <2> QED
    BY <1>5, <2>1, <2>2
<1>8. \A q, r \in Senders : Holds(q)' /\ Holds(r)' /\ sender'[q].event = sender'[r].event => q = r
  BY <1>3, <1>5, <1>6 DEF UniqueInv
<1>9. \A i \in 1 .. Len(accepted') : accepted'[i] <= issued'
  BY <1>1, <1>2, <1>6
<1> QED
  BY <1>1, <1>7, <1>8, <1>9 DEF UniqueInv

LEMMA SelectUnique ==
  ASSUME TypeOK, EventsInv, UniqueInv, NEW p \in Senders, selectCase(p) \/ sendTimeout(p)
  PROVE  UniqueInv'
<1>1. Holds(p) /\ issued' = issued
  BY DEF selectCase, sendTimeout, Holds
<1>2. CASE /\ accepted' = Append(accepted, sender[p].event)
           /\ sender' = [sender EXCEPT ![p] = Idle]
  BY <1>1, <1>2, AcceptUnique
<1>3. CASE accepted' = accepted
  <2>1. \E s \in {Idle, [sender[p] EXCEPT !.pc = "panic"], [sender[p] EXCEPT !.pc = "blocked"]} :
          sender' = [sender EXCEPT ![p] = s]
    BY DEF selectCase, sendTimeout, TypeOK
  <2>2. \A q \in Senders : Holds(q)' => Holds(q) /\ sender'[q].event = sender[q].event
    BY <1>1, <2>1, IdleTyped DEF Holds, TypeOK, SenderState
  <2> QED
    BY <1>1, <1>3, <2>2, LeaveUnique
<1> QED
  BY <1>2, <1>3 DEF selectCase, sendTimeout

LEMMA ReceiveUnique ==
  ASSUME TypeOK, EventsInv, UniqueInv, receive
  PROVE  UniqueInv'
<1>1. CASE \E p \in Senders : sender[p].pc = "blocked"
  <2>1. PICK p \in Senders :
          /\ sender[p].pc = "blocked"
          /\ accepted' = Append(accepted, sender[p].event)
          /\ sender' = [sender EXCEPT ![p] = Idle]
          /\ issued' = issued
    BY <1>1 DEF receive
  <2> QED
    BY <2>1, AcceptUnique DEF Holds
<1>2. CASE ~ \E p \in Senders : sender[p].pc = "blocked"
  <2>1. UNCHANGED <<sender, accepted, issued>>
    BY <1>2 DEF receive
  <2> QED
    BY <2>1, LeaveUnique DEF Holds
<1> QED
  BY <1>1, <1>2

LEMMA CancelLeaves ==
  ASSUME TypeOK, Cancel
  PROVE  /\ \A q \in Senders : Holds(q)' => Holds(q) /\ sender'[q].event = sender[q].event
         /\ \A q \in Senders : sender'[q].pc # "blocked"
  BY IdleTyped DEF Cancel, Holds, TypeOK

LEMMA NextUnique ==
  ASSUME TypeOK, EventsInv, UniqueInv, [Next]_vars
  PROVE  UniqueInv'
<1>1. CASE UNCHANGED <<sender, issued, accepted>>
  BY <1>1, LeaveUnique DEF Holds
<1>2. CASE \E c \in AllClosers : cancel(c)
  BY <1>2, CancelLeaves, LeaveUnique DEF cancel
<1>3. CASE dropClient
  BY <1>3, CancelLeaves, LeaveUnique DEF dropClient
<1>4. CASE \E c \in AllClosers : Close(c) \/ awaitOnce(c) \/ setClosed(c) \/ closeEgress(c)
  BY <1>1, <1>4 DEF Close, awaitOnce, setClosed, closeEgress
<1>5. CASE closeAfterTimeout \/ stopWriting \/ write \/ closeConn \/ UNCHANGED vars
  BY <1>1, <1>5 DEF closeAfterTimeout, stopWriting, write, closeConn, vars
<1> QED
  BY <1>2, <1>3, <1>4, <1>5, SafeSendUnique, SelectUnique, ReceiveUnique
     DEF Next, Send, WriteLoop, CloseBody, AllClosers

----------------------------------------------------------------------------
(* The steps of Close are taken in their order, and somebody goes on. *)

LEMMA SendersOrder ==
  ASSUME TypeOK, OrderInv, NEW p \in Senders, SafeSend(p) \/ Send(p)
  PROVE  OrderInv'
<1>1. UNCHANGED <<closing, cancelled>>
  BY DEF SafeSend, Send, selectCase, sendTimeout
<1>2. \A q \in Senders : sender'[q].pc = "blocked" =>
        sender[q].pc = "blocked" \/ ~cancelled
  <2>1. CASE SafeSend(p)
    BY <2>1, IdleTyped DEF SafeSend, TypeOK
  <2>2. CASE selectCase(p)
    BY <2>2, IdleTyped DEF selectCase, TypeOK, SenderState
  <2>3. CASE sendTimeout(p)
    BY <2>3, IdleTyped DEF sendTimeout, TypeOK
  <2> QED
    BY <2>1, <2>2, <2>3 DEF Send
<1> QED
  BY <1>1, <1>2 DEF OrderInv, closing

LEMMA ClosersOrder ==
  ASSUME TypeOK, OrderInv, NEW c \in AllClosers, Close(c) \/ CloseBody(c)
  PROVE  OrderInv'
<1>1. CASE Close(c)
  BY <1>1 DEF Close, OrderInv, TypeOK
<1>2. CASE awaitOnce(c)
  BY <1>2 DEF awaitOnce, OrderInv, TypeOK
<1>3. CASE setClosed(c)
  BY <1>3 DEF setClosed, OrderInv, TypeOK
<1>4. CASE cancel(c)
  <2>1. cancelled' /\ \A q \in Senders : sender'[q].pc # "blocked"
    BY <1>4, CancelLeaves DEF cancel, Cancel
  <2> QED
    BY <2>1 DEF OrderInv
<1>5. CASE closeEgress(c)
  BY <1>5 DEF closeEgress, OrderInv, TypeOK
<1> QED
  BY <1>1, <1>2, <1>3, <1>4, <1>5 DEF CloseBody

LEMMA NextOrder ==
  ASSUME TypeOK, OrderInv, [Next]_vars
  PROVE  OrderInv'
<1>1. CASE dropClient
  <2>1. cancelled' /\ \A q \in Senders : sender'[q].pc # "blocked"
    BY <1>1, CancelLeaves DEF dropClient, Cancel
  <2> QED
    BY <2>1 DEF OrderInv
<1>2. CASE receive
  BY <1>2, IdleTyped DEF receive, closing, OrderInv, TypeOK
<1>3. CASE closeAfterTimeout \/ stopWriting \/ write \/ closeConn \/ UNCHANGED vars
  BY <1>3 DEF closeAfterTimeout, stopWriting, write, closeConn, vars, closing, OrderInv
<1> QED
  BY <1>1, <1>2, <1>3, SendersOrder, ClosersOrder DEF Next, WriteLoop, AllClosers

LEMMA ClosersAwaited ==
  ASSUME TypeOK, OnceInv, AwaitedInv, NEW c \in AllClosers, Close(c) \/ CloseBody(c)
  PROVE  AwaitedInv'
<1>1. CASE Close(c)
  BY <1>1 DEF Close, RunsBody, AwaitedInv, TypeOK, Body
<1>2. CASE awaitOnce(c)
  BY <1>2 DEF awaitOnce, AwaitedInv, TypeOK, Body
<1>3. CASE setClosed(c)
  BY <1>3 DEF setClosed, AwaitedInv, TypeOK, Body
<1>4. CASE cancel(c)
  BY <1>4 DEF cancel, AwaitedInv, TypeOK, Body
<1>5. CASE closeEgress(c)
  BY <1>5 DEF closeEgress, AwaitedInv, TypeOK
<1> QED
  BY <1>1, <1>2, <1>3, <1>4, <1>5 DEF CloseBody

LEMMA NextAwaited ==
  ASSUME TypeOK, OnceInv, AwaitedInv, [Next]_vars
  PROVE  AwaitedInv'
<1>1. CASE \E p \in Senders : SafeSend(p) \/ Send(p)
  BY <1>1 DEF SafeSend, Send, selectCase, sendTimeout, closing, AwaitedInv
<1>2. CASE closeAfterTimeout \/ dropClient
  BY <1>2 DEF closeAfterTimeout, dropClient, closing, AwaitedInv
<1>3. CASE receive \/ stopWriting \/ write \/ closeConn \/ UNCHANGED vars
  BY <1>3 DEF receive, stopWriting, write, closeConn, vars, closing, AwaitedInv
<1> QED
  BY <1>1, <1>2, <1>3, ClosersAwaited DEF Next, WriteLoop, AllClosers

----------------------------------------------------------------------------
(* The theorems. *)

LEMMA InitIInv == Init => IInv
<1> SUFFICES ASSUME Init PROVE IInv
  OBVIOUS
<1>1. TypeOK
  <2>1. <<>> \in Seq(Events) /\ Len(<<>>) = 0 /\ 0 <= BufSize
    BY EmptySeq, BufAssumption
  <2>2. [p \in Senders |-> Idle] \in [Senders -> SenderState]
    BY IdleTyped
  <2>3. [pc |-> "select", event |-> 0] \in WriterState
    BY WriterStates
  <2>4. 0 \in 0..MaxEvents
    BY BufAssumption
  <2> QED
    BY <2>1, <2>2, <2>3, <2>4 DEF Init, TypeOK
<1>2. EventsInv /\ OnceInv
  BY IdleTyped DEF Init, EventsInv, OnceInv, ClosedOnce, Body
<1>3. NothingSkipped
  BY DEF Init, NothingSkipped
<1>4. OrderInv /\ AwaitedInv
  BY IdleTyped DEF Init, OrderInv, AwaitedInv
<1>5. UniqueInv
  BY IdleTyped, EmptySeq DEF Init, UniqueInv, Holds
<1> QED
  BY <1>1, <1>2, <1>3, <1>4, <1>5 DEF IInv

LEMMA NextIInv == IInv /\ [Next]_vars => IInv'
  BY NextTyped, NextOnce, NextInOrder, NextUnique, NextOrder, NextAwaited DEF IInv

\* The inductive invariant.
THEOREM Invariance == Spec => []IInv
  BY InitIInv, NextIInv, PTL DEF Spec

\* The shape of the state; the channel keeps within its capacity, also when a
\* waiting sender's event takes the place of the one the writer received.
THEOREM TypeCorrect == Spec => []TypeOK
<1>1. IInv => TypeOK
  BY DEF IInv
<1> QED
  BY <1>1, Invariance, PTL

\* Client.Close never closes the egress channel twice, however many goroutines
\* call it.
THEOREM ChannelClosedOnce == Spec => []ClosedOnce
<1>1. IInv => ClosedOnce
  BY DEF IInv, OnceInv
<1> QED
  BY <1>1, Invariance, PTL

\* What SafeSend accepted is what the writer wrote, has in hand and will find in
\* the channel, in that order, as long as WriteMessage is in its loop.
THEOREM AcceptedInOrder == Spec => []NothingSkipped
<1>1. IInv => NothingSkipped
  BY DEF IInv
<1> QED
  BY <1>1, Invariance, PTL

----------------------------------------------------------------------------
(* A client is a stream. *)

Ended == writer.pc \in {"exit", "done"} \/ ~connOpen

\* A step the stream does not show, or shows as its end or its shutting.
LEMMA HiddenStep ==
  ASSUME UNCHANGED <<accepted, written>>,
         \/ Ended' = Ended /\ egressClosed' = egressClosed
         \/ Ended' /\ egressClosed' = egressClosed
         \/ Ended' = Ended /\ egressClosed' = TRUE
  PROVE  [Stream!Next]_(Stream!vars)
  BY DEF Stream!Next, Stream!End, Stream!Shut, Stream!vars, Ended

\* An event is accepted from a sender in its select.
LEMMA AcceptStep ==
  ASSUME IInv, NEW p \in Senders, Holds(p), ~egressClosed,
         accepted' = Append(accepted, sender[p].event),
         UNCHANGED <<written, egressClosed>>, Ended' = Ended
  PROVE  Stream!Next
<1>1. sender[p].event \in Events /\ Fresh(sender[p].event)
  BY DEF IInv, EventsInv, UniqueInv, Holds
<1>2. Stream!Accept(sender[p].event)
  BY <1>1 DEF Stream!Accept, Fresh, Ended
<1> QED
  BY <1>1, <1>2 DEF Stream!Next

LEMMA SenderStep ==
  ASSUME IInv, NEW p \in Senders, SafeSend(p) \/ Send(p)
  PROVE  [Stream!Next]_(Stream!vars)
<1>1. UNCHANGED <<written, writer, connOpen, egressClosed>>
  BY DEF SafeSend, Send, selectCase, sendTimeout, closing, writing
<1>2. Ended' = Ended
  BY <1>1 DEF Ended
<1>3. CASE accepted' = accepted
  BY <1>1, <1>2, <1>3, HiddenStep
<1>4. CASE /\ selectCase(p) /\ ~egressClosed
           /\ accepted' = Append(accepted, sender[p].event)
  <2>1. Holds(p)
    BY <1>4 DEF selectCase, Holds
  <2> QED
    BY <1>1, <1>2, <1>4, <2>1, AcceptStep
<1> QED
  BY <1>3, <1>4 DEF SafeSend, Send, selectCase, sendTimeout

LEMMA CloserStep ==
  ASSUME NEW c \in AllClosers, Close(c) \/ CloseBody(c)
  PROVE  [Stream!Next]_(Stream!vars)
<1>1. UNCHANGED <<accepted, written, writer, connOpen>>
  BY DEF Close, CloseBody, awaitOnce, setClosed, cancel, closeEgress, writing
<1>2. egressClosed' = egressClosed \/ egressClosed' = TRUE
  BY DEF Close, CloseBody, awaitOnce, setClosed, cancel, closeEgress
<1>3. Ended' = Ended
  BY <1>1 DEF Ended
<1> QED
  BY <1>1, <1>2, <1>3, HiddenStep

\* The sender whose event takes the place is still waiting: the context is not
\* over, so the channel is not closed.
LEMMA ReceiveStep ==
  ASSUME IInv, receive
  PROVE  [Stream!Next]_(Stream!vars)
<1>1. /\ UNCHANGED <<written, connOpen, egressClosed>>
      /\ writer.pc = "select" /\ writer'.pc = "write"
  BY DEF receive, closing
<1>2. Ended' = Ended
  BY <1>1 DEF Ended
<1>3. CASE accepted' = accepted
  BY <1>1, <1>2, <1>3, HiddenStep
<1>4. CASE \E p \in Senders : sender[p].pc = "blocked"
  <2>1. PICK p \in Senders :
          sender[p].pc = "blocked" /\ accepted' = Append(accepted, sender[p].event)
    BY <1>4 DEF receive
  <2>2. Holds(p) /\ ~egressClosed
    BY <2>1 DEF Holds, IInv, OrderInv
  <2> QED
    BY <1>1, <1>2, <2>1, <2>2, AcceptStep
<1> QED
  BY <1>3, <1>4 DEF receive

\* The event in the writer's hand is the oldest one not yet written.
LEMMA WriteStep ==
  ASSUME IInv, write
  PROVE  [Stream!Next]_(Stream!vars)
<1>1. UNCHANGED <<accepted, connOpen, egressClosed>> /\ writer.pc = "write"
  BY DEF write, closing
<1>2. CASE writer'.pc = "exit" /\ written' = written
  BY <1>1, <1>2, HiddenStep DEF Ended
<1>3. CASE /\ connOpen /\ writer'.pc = "select"
           /\ written' = Append(written, writer.event)
  <2>1. /\ writer.event \in Events /\ written \in Seq(Events) /\ egress \in Seq(Events)
        /\ accepted = (written \o <<writer.event>>) \o egress
    BY <1>1 DEF IInv, TypeOK, EventsInv, NothingSkipped
  <2> DEFINE w == written \o <<writer.event>>
  <2>2. /\ w = Append(written, writer.event) /\ w \in Seq(Events)
        /\ Len(written) \in Nat /\ Len(w) = Len(written) + 1
        /\ w[Len(written) + 1] = writer.event
    BY <2>1, AppendIsConcat, AppendProperties, LenProperties
  <2>3. accepted = w \o egress
    BY <2>1
  <2> HIDE DEF w
  <2>4. /\ Len(accepted) = Len(w) + Len(egress) /\ Len(egress) \in Nat
        /\ accepted[Len(written) + 1] = w[Len(written) + 1]
    BY <2>1, <2>2, <2>3, ConcatProperties, LenProperties
  <2>5. /\ Len(written) < Len(accepted)
        /\ written' = Append(written, accepted[Len(written) + 1])
    BY <1>3, <2>2, <2>4
  <2> QED
    BY <1>1, <1>3, <2>5 DEF Stream!Next, Stream!Write
<1> QED
  BY <1>2, <1>3 DEF write, AfterFailure

LEMMA EndStep ==
  ASSUME IInv, closeAfterTimeout \/ dropClient \/ stopWriting \/ closeConn
  PROVE  [Stream!Next]_(Stream!vars)
<1>1. UNCHANGED <<accepted, written, egressClosed>>
  BY DEF closeAfterTimeout, dropClient, stopWriting, closeConn, closing, writing
<1>2. Ended'
  BY DEF closeAfterTimeout, dropClient, stopWriting, closeConn, Ended
<1> QED
  BY <1>1, <1>2, HiddenStep

\* A client keeps the promise of an event stream: what SafeSend accepts is written
\* in that order, each event once, until the writer or the connection ends, and
\* nothing is accepted after Close has closed the channel, whoever was waiting.
THEOREM Refinement == Spec => ImplementsStream
<1>1. Init => Stream!Init
  BY DEF Init, Stream!Init
<1>2. IInv /\ [Next]_vars => [Stream!Next]_(Stream!vars)
  <2> SUFFICES ASSUME IInv, [Next]_vars PROVE [Stream!Next]_(Stream!vars)
    OBVIOUS
  <2>1. CASE UNCHANGED vars
    BY <2>1, HiddenStep DEF vars, Ended
  <2> QED
    BY <2>1, SenderStep, CloserStep, ReceiveStep, WriteStep, EndStep
       DEF Next, WriteLoop, AllClosers
<1> QED
  BY <1>1, <1>2, Invariance, PTL DEF Spec, ImplementsStream, Stream!Spec

\* A goroutine that waits in once.Do waits for one that is inside the body of
\* Close, where nothing is waited for.
THEOREM CloserAwaited ==
  Spec => [](once = "running" => \E c \in AllClosers : closer[c] \in Body)
<1>1. IInv => (once = "running" => \E c \in AllClosers : closer[c] \in Body)
  BY DEF IInv, AwaitedInv
<1> QED
  BY <1>1, Invariance, PTL

\* After Close somebody is always left to close the connection: it is closed, or
\* the goroutine of Close still watches it.
THEOREM ConnWatched == Spec => [](once = "over" => watch = "waiting" \/ ~connOpen)
<1>1. IInv => (once = "over" => watch = "waiting" \/ ~connOpen)
  BY DEF IInv, AwaitedInv, TypeOK
<1> QED
  BY <1>1, Invariance, PTL

\* No sender waits for a place in the channel of a client whose context is over:
\* the end of the context wakes those who wait, and none begins to.
THEOREM NobodyWaitsForTheDead ==
  Spec => [](cancelled => \A p \in Senders : sender[p].pc # "blocked")
<1>1. IInv => (cancelled => \A p \in Senders : sender[p].pc # "blocked")
  BY DEF IInv, OrderInv
<1> QED
  BY <1>1, Invariance, PTL

=============================================================================
