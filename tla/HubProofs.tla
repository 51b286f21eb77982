----------------------------- MODULE HubProofs -----------------------------
(***************************************************************************)
(* Proofs about Hub, for any number of workers, watchers, monitor pages    *)
(* and checkers and any capacity of the channels: nobody waits for a lock  *)
(* in a circle, apart from the loop that waits for itself and from those   *)
(* who wait for a lock that a panic has left behind.                       *)
(*                                                                         *)
(* The argument is the usual one: the locks have ranks, every chain but    *)
(* that of removeClient climbs, so whoever is blocked is blocked by a      *)
(* goroutine that waits for a lock of higher rank, and there are five.     *)
(***************************************************************************)
EXTENDS Hub, TLAPS

Accesses == [mode : {"R", "W"}, lock : Locks]

Rank == [bucket |-> 1, room |-> 2, calls |-> 3, call |-> 4, online |-> 5]

Steady(s) == \A i, j \in 1..Len(Chain[s]) :
                 i < j => Rank[Chain[s][i].lock] < Rank[Chain[s][j].lock]

\* A goroutine that waits has not all locks of its section, one that is in has,
\* and any other has none; only the loop removes clients.
Fits(g) ==
    /\ step[g] = "wait" => held[g] < Len(Chain[section[g]])
    /\ step[g] = "in" => held[g] = Len(Chain[section[g]])
    /\ step[g] \notin {"wait", "in"} => held[g] = 0
    /\ section[g] = "remove" => g = loop

IInv ==
    /\ TypeOK
    /\ \A g \in Goroutines : Fits(g)
    /\ stage = "serving" => stops = 0

----------------------------------------------------------------------------
(* The chains. *)

LEMMA SectionNames ==
  Sections = {"none", "lookup", "readCalls", "writeCalls", "writeCall", "notify", "findRoom",
              "touchRoom", "setRoom", "readRoom", "evict", "roomStats", "callStats",
              "addClient", "remove"}
  BY DEF Sections, Chain

\* The locks of every section but remove climb.
LEMMA ChainsClimb ==
  \A s \in Sections : /\ Len(Chain[s]) \in 0..3
                      /\ \A i \in 1..Len(Chain[s]) :
                            Chain[s][i] \in Accesses
                      /\ s # "remove" => Steady(s)
<1> SUFFICES ASSUME NEW s \in Sections
             PROVE  /\ Len(Chain[s]) \in 0..3
                    /\ \A i \in 1..Len(Chain[s]) :
                          Chain[s][i] \in Accesses
                    /\ s # "remove" => Steady(s)
  OBVIOUS
<1>1. CASE \E a \in Accesses : Chain[s] = <<a>>
  BY <1>1 DEF Steady
<1>2. CASE \E a, b \in Accesses : Chain[s] = <<a, b>> /\ Rank[a.lock] < Rank[b.lock]
  BY <1>2 DEF Steady
<1>3. CASE s = "none"
  BY <1>3 DEF Steady, Chain
<1>4. CASE s = "roomStats"
  BY <1>4 DEF Chain, roomStats, Steady, Rank, Accesses, Locks, Rd
<1>5. CASE s = "remove"
  BY <1>5 DEF Chain, remove, Accesses, Locks, Rd, Wr
<1>6. CASE s \in {"lookup", "readCalls", "writeCalls", "writeCall"}
  <2>1. Chain[s] \in {<<Rd("online")>>, <<Rd("calls")>>, <<Wr("calls")>>, <<Wr("call")>>}
    BY <1>6 DEF Chain, lookup, readCalls, writeCalls, writeCall
  <2> QED
    BY <2>1, <1>1 DEF Accesses, Locks, Rd, Wr
<1>7. CASE s \in {"findRoom", "touchRoom", "readRoom", "addClient"}
  <2>1. Chain[s] \in {<<Rd("bucket")>>, <<Wr("room")>>, <<Rd("room")>>, <<Wr("online")>>}
    BY <1>7 DEF Chain, findRoom, touchRoom, readRoom, addClient
  <2> QED
    BY <2>1, <1>1 DEF Accesses, Locks, Rd, Wr
<1>8. CASE s \in {"notify", "callStats", "setRoom", "evict"}
  <2>1. Chain[s] \in {<<Rd("call"), Rd("online")>>, <<Rd("calls"), Rd("call")>>,
                      <<Wr("bucket"), Wr("room")>>, <<Wr("bucket"), Rd("room")>>}
    BY <1>8 DEF Chain, notify, callStats, setRoom, evict
  <2> QED
    BY <2>1, <1>2 DEF Accesses, Locks, Rd, Wr, Rank
<1> QED
  BY <1>3, <1>4, <1>5, <1>6, <1>7, <1>8, SectionNames

LEMMA RemoveChain == Len(Chain["remove"]) = 2
  BY DEF Chain, remove

----------------------------------------------------------------------------
(* Who waits is blocked by somebody further on. *)

\* What a goroutine waits for and what it holds.
LEMMA WaitsFor ==
  ASSUME IInv, NEW g \in Goroutines, step[g] = "wait"
  PROVE  /\ section[g] \in Sections
         /\ held[g] + 1 \in 1..Len(Chain[section[g]])
         /\ Needs(g) \in Accesses
<1>1. /\ section[g] \in Sections /\ held[g] \in 0..3
      /\ held[g] < Len(Chain[section[g]])
  BY DEF IInv, TypeOK, Fits
<1>2. Len(Chain[section[g]]) \in 0..3
  BY <1>1, ChainsClimb
<1>3. held[g] + 1 \in 1..Len(Chain[section[g]])
  BY <1>1, <1>2
<1> QED
  BY <1>1, <1>3, ChainsClimb DEF Needs

\* A lock that keeps a waiting goroutine out is held by somebody, directly or in
\* front of a writer that waits as well, unless a panic has left it behind.
LEMMA SomebodyHolds ==
  ASSUME IInv, ~LockLost, \A h \in Goroutines : ~CanTake(h),
         NEW g \in Goroutines, step[g] = "wait"
  PROVE  \E h \in Goroutines : \E a \in Accesses : Holds(h, a) /\ a.lock = Needs(g).lock
<1> DEFINE l == Needs(g).lock
<1>1. l \in Locks /\ Rd(l) \in Accesses /\ Wr(l) \in Accesses
      /\ Rd(l).lock = l /\ Wr(l).lock = l
  BY WaitsFor DEF Accesses, Rd, Wr
<1>2. ASSUME NEW k \in Goroutines, WantsToWrite(k, l), ~CanWrite(l)
      PROVE  \E h \in Goroutines : \E a \in Accesses : Holds(h, a) /\ a.lock = l
  BY <1>1, <1>2 DEF CanWrite, LockLost
<1>3. CASE Needs(g).mode = "R"
  <2>1. ~CanRead(l)
    BY <1>3 DEF CanTake
  <2>2. PICK h \in Goroutines : WantsToWrite(h, l) \/ Holds(h, Wr(l))
    BY <2>1 DEF CanRead
  <2>3. CASE WantsToWrite(h, l)
    <3>1. step[h] = "wait" /\ Needs(h) = Wr(l)
      BY <2>3 DEF WantsToWrite
    <3>2. ~CanWrite(l)
      BY <3>1 DEF CanTake, Wr
    <3> QED
      BY <2>3, <3>2, <1>2
  <2> QED
    BY <2>2, <2>3, <1>1
<1>4. CASE Needs(g).mode # "R"
  <2>1. Needs(g) = Wr(l)
    BY <1>4, WaitsFor DEF Accesses, Wr
  <2>2. WantsToWrite(g, l) /\ ~CanWrite(l)
    BY <1>4, <2>1 DEF WantsToWrite, CanTake
  <2> QED
    BY <2>2, <1>2
<1> QED
  BY <1>3, <1>4

\* Its holder waits for a lock of higher rank.
LEMMA BlockedByHigher ==
  ASSUME IInv, ~LoopStuck, ~LockLost,
         \A h \in Goroutines : step[h] # "in" /\ ~CanTake(h),
         NEW g \in Goroutines, step[g] = "wait"
  PROVE  \E h \in Goroutines : step[h] = "wait" /\ Rank[Needs(g).lock] < Rank[Needs(h).lock]
<1>1. PICK h \in Goroutines, a \in Accesses : Holds(h, a) /\ a.lock = Needs(g).lock
  BY SomebodyHolds
<1>2. PICK i \in 1..held[h] : Chain[section[h]][i] = a
  BY <1>1 DEF Holds
<1>3. held[h] \in 0..3 /\ section[h] \in Sections
  BY DEF IInv, TypeOK
<1>4. step[h] = "wait"
  BY <1>2, <1>3 DEF IInv, Fits
<1>5. held[h] + 1 \in 1..Len(Chain[section[h]])
  BY <1>4, WaitsFor
<1>6. section[h] # "remove"
  <2> SUFFICES ASSUME section[h] = "remove" PROVE FALSE
    OBVIOUS
  <2>1. held[h] = 1
    BY <1>2, <1>3, <1>5, RemoveChain
  <2>2. h = loop
    BY DEF IInv, Fits
  <2> QED
    BY <2>1, <2>2 DEF LoopStuck
<1>7. Len(Chain[section[h]]) \in Nat
  BY <1>3, ChainsClimb
<1>8. i \in 1..Len(Chain[section[h]]) /\ i < held[h] + 1
  BY <1>2, <1>3, <1>5, <1>7
<1>9. Rank[Chain[section[h]][i].lock] < Rank[Chain[section[h]][held[h] + 1].lock]
  BY <1>3, <1>5, <1>6, <1>8, ChainsClimb DEF Steady
<1> QED
  BY <1>1, <1>2, <1>4, <1>9 DEF Needs

LEMMA NobodyIsLast ==
  ASSUME IInv
  PROVE  NoDeadlock
<1> SUFFICES ASSUME NEW g \in Goroutines, step[g] = "wait", ~LoopStuck, ~LockLost,
                    \A h \in Goroutines : step[h] # "in" /\ ~CanTake(h)
             PROVE  FALSE
  BY DEF NoDeadlock
<1> DEFINE r(h) == Rank[Needs(h).lock]
<1>1. \A h \in Goroutines : step[h] = "wait" => r(h) \in 1..5
  BY WaitsFor DEF Rank, Accesses, Locks
<1>2. \A h \in Goroutines : step[h] = "wait" =>
        \E k \in Goroutines : step[k] = "wait" /\ r(h) < r(k)
  BY BlockedByHigher
<1> HIDE DEF r
<1>3. PICK g2 \in Goroutines : step[g2] = "wait" /\ r(g) < r(g2)
  BY <1>2
<1>4. PICK g3 \in Goroutines : step[g3] = "wait" /\ r(g2) < r(g3)
  BY <1>2, <1>3
<1>5. PICK g4 \in Goroutines : step[g4] = "wait" /\ r(g3) < r(g4)
  BY <1>2, <1>4
<1>6. PICK g5 \in Goroutines : step[g5] = "wait" /\ r(g4) < r(g5)
  BY <1>2, <1>5
<1>7. PICK g6 \in Goroutines : step[g6] = "wait" /\ r(g5) < r(g6)
  BY <1>2, <1>6
<1> QED
  BY <1>1, <1>3, <1>4, <1>5, <1>6, <1>7

----------------------------------------------------------------------------
(* Every step keeps the invariant. *)

LEMMA ChainLengths ==
  /\ \A s \in Sections : Len(Chain[s]) \in 0..3
  /\ \A s \in Sections : s # "none" => Len(Chain[s]) > 0
<1>1. \A s \in Sections : s # "none" => Len(Chain[s]) > 0
  BY SectionNames DEF Chain, lookup, readCalls, writeCalls, writeCall, notify, findRoom,
     touchRoom, setRoom, readRoom, evict, roomStats, callStats, addClient, remove
<1> QED
  BY <1>1, ChainsClimb

\* The sections a goroutine enters are neither none nor remove.
LEMMA OwnSections ==
  \A g \in Goroutines : \A s \in SectionsOf(g) : s \in Sections /\ s \notin {"none", "remove"}
  BY SectionNames DEF SectionsOf, WorkerSections, WatcherSections, MonitorSections

LEMMA SingleGoroutines ==
  /\ loop \in Goroutines /\ main \in Goroutines /\ evictor \in Goroutines
  /\ main # loop /\ loop \notin Workers /\ main \notin Workers
  /\ Workers \subseteq Goroutines
  BY WorkersAssumption, SinglesAssumption DEF Goroutines

\* A goroutine enters a section that is its own.
LEMMA CallFits ==
  ASSUME IInv, NEW g \in Goroutines, NEW s \in Sections, s # "none",
         s = "remove" => g = loop, Call(g, s)
  PROVE  /\ section' \in [Goroutines -> Sections]
         /\ held' \in [Goroutines -> 0..3]
         /\ step' \in [Goroutines -> Steps]
         /\ \A h \in Goroutines : Fits(h)'
<1>1. /\ section \in [Goroutines -> Sections] /\ held \in [Goroutines -> 0..3]
      /\ step \in [Goroutines -> Steps] /\ \A h \in Goroutines : Fits(h)
  BY DEF IInv, TypeOK
<1>2. Len(Chain[s]) \in 0..3 /\ Len(Chain[s]) > 0
  BY ChainLengths
<1>3. /\ section' \in [Goroutines -> Sections]
      /\ held' \in [Goroutines -> 0..3]
      /\ step' \in [Goroutines -> Steps]
  BY <1>1 DEF Call, Steps
<1>4. ASSUME NEW h \in Goroutines PROVE Fits(h)'
  <2>1. CASE h = g
    <3>1. section'[h] = s /\ held'[h] = 0 /\ step'[h] = "wait"
      BY <1>1, <2>1 DEF Call
    <3> QED
      BY <1>2, <2>1, <3>1 DEF Fits
  <2>2. CASE h # g
    <3>1. section'[h] = section[h] /\ held'[h] = held[h] /\ step'[h] = step[h]
      BY <1>1, <2>2 DEF Call
    <3> QED
      BY <1>1, <3>1 DEF Fits
  <2> QED
    BY <2>1, <2>2
<1> QED
  BY <1>3, <1>4

\* The state of goroutine g after it has taken the lock it waited for.
LEMMA NextStepFits ==
  ASSUME IInv, NEW g \in Goroutines, step[g] = "wait"
  PROVE  /\ held[g] + 1 \in 0..3 /\ NextStep(g) \in {"in", "wait"}
         /\ NextStep(g) = "wait" => held[g] + 1 < Len(Chain[section[g]])
         /\ NextStep(g) = "in" => held[g] + 1 = Len(Chain[section[g]])
<1> DEFINE n == Len(Chain[section[g]])
<1>1. section[g] \in Sections /\ held[g] + 1 \in 1..n
  BY WaitsFor
<1>2. n \in 0..3 /\ held[g] \in 0..3
  BY <1>1, ChainLengths DEF IInv, TypeOK
<1>3. NextStep(g) = IF held[g] + 1 = n THEN "in" ELSE "wait"
  BY DEF NextStep
<1> HIDE DEF n
<1>4. /\ held[g] + 1 \in 0..3 /\ NextStep(g) \in {"in", "wait"}
      /\ NextStep(g) = "wait" => held[g] + 1 < n
      /\ NextStep(g) = "in" => held[g] + 1 = n
  BY <1>1, <1>2, <1>3
<1> QED
  BY <1>4 DEF n

LEMMA TakeFits ==
  ASSUME IInv, NEW g \in Goroutines, step[g] = "wait", Take(g)
  PROVE  IInv'
<1>1. /\ section \in [Goroutines -> Sections] /\ held \in [Goroutines -> 0..3]
      /\ step \in [Goroutines -> Steps] /\ \A h \in Goroutines : Fits(h)
  BY DEF IInv, TypeOK
<1>2. /\ held' \in [Goroutines -> 0..3]
      /\ step' \in [Goroutines -> Steps]
  BY <1>1, NextStepFits DEF Take, Steps
<1>3. ASSUME NEW h \in Goroutines PROVE Fits(h)'
  <2>1. CASE h = g
    <3>1. section'[h] = section[g] /\ held'[h] = held[g] + 1 /\ step'[h] = NextStep(g)
      BY <1>1, <2>1 DEF Take
    <3> QED
      BY <1>1, <2>1, <3>1, NextStepFits DEF Fits
  <2>2. CASE h # g
    <3>1. section'[h] = section[h] /\ held'[h] = held[h] /\ step'[h] = step[h]
      BY <1>1, <2>2 DEF Take
    <3> QED
      BY <1>1, <3>1 DEF Fits
  <2> QED
    BY <2>1, <2>2
<1> QED
  BY <1>2, <1>3 DEF Take, IInv, TypeOK, channelVars, mainVars, panicVars

LEMMA UnlockFits ==
  ASSUME IInv, NEW g \in Goroutines, Unlock(g)
  PROVE  IInv'
<1>1. /\ section \in [Goroutines -> Sections] /\ held \in [Goroutines -> 0..3]
      /\ step \in [Goroutines -> Steps] /\ \A h \in Goroutines : Fits(h)
  BY DEF IInv, TypeOK
<1>2. \A h \in Goroutines : HandedTo(h, g) => step[h] = "wait"
  BY DEF HandedTo
<1>3. /\ section' \in [Goroutines -> Sections]
      /\ held' \in [Goroutines -> 0..3]
      /\ step' \in [Goroutines -> Steps]
  <2>1. section' \in [Goroutines -> Sections]
    BY <1>1, SectionNames DEF Unlock
  <2>2. held' \in [Goroutines -> 0..3]
    BY <1>1, <1>2, NextStepFits DEF Unlock
  <2>3. step' \in [Goroutines -> Steps]
    BY <1>1, <1>2, NextStepFits DEF Unlock, Steps
  <2> QED
    BY <2>1, <2>2, <2>3
<1>4. ASSUME NEW h \in Goroutines PROVE Fits(h)'
  <2>1. CASE h = g
    <3>1. section'[h] = "none" /\ held'[h] = 0 /\ step'[h] = "out"
      BY <1>1, <2>1 DEF Unlock
    <3> QED
      BY <3>1 DEF Fits
  <2>2. CASE h # g /\ HandedTo(h, g)
    <3>1. section'[h] = section[h] /\ held'[h] = held[h] + 1 /\ step'[h] = NextStep(h)
      BY <1>1, <2>2 DEF Unlock
    <3> QED
      BY <1>1, <1>2, <2>2, <3>1, NextStepFits DEF Fits
  <2>3. CASE h # g /\ ~HandedTo(h, g)
    <3>1. section'[h] = section[h] /\ held'[h] = held[h] /\ step'[h] = step[h]
      BY <1>1, <2>3 DEF Unlock
    <3> QED
      BY <1>1, <3>1 DEF Fits
  <2> QED
    BY <2>1, <2>2, <2>3
<1> QED
  BY <1>3, <1>4 DEF Unlock, IInv, TypeOK, channelVars, mainVars, panicVars

\* A step in which no goroutine is in a section that it was not in before.
LEMMA OutsideFits ==
  ASSUME IInv, UNCHANGED <<section, held>>, NEW g \in Goroutines,
         NEW s \in {"out", "idle", "kick", "gone"}, step[g] \notin {"wait", "in"},
         step' = [step EXCEPT ![g] = s]
  PROVE  /\ section' \in [Goroutines -> Sections]
         /\ held' \in [Goroutines -> 0..3]
         /\ step' \in [Goroutines -> Steps]
         /\ \A h \in Goroutines : Fits(h)'
<1>1. /\ step \in [Goroutines -> Steps] /\ \A h \in Goroutines : Fits(h)
  BY DEF IInv, TypeOK
<1>2. ASSUME NEW h \in Goroutines PROVE Fits(h)'
  <2>1. CASE h = g
    BY <1>1, <2>1 DEF Fits
  <2>2. CASE h # g
    <3>1. section'[h] = section[h] /\ held'[h] = held[h] /\ step'[h] = step[h]
      BY <1>1, <2>2
    <3> QED
      BY <1>1, <3>1 DEF Fits
  <2> QED
    BY <2>1, <2>2
<1>3. step' \in [Goroutines -> Steps]
  BY <1>1 DEF Steps
<1> QED
  BY <1>2, <1>3 DEF IInv, TypeOK

LEMMA PanicFits ==
  ASSUME IInv, Panic
  PROVE  IInv'
<1>1. /\ section' = [g \in Goroutines |-> "none"]
      /\ held' = [g \in Goroutines |-> 0]
      /\ step' = [g \in Goroutines |-> "gone"]
  BY DEF Panic
<1>2. \A g \in Goroutines : Fits(g)'
  BY <1>1 DEF Fits
<1>3. /\ section' \in [Goroutines -> Sections] /\ held' \in [Goroutines -> 0..3]
      /\ step' \in [Goroutines -> Steps]
  BY <1>1, SectionNames DEF Steps
<1> QED
  BY <1>2, <1>3, CapAssumption DEF Panic, IInv, TypeOK, mainVars

LEMMA GoroutineIInv ==
  ASSUME IInv, NEW g \in Goroutines,
         (\E s \in Sections : Enter(g, s)) \/ Locking(g) \/ LoopEnds(g)
  PROVE  IInv'
<1>1. ASSUME NEW s \in Sections, Enter(g, s) PROVE IInv'
  <2>1. s # "none" /\ s # "remove" /\ Call(g, s)
    BY <1>1, OwnSections DEF Enter
  <2> QED
    BY <1>1, <2>1, CallFits DEF Enter, IInv, TypeOK, channelVars, mainVars, panicVars
<1>2. CASE RLock(g) \/ Lock(g)
  BY <1>2, TakeFits DEF RLock, Lock
<1>3. CASE Unlock(g)
  BY <1>3, UnlockFits
<1>4. CASE LoopEnds(g)
  <2>1. step[g] = "out" /\ step' = [step EXCEPT ![g] = "gone"] /\ UNCHANGED <<section, held>>
    BY <1>4 DEF LoopEnds
  <2> QED
    BY <1>4, <2>1, OutsideFits DEF LoopEnds, IInv, TypeOK, channelVars, mainVars, panicVars
<1> QED
  BY <1>1, <1>2, <1>3, <1>4 DEF Locking

LEMMA WorkingIInv ==
  ASSUME IInv, NEW w \in Workers, Working(w)
  PROVE  IInv'
<1>1. w \in Goroutines
  BY SingleGoroutines
<1>2. CASE Receive(w)
  <2>1. inbound' \in 0..InboundCap
    BY <1>2, CapAssumption DEF Receive, IInv, TypeOK
  <2> QED
    BY <1>1, <1>2, <2>1, OutsideFits DEF Receive, IInv, TypeOK, mainVars, panicVars
<1>3. CASE kicked(w)
  <2>1. kicks' \in 0..KickCap
    BY <1>3, CapAssumption DEF kicked, IInv, TypeOK
  <2> QED
    BY <1>1, <1>3, <2>1, OutsideFits DEF kicked, IInv, TypeOK, mainVars, panicVars
<1>4. CASE Return(w) \/ kickOnFull(w) \/ WorkerEnds(w)
  <2>1. PICK s \in {"idle", "kick", "gone"} :
          /\ step' = [step EXCEPT ![w] = s] /\ step[w] \in {"out", "idle"}
          /\ UNCHANGED <<section, held, channelVars, mainVars, panicVars>>
    BY <1>4 DEF Return, kickOnFull, WorkerEnds
  <2> QED
    BY <1>1, <2>1, OutsideFits DEF IInv, TypeOK, channelVars, mainVars, panicVars
<1> QED
  BY <1>2, <1>3, <1>4 DEF Working

\* A removal is a call of the loop; a worker that waits to kick may go on with it.
LEMMA RemoveIInv ==
  ASSUME IInv, Remove
  PROVE  IInv'
<1> DEFINE waiting == {w \in Workers : step[w] = "kick"}
<1>1. PICK s \in Sections : removeClient(s, waiting)
  BY DEF Remove
<1>2. /\ s \in {"remove", "addClient"} /\ step[loop] = "out"
      /\ section' = [section EXCEPT ![loop] = s] /\ held' = held
      /\ kicks' \in {kicks, kicks - 1} /\ kicks > 0
      /\ UNCHANGED <<inbound, inboundClosed, mainVars, panicVars>>
  BY <1>1 DEF removeClient
<1>3. \/ step' = [step EXCEPT ![loop] = "wait"]
      \/ \E w \in waiting : step' = [step EXCEPT ![loop] = "wait", ![w] = "out"]
  BY <1>1 DEF removeClient
<1>4. /\ section \in [Goroutines -> Sections] /\ held \in [Goroutines -> 0..3]
      /\ step \in [Goroutines -> Steps] /\ \A h \in Goroutines : Fits(h)
  BY DEF IInv, TypeOK
<1>5. step' \in [Goroutines -> Steps]
  BY <1>3, <1>4 DEF Steps
<1>6. ASSUME NEW h \in Goroutines PROVE Fits(h)'
  <2>1. CASE h = loop
    <3>1. section'[h] = s /\ held'[h] = 0 /\ step'[h] = "wait"
      BY <1>2, <1>3, <1>4, <2>1, SingleGoroutines DEF Fits
    <3>2. Len(Chain[s]) \in 0..3 /\ Len(Chain[s]) > 0
      BY <1>2, ChainLengths
    <3> QED
      BY <2>1, <3>1, <3>2 DEF Fits
  <2>2. CASE h # loop
    <3>1. section'[h] = section[h] /\ held'[h] = held[h]
      BY <1>2, <1>4, <2>2
    <3>2. step'[h] = step[h] \/ (step[h] = "kick" /\ step'[h] = "out")
      BY <1>3, <1>4, <2>2, SingleGoroutines
    <3> QED
      BY <1>4, <3>1, <3>2 DEF Fits
  <2> QED
    BY <2>1, <2>2
<1>7. kicks' \in 0..KickCap
  BY <1>2, CapAssumption DEF IInv, TypeOK
<1>8. section' \in [Goroutines -> Sections]
  BY <1>2, <1>4
<1> QED
  BY <1>2, <1>4, <1>5, <1>6, <1>7, <1>8 DEF IInv, TypeOK, mainVars, panicVars

LEMMA StoppingIInv ==
  ASSUME IInv, Stopping
  PROVE  IInv'
<1>1. CASE Stop
  <2>1. Call(main, "lookup") /\ "lookup" \in Sections
    BY <1>1, SectionNames DEF Stop
  <2>2. stops' \in 0..2 /\ stage' = "closing"
    BY <1>1 DEF Stop, IInv, TypeOK
  <2>3. /\ section' \in [Goroutines -> Sections] /\ held' \in [Goroutines -> 0..3]
        /\ step' \in [Goroutines -> Steps] /\ \A h \in Goroutines : Fits(h)'
    BY <2>1, SingleGoroutines, CallFits
  <2> QED
    BY <1>1, <2>2, <2>3 DEF Stop, IInv, TypeOK, channelVars, panicVars
<1>2. CASE closeInbound
  <2>1. CASE inboundClosed
    BY <1>2, <2>1, PanicFits DEF closeInbound
  <2>2. CASE ~inboundClosed
    BY <1>2, <2>2 DEF closeInbound, IInv, TypeOK, Fits, goVars, panicVars
  <2> QED
    BY <2>1, <2>2
<1>3. CASE wait
  BY <1>3 DEF wait, IInv, TypeOK, Fits, goVars, channelVars, panicVars
<1> QED
  BY <1>1, <1>2, <1>3 DEF Stopping

LEMMA ChannelIInv ==
  ASSUME IInv, Read \/ ReadPanics \/ QueueRemoval
  PROVE  IInv'
<1>1. CASE Read
  <2>1. inbound' \in 0..InboundCap
    BY <1>1, CapAssumption DEF Read, IInv, TypeOK
  <2> QED
    BY <1>1, <2>1 DEF Read, IInv, TypeOK, Fits, goVars, mainVars, panicVars
<1>2. CASE ReadPanics
  BY <1>2, PanicFits DEF ReadPanics
<1>3. CASE QueueRemoval
  <2>1. kicks' \in 0..KickCap
    BY <1>3, CapAssumption DEF QueueRemoval, IInv, TypeOK
  <2> QED
    BY <1>3, <2>1 DEF QueueRemoval, IInv, TypeOK, Fits, goVars, mainVars, panicVars
<1> QED
  BY <1>1, <1>2, <1>3

\* A send that panics ends the section of a handler, or the process.
LEMMA SendIInv ==
  ASSUME IInv, (\E w \in Workers : SendPanics(w)) \/ (\E g \in Goroutines : SendCrashes(g))
  PROVE  IInv'
<1>1. ASSUME NEW w \in Workers, SendPanics(w) PROVE IInv'
  <2>1. /\ section \in [Goroutines -> Sections] /\ held \in [Goroutines -> 0..3]
        /\ step \in [Goroutines -> Steps] /\ \A h \in Goroutines : Fits(h)
    BY DEF IInv, TypeOK
  <2>2. /\ section' \in [Goroutines -> Sections] /\ held' \in [Goroutines -> 0..3]
        /\ step' \in [Goroutines -> Steps]
    <3>1. section' \in [Goroutines -> Sections]
      BY <1>1, <2>1, SectionNames DEF SendPanics
    <3>2. held' \in [Goroutines -> 0..3]
      <4>1. held' = [held EXCEPT ![w] = 0] /\ 0 \in 0..3
        BY <1>1 DEF SendPanics
      <4> QED
        BY <2>1, <4>1
    <3>3. step' \in [Goroutines -> Steps]
      BY <1>1, <2>1 DEF SendPanics, Steps
    <3> QED
      BY <3>1, <3>2, <3>3
  <2>3. ASSUME NEW h \in Goroutines PROVE Fits(h)'
    <3>1. CASE h = w
      <4>1. section'[h] = "none" /\ held'[h] = 0 /\ step'[h] = "idle"
        BY <1>1, <2>1, <3>1 DEF SendPanics
      <4> QED
        BY <4>1 DEF Fits
    <3>2. CASE h # w
      <4>1. section'[h] = section[h] /\ held'[h] = held[h] /\ step'[h] = step[h]
        BY <1>1, <2>1, <3>2 DEF SendPanics
      <4> QED
        BY <2>1, <4>1 DEF Fits
    <3> QED
      BY <3>1, <3>2
  <2> QED
    BY <1>1, <2>2, <2>3 DEF SendPanics, IInv, TypeOK, channelVars, mainVars
<1>2. CASE \E g \in Goroutines : SendCrashes(g)
  BY <1>2, PanicFits DEF SendCrashes
<1> QED
  BY <1>1, <1>2

LEMMA InitIInv == Init => IInv
<1> SUFFICES ASSUME Init PROVE IInv
  OBVIOUS
<1>1. /\ section = [g \in Goroutines |-> "none"]
      /\ held = [g \in Goroutines |-> 0]
      /\ step = [g \in Goroutines |-> IF g \in Workers THEN "idle" ELSE "out"]
  BY DEF Init
<1>2. /\ section \in [Goroutines -> Sections] /\ held \in [Goroutines -> 0..3]
      /\ step \in [Goroutines -> Steps] /\ \A h \in Goroutines : Fits(h)
  BY <1>1, SectionNames DEF Steps, Fits
<1>3. 0 \in 0..InboundCap /\ 0 \in 0..KickCap /\ 0 \in 0..2
  BY CapAssumption
<1>4. TypeOK
  BY <1>2, <1>3 DEF Init, TypeOK
<1> QED
  BY <1>2, <1>4 DEF Init, IInv

LEMMA NextIInv == IInv /\ [Next]_vars => IInv'
<1> SUFFICES ASSUME IInv, [Next]_vars PROVE IInv'
  OBVIOUS
<1>1. CASE UNCHANGED vars
  BY <1>1 DEF vars, IInv, TypeOK, Fits
<1>2. CASE Next
  BY <1>2, GoroutineIInv, WorkingIInv, RemoveIInv, StoppingIInv, ChannelIInv, SendIInv
     DEF Next
<1> QED
  BY <1>1, <1>2

----------------------------------------------------------------------------
(* What one step does to one goroutine. *)

Same(g) == section'[g] = section[g] /\ held'[g] = held[g] /\ step'[g] = step[g]

\* The steps that take and give up no lock.
NonLocking ==
    \/ \E g \in Goroutines, s \in Sections : Enter(g, s)
    \/ \E g \in Goroutines : LoopEnds(g)
    \/ Read \/ ReadPanics \/ QueueRemoval
    \/ \E w \in Workers : Working(w) \/ SendPanics(w)
    \/ \E g \in Goroutines : SendCrashes(g)
    \/ Remove
    \/ Stopping

\* Such a step leaves a goroutine alone, or moves one that neither waits for a lock
\* nor is gone; only Stop calls into the hub from wherever main is, and only a
\* panic ends the others.
Moved(g) ==
    /\ held'[g] = 0
    /\ \/ Panic /\ step'[g] = "gone"
       \/ step[g] \notin {"wait", "gone"}
       \/ g = main /\ Stop

LEMMA NonLockingMoves ==
  ASSUME IInv, NonLocking, NEW g \in Goroutines
  PROVE  Same(g) \/ Moved(g)
<1>1. /\ section \in [Goroutines -> Sections] /\ held \in [Goroutines -> 0..3]
      /\ step \in [Goroutines -> Steps] /\ \A h \in Goroutines : Fits(h)
  BY DEF IInv, TypeOK
<1>2. CASE Panic
  BY <1>2 DEF Panic, Moved
<1>3. ASSUME NEW h \in Goroutines, NEW s \in Sections, Enter(h, s) PROVE Same(g) \/ Moved(g)
  BY <1>1, <1>3 DEF Enter, Call, Same, Moved
<1>4. ASSUME NEW h \in Goroutines, step[h] \notin {"wait", "in", "gone"},
             UNCHANGED <<section, held>>, NEW x, step' = [step EXCEPT ![h] = x]
      PROVE  Same(g) \/ Moved(g)
  BY <1>1, <1>4 DEF Same, Moved, Fits
<1>5. ASSUME NEW h \in Goroutines, LoopEnds(h) PROVE Same(g) \/ Moved(g)
  BY <1>4, <1>5 DEF LoopEnds
<1>6. ASSUME NEW w \in Workers, Working(w) PROVE Same(g) \/ Moved(g)
  BY <1>4, <1>6, SingleGoroutines
     DEF Working, Receive, Return, kickOnFull, kicked, WorkerEnds
<1>7. ASSUME NEW w \in Workers, SendPanics(w) PROVE Same(g) \/ Moved(g)
  BY <1>1, <1>7, SingleGoroutines DEF SendPanics, Same, Moved
<1>8. CASE Remove
  <2>1. PICK s \in Sections : removeClient(s, {w \in Workers : step[w] = "kick"})
    BY <1>8 DEF Remove
  <2>2. /\ step[loop] = "out" /\ section' = [section EXCEPT ![loop] = s] /\ held' = held
        /\ \/ step' = [step EXCEPT ![loop] = "wait"]
           \/ \E w \in Workers : /\ step[w] = "kick"
                                 /\ step' = [step EXCEPT ![loop] = "wait", ![w] = "out"]
    BY <2>1 DEF removeClient
  <2>3. CASE g = loop \/ step[g] = "kick"
    BY <1>1, <2>2, <2>3, SingleGoroutines DEF Moved, Fits
  <2>4. CASE g # loop /\ step[g] # "kick"
    BY <1>1, <2>2, <2>4, SingleGoroutines DEF Same
  <2> QED
    BY <2>3, <2>4
<1>9. CASE Stop
  BY <1>1, <1>9 DEF Stop, Call, Same, Moved
<1>10. CASE UNCHANGED goVars
  BY <1>10 DEF goVars, Same
<1> QED
  BY <1>2, <1>3, <1>5, <1>6, <1>7, <1>8, <1>9, <1>10
     DEF NonLocking, Read, ReadPanics, QueueRemoval, SendCrashes, Stopping, closeInbound, wait

\* A goroutine takes the lock it waits for.
Takes(g) ==
    /\ step[g] = "wait"
    /\ section'[g] = section[g] /\ held'[g] = held[g] + 1

LEMMA TakeMoves ==
  ASSUME IInv, NEW h \in Goroutines, RLock(h) \/ Lock(h), NEW g \in Goroutines
  PROVE  IF g = h THEN Takes(g) ELSE Same(g)
  BY DEF IInv, TypeOK, RLock, Lock, Take, Takes, Same

LEMMA UnlockMoves ==
  ASSUME IInv, NEW h \in Goroutines, Unlock(h), NEW g \in Goroutines
  PROVE  \/ g = h /\ step[g] = "in" /\ held'[g] = 0
         \/ g # h /\ HandedTo(g, h) /\ Takes(g)
         \/ Same(g)
<1>1. CASE g = h
  BY <1>1 DEF IInv, TypeOK, Unlock
<1>2. CASE g # h /\ HandedTo(g, h)
  BY <1>2 DEF IInv, TypeOK, Unlock, HandedTo, Takes
<1>3. CASE g # h /\ ~HandedTo(g, h)
  BY <1>3 DEF IInv, TypeOK, Unlock, Same
<1> QED
  BY <1>1, <1>2, <1>3

----------------------------------------------------------------------------
(* The locks exclude each other. *)

\* Who holds a lock for writing holds it alone.
Exclusive ==
    \A g, h \in Goroutines : \A l \in Locks :
        g # h /\ Holds(g, Wr(l)) => ~Holds(h, Wr(l)) /\ ~Holds(h, Rd(l))

\* Nobody writes to a call whose lock a panic has left behind.
LeftBehind == orphaned => \A g \in Goroutines : ~Holds(g, Wr("call"))

LockInv == Exclusive /\ LeftBehind

LEMMA AccessesDiffer ==
  \A l, m : Rd(l) # Wr(m) /\ (Wr(l) = Wr(m) => l = m) /\ (Rd(l) = Rd(m) => l = m)
            /\ Rd(l).mode = "R" /\ Wr(l).mode = "W" /\ Rd(l).lock = l /\ Wr(l).lock = l
  BY DEF Rd, Wr

\* What a goroutine holds after a step, by what the step did to it.
LEMMA HoldsAfter ==
  ASSUME IInv, NEW g \in Goroutines
  PROVE  /\ held'[g] = 0 => \A a : ~Holds(g, a)'
         /\ Same(g) => \A a : Holds(g, a)' => Holds(g, a)
         /\ Takes(g) => \A a : Holds(g, a)' => Holds(g, a) \/ a = Needs(g)
<1>1. held[g] \in Nat
  BY DEF IInv, TypeOK
<1>2. held'[g] = 0 => \A a : ~Holds(g, a)'
  BY DEF Holds
<1>3. Same(g) => \A a : Holds(g, a)' => Holds(g, a)
  BY DEF Holds, Same
<1>4. ASSUME Takes(g), NEW a, Holds(g, a)' PROVE Holds(g, a) \/ a = Needs(g)
  <2>1. PICK i \in 1..(held[g] + 1) : Chain[section[g]][i] = a
    BY <1>4 DEF Holds, Takes
  <2>2. CASE i = held[g] + 1
    BY <2>1, <2>2 DEF Needs
  <2>3. CASE i # held[g] + 1
    BY <1>1, <2>1, <2>3 DEF Holds
  <2> QED
    BY <2>2, <2>3
<1> QED
  BY <1>2, <1>3, <1>4

\* A step after which nobody holds more than before.
LEMMA NothingTaken ==
  ASSUME LockInv, \A g \in Goroutines : \A a : Holds(g, a)' => Holds(g, a),
         orphaned' => orphaned \/ \A g \in Goroutines : ~Holds(g, Wr("call"))'
  PROVE  LockInv'
  BY DEF LockInv, Exclusive, LeftBehind

LEMMA TakeExclusive ==
  ASSUME IInv, LockInv, NEW g \in Goroutines, RLock(g) \/ Lock(g)
  PROVE  LockInv'
<1> DEFINE l == Needs(g).lock
<1>1. Needs(g) \in Accesses /\ l \in Locks
  BY WaitsFor DEF RLock, Lock, Accesses
<1>2. /\ \A a : Holds(g, a)' => Holds(g, a) \/ a = Needs(g)
      /\ \A h \in Goroutines : h # g => \A a : Holds(h, a)' => Holds(h, a)
  BY TakeMoves, HoldsAfter
<1>3. orphaned' = orphaned
  BY DEF RLock, Lock, Take, panicVars
<1>4. CASE RLock(g)
  <2>1. Needs(g) = Rd(l)
    BY <1>1, <1>4 DEF RLock, Accesses, Rd
  <2>2. \A h \in Goroutines : ~Holds(h, Wr(l))
    BY <1>4 DEF RLock, CanRead
  <2> HIDE DEF l
  <2>3. \A h \in Goroutines : \A m \in Locks : Holds(h, Wr(m))' => Holds(h, Wr(m))
    BY <1>2, <2>1, AccessesDiffer
  <2>4. \A h \in Goroutines : \A m \in Locks :
          Holds(h, Rd(m))' => Holds(h, Rd(m)) \/ (h = g /\ m = l)
    BY <1>2, <2>1, AccessesDiffer
  <2>5. Exclusive'
    BY <2>2, <2>3, <2>4 DEF LockInv, Exclusive
  <2>6. LeftBehind'
    BY <1>3, <2>3 DEF LockInv, LeftBehind, Locks
  <2> QED
    BY <2>5, <2>6 DEF LockInv
<1>5. CASE Lock(g)
  <2>1. Needs(g) = Wr(l)
    BY <1>1, <1>5 DEF Lock, Accesses, Wr
  <2>2. /\ \A h \in Goroutines : ~Holds(h, Rd(l)) /\ ~Holds(h, Wr(l))
        /\ ~(orphaned /\ l = "call")
    BY <1>5 DEF Lock, CanWrite
  <2> HIDE DEF l
  <2>3. \A h \in Goroutines : \A m \in Locks :
          Holds(h, Wr(m))' => Holds(h, Wr(m)) \/ (h = g /\ m = l)
    BY <1>2, <2>1, AccessesDiffer
  <2>4. \A h \in Goroutines : \A m \in Locks : Holds(h, Rd(m))' => Holds(h, Rd(m))
    BY <1>2, <2>1, AccessesDiffer
  <2>5. Exclusive'
    BY <2>2, <2>3, <2>4 DEF LockInv, Exclusive
  <2>6. LeftBehind'
    BY <1>3, <2>2, <2>3 DEF LockInv, LeftBehind, Locks
  <2> QED
    BY <2>5, <2>6 DEF LockInv
<1> QED
  BY <1>4, <1>5

\* The readers that get a lock get one that its only writer gives up.
LEMMA UnlockExclusive ==
  ASSUME IInv, LockInv, NEW g \in Goroutines, Unlock(g)
  PROVE  LockInv'
<1>1. \A a : ~Holds(g, a)'
  BY UnlockMoves, HoldsAfter DEF Same, Unlock, IInv, TypeOK
<1>2. ASSUME NEW h \in Goroutines, HandedTo(h, g)
      PROVE  \E l \in Locks : Needs(h) = Rd(l) /\ Holds(g, Wr(l))
  <2>1. Needs(h) \in Accesses /\ Needs(h).mode = "R" /\ Holds(g, Wr(Needs(h).lock))
    BY <1>2, WaitsFor DEF HandedTo
  <2> QED
    BY <2>1 DEF Accesses, Rd
<1>3. \A h \in Goroutines : \A m \in Locks :
        /\ Holds(h, Wr(m))' => h # g /\ Holds(h, Wr(m))
        /\ Holds(h, Rd(m))' => h # g /\ (Holds(h, Rd(m)) \/ Holds(g, Wr(m)))
  <2> SUFFICES ASSUME NEW h \in Goroutines, NEW m \in Locks, h # g
               PROVE  /\ Holds(h, Wr(m))' => Holds(h, Wr(m))
                      /\ Holds(h, Rd(m))' => Holds(h, Rd(m)) \/ Holds(g, Wr(m))
    BY <1>1
  <2>1. CASE HandedTo(h, g) /\ Takes(h)
    <3>1. \A a : Holds(h, a)' => Holds(h, a) \/ a = Needs(h)
      BY <2>1, HoldsAfter
    <3> QED
      BY <1>2, <2>1, <3>1, AccessesDiffer
  <2>2. CASE Same(h)
    BY <2>2, HoldsAfter
  <2> QED
    BY <2>1, <2>2, UnlockMoves
<1>4. orphaned' = orphaned
  BY DEF Unlock, panicVars
<1> QED
  BY <1>3, <1>4 DEF LockInv, Exclusive, LeftBehind, Locks

\* The panic leaves a call locked that its handler held for reading.
LEMMA NonLockingExclusive ==
  ASSUME IInv, LockInv, NonLocking
  PROVE  LockInv'
<1>1. \A g \in Goroutines : \A a : Holds(g, a)' => Holds(g, a)
  BY NonLockingMoves, HoldsAfter DEF Moved
<1>2. CASE \E w \in Workers : SendPanics(w)
  <2>1. PICK w \in Workers : SendPanics(w)
    BY <1>2
  <2>2. w \in Goroutines /\ section[w] = "notify" /\ step[w] = "in" /\ held'[w] = 0
    BY <2>1, SingleGoroutines DEF SendPanics, IInv, TypeOK
  <2>3. Chain["notify"] = <<Rd("call"), Rd("online")>>
    BY DEF Chain, notify
  <2>4. held[w] = 2
    <3>1. held[w] = Len(Chain[section[w]])
      BY <2>2 DEF IInv, Fits
    <3> QED
      BY <2>2, <2>3, <3>1
  <2>5. Holds(w, Rd("call"))
    BY <2>2, <2>3, <2>4 DEF Holds
  <2>6. \A h \in Goroutines : h # w => ~Holds(h, Wr("call"))
    BY <2>2, <2>5 DEF LockInv, Exclusive, Locks
  <2>7. \A h \in Goroutines : ~Holds(h, Wr("call"))'
    BY <1>1, <2>2, <2>6, HoldsAfter
  <2> QED
    BY <1>1, <2>7, NothingTaken
<1>3. CASE orphaned' = orphaned
  BY <1>1, <1>3, NothingTaken
<1>4. NonLocking => (\E w \in Workers : SendPanics(w)) \/ orphaned' = orphaned
  BY DEF NonLocking, Enter, LoopEnds, Read, ReadPanics, QueueRemoval, Working, Receive, Return,
     kickOnFull, kicked, WorkerEnds, SendCrashes, Panic, Remove, removeClient, Stopping, Stop,
     closeInbound, wait, panicVars
<1> QED
  BY <1>2, <1>3, <1>4

LEMMA NextActions == Next => NonLocking \/ \E g \in Goroutines : RLock(g) \/ Lock(g) \/ Unlock(g)
  BY DEF Next, NonLocking, Locking

LEMMA NextLockInv == IInv /\ LockInv /\ [Next]_vars => LockInv'
<1> SUFFICES ASSUME IInv, LockInv, [Next]_vars PROVE LockInv'
  OBVIOUS
<1>1. CASE UNCHANGED vars
  BY <1>1 DEF vars, LockInv, Exclusive, LeftBehind, Holds
<1>2. CASE Next
  BY <1>2, NextActions, NonLockingExclusive, TakeExclusive, UnlockExclusive
<1> QED
  BY <1>1, <1>2

----------------------------------------------------------------------------
(* Stop. *)

\* main waits for a lock in Stop only; a Stop that has come back has seen every
\* worker end; a Stop that is past its walk has closed the channel.
StopInv ==
    /\ stage # "closing" => step[main] \in {"out", "gone"}
    /\ stage = "stopped" => \A w \in Workers : step[w] = "gone"
    /\ stage \in {"waiting", "stopped"} => inboundClosed
    /\ stops = 2 => stage = "closing" /\ inboundClosed

\* A goroutine that is gone stays so, main apart.
LEMMA GoneStays ==
  ASSUME IInv, Next, NEW g \in Goroutines, g # main, step[g] = "gone"
  PROVE  step'[g] = "gone"
<1>1. CASE NonLocking
  BY <1>1, NonLockingMoves DEF Same, Moved
<1>2. ASSUME NEW h \in Goroutines, RLock(h) \/ Lock(h) \/ Unlock(h)
      PROVE  step'[g] = "gone"
  BY <1>2, TakeMoves, UnlockMoves DEF Same, Takes
<1> QED
  BY <1>1, <1>2, NextActions

\* main moves in Stop only.
LEMMA MainRests ==
  ASSUME IInv, Next, step[main] \in {"out", "gone"}, ~Stop
  PROVE  step'[main] \in {step[main], "gone"}
<1>1. main \in Goroutines /\ SectionsOf(main) = {} /\ main \notin Checkers \cup {loop, evictor}
  BY SingleGoroutines, WorkersAssumption, PagesAssumption, SinglesAssumption
     DEF SectionsOf, Pages
<1>2. step \in [Goroutines -> Steps] /\ Workers \subseteq Goroutines /\ main \notin Workers
  BY SingleGoroutines DEF IInv, TypeOK
<1>3. CASE Panic
  BY <1>1, <1>3 DEF Panic
<1>4. ASSUME NEW h \in Goroutines, RLock(h) \/ Lock(h) \/ Unlock(h)
      PROVE  step'[main] = step[main]
  BY <1>1, <1>4, TakeMoves, UnlockMoves DEF Same, Takes
<1>5. ASSUME NEW g \in Goroutines, NEW s \in Sections, Enter(g, s)
      PROVE  step'[main] = step[main]
  BY <1>1, <1>2, <1>5 DEF Enter, Call
<1>6. CASE \E g \in Goroutines : LoopEnds(g)
  BY <1>1, <1>2, <1>6 DEF LoopEnds
<1>7. ASSUME NEW w \in Workers, Working(w) \/ SendPanics(w)
      PROVE  step'[main] = step[main]
  <2>1. \E x : step' = [step EXCEPT ![w] = x]
    BY <1>7 DEF Working, Receive, Return, kickOnFull, kicked, WorkerEnds, SendPanics
  <2> QED
    BY <1>1, <1>2, <2>1
<1>8. CASE Remove
  <2>1. PICK s \in Sections : removeClient(s, {w \in Workers : step[w] = "kick"})
    BY <1>8 DEF Remove
  <2>2. \/ step' = [step EXCEPT ![loop] = "wait"]
        \/ \E w \in Workers : step' = [step EXCEPT ![loop] = "wait", ![w] = "out"]
    BY <2>1 DEF removeClient
  <2> QED
    BY <1>1, <1>2, <2>2
<1>9. CASE UNCHANGED goVars
  BY <1>9 DEF goVars
<1> QED
  BY <1>3, <1>4, <1>5, <1>6, <1>7, <1>8, <1>9, NextActions
     DEF NonLocking, Read, ReadPanics, QueueRemoval, SendCrashes, Stopping, closeInbound, wait

\* The stages change in Stop only.
LEMMA StagesRest ==
  ASSUME Next, ~Stopping
  PROVE  UNCHANGED <<inboundClosed, stage, stops>>
  BY DEF Next, Enter, Locking, RLock, Lock, Unlock, Take, LoopEnds, Read, ReadPanics, Panic,
     QueueRemoval, Working, Receive, Return, kickOnFull, kicked, WorkerEnds, SendPanics,
     SendCrashes, Remove, removeClient, channelVars, mainVars

LEMMA NextStopInv == IInv /\ StopInv /\ [Next]_vars => StopInv'
<1> SUFFICES ASSUME IInv, StopInv, [Next]_vars PROVE StopInv'
  OBVIOUS
<1>1. CASE UNCHANGED vars
  BY <1>1 DEF vars, StopInv
<1>2. CASE Next /\ Stop
  BY <1>2 DEF Stop, StopInv, IInv, channelVars
<1>3. CASE Next /\ ~Stop
  <2>1. step[main] \in {"out", "gone"} => step'[main] \in {"out", "gone"}
    BY <1>3, MainRests
  <2>2. \A w \in Workers : step[w] = "gone" => step'[w] = "gone"
    BY <1>3, GoneStays, SingleGoroutines
  <2>3. CASE ~Stopping
    BY <1>3, <2>1, <2>2, <2>3, StagesRest DEF StopInv
  <2>4. CASE closeInbound
    BY <2>1, <2>2, <2>4 DEF closeInbound, Panic, StopInv, goVars, mainVars
  <2>5. CASE wait
    BY <2>1, <2>2, <2>5 DEF wait, StopInv, goVars, channelVars
  <2> QED
    BY <1>3, <2>3, <2>4, <2>5 DEF Stopping
<1> QED
  BY <1>1, <1>2, <1>3

LEMMA InitOthers == Init => LockInv /\ StopInv
<1> SUFFICES ASSUME Init PROVE LockInv /\ StopInv
  OBVIOUS
<1>1. \A g \in Goroutines : \A a : ~Holds(g, a)
  BY DEF Init, Holds
<1>2. step[main] = "out"
  BY SingleGoroutines DEF Init
<1> QED
  BY <1>1, <1>2 DEF Init, LockInv, Exclusive, LeftBehind, StopInv

----------------------------------------------------------------------------
(* The theorems. *)

\* The inductive invariant.
THEOREM Invariance == Spec => []IInv
  BY InitIInv, NextIInv, PTL DEF Spec

\* The shape of the state; the channels keep within their capacities, also when a
\* worker that waits to kick gets the place of the client that the loop takes.
THEOREM TypeCorrect == Spec => []TypeOK
<1>1. IInv => TypeOK
  BY DEF IInv
<1> QED
  BY <1>1, Invariance, PTL

\* The critical sections of handlers, watchers, the monitor page, the loop, the
\* evictor and Stop never wait for each other in a circle, however many of them
\* there are; the exceptions are the loop that waits for itself and the lock of a call that
\* a panic has left behind.
THEOREM NoCircle == Spec => []NoDeadlock
  BY Invariance, NobodyIsLast, PTL

\* A lock that is held for writing is held by nobody else, also when an unlock
\* hands it to the readers that waited; and the call whose lock a panic has left
\* behind is never held for writing again.
THEOREM LocksExclude == Spec => []LockInv
<1>1. Init => IInv /\ LockInv
  BY InitIInv, InitOthers
<1>2. IInv /\ LockInv /\ [Next]_vars => (IInv /\ LockInv)'
  BY NextIInv, NextLockInv
<1> QED
  BY <1>1, <1>2, PTL DEF Spec

\* Stop comes back only when every worker has ended.  Called a second time, by
\* Container.Close, it never comes back: it gets as far as the channel, which is
\* closed already, and the rest of Close is never reached.
THEOREM StopOnce == Spec => []StopInv
<1>1. Init => IInv /\ StopInv
  BY InitIInv, InitOthers
<1>2. IInv /\ StopInv /\ [Next]_vars => (IInv /\ StopInv)'
  BY NextIInv, NextStopInv
<1> QED
  BY <1>1, <1>2, PTL DEF Spec

\* The loop that waits for its own lock does so until the process ends: nobody
\* can hand the lock to it, as nobody else holds it.
THEOREM LoopStuckForGood == Spec => [][LoopStuck => LoopStuck' \/ crashed']_vars
<1>1. IInv /\ LockInv /\ [Next]_vars => [LoopStuck => LoopStuck' \/ crashed']_vars
  <2> SUFFICES ASSUME IInv, LockInv, Next, LoopStuck, ~crashed' PROVE LoopStuck'
    OBVIOUS
  <2>1. /\ loop \in Goroutines /\ loop # main
        /\ section[loop] = "remove" /\ held[loop] = 1 /\ step[loop] \in Steps
    BY SingleGoroutines DEF LoopStuck, IInv, TypeOK
  <2>2. Chain["remove"] = <<Wr("online"), Rd("online")>>
    BY DEF Chain, remove
  <2>3. step[loop] = "wait" /\ Needs(loop) = Rd("online") /\ Holds(loop, Wr("online"))
    BY <2>1, <2>2, RemoveChain DEF IInv, Fits, Needs, Holds
  <2>4. CASE NonLocking
    <3>1. Same(loop) \/ Moved(loop)
      BY <2>1, <2>4, NonLockingMoves
    <3>2. ~Moved(loop)
      BY <2>1, <2>3 DEF Moved, Panic
    <3> QED
      BY <3>1, <3>2 DEF Same, LoopStuck
  <2>5. ASSUME NEW g \in Goroutines, RLock(g) \/ Lock(g) PROVE LoopStuck'
    <3>1. g # loop
      BY <2>1, <2>3, <2>5, AccessesDiffer DEF RLock, Lock, CanRead
    <3> QED
      BY <2>1, <2>5, <3>1, TakeMoves DEF Same, LoopStuck
  <2>6. ASSUME NEW g \in Goroutines, Unlock(g) PROVE LoopStuck'
    <3>1. g # loop
      BY <2>3, <2>6 DEF Unlock
    <3>2. ~HandedTo(loop, g)
      BY <2>1, <2>3, <3>1, AccessesDiffer DEF HandedTo, LockInv, Exclusive, Locks
    <3> QED
      BY <2>1, <2>6, <3>1, <3>2, UnlockMoves DEF Same, LoopStuck
  <2> QED
    BY <2>4, <2>5, <2>6, NextActions
<1> QED
  BY <1>1, Invariance, LocksExclude, PTL DEF Spec

\* So does whoever waits to write to a call that a panic has left locked.
THEOREM LockLostForGood == Spec => [][LockLost => LockLost' \/ crashed']_vars
<1>1. IInv /\ StopInv /\ [Next]_vars => [LockLost => LockLost' \/ crashed']_vars
  <2> SUFFICES ASSUME IInv, StopInv, Next, LockLost, ~crashed' PROVE LockLost'
    OBVIOUS
  <2>1. PICK g \in Goroutines : WantsToWrite(g, "call")
    BY DEF LockLost
  <2>2. step[g] = "wait" /\ Needs(g) = Wr("call") /\ orphaned
    BY <2>1 DEF WantsToWrite, LockLost
  <2>3. orphaned'
    BY <2>2 DEF Next, Enter, Locking, RLock, Lock, Unlock, Take, LoopEnds, Read, ReadPanics,
       Panic, QueueRemoval, Working, Receive, Return, kickOnFull, kicked, WorkerEnds, SendPanics,
       SendCrashes, Remove, removeClient, Stopping, Stop, closeInbound, wait, panicVars
  <2>4. Same(g)
    <3>1. CASE NonLocking
      <4>1. Same(g) \/ Moved(g)
        BY <3>1, NonLockingMoves
      <4>2. ~(g = main /\ Stop)
        BY <2>2 DEF StopInv, Stop
      <4> QED
        BY <2>2, <4>1, <4>2 DEF Moved, Panic
    <3>2. ASSUME NEW h \in Goroutines, RLock(h) \/ Lock(h) PROVE Same(g)
      <4>1. g # h
        BY <2>2, <3>2, AccessesDiffer DEF RLock, Lock, CanWrite
      <4> QED
        BY <3>2, <4>1, TakeMoves
    <3>3. ASSUME NEW h \in Goroutines, Unlock(h) PROVE Same(g)
      BY <2>2, <3>3, UnlockMoves, AccessesDiffer DEF HandedTo
    <3> QED
      BY <3>1, <3>2, <3>3, NextActions
  <2>5. WantsToWrite(g, "call")'
    BY <2>1, <2>4 DEF WantsToWrite, Needs, Same
  <2> QED
    BY <2>3, <2>5 DEF LockLost
<1> QED
  BY <1>1, Invariance, StopOnce, PTL DEF Spec

=============================================================================
