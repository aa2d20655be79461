------------------------ MODULE StreamBridgeProofs ------------------------
(***************************************************************************)
(* StreamBridge for any number of events: its types, that nobody is told   *)
(* of a reply that is not stored, that no run is left behind, that the     *)
(* bridge implements EventStream, that nobody who waits is forgotten, and  *)
(* that the steps run out.                                                 *)
(***************************************************************************)
EXTENDS StreamBridge, SequenceTheorems, TLAPS

ThreadEnded == thread \in {"returned", "raised"}

\* The runner, its thread and the caller as far as no queue is needed to tell.
ActorsInv ==
  /\ caller = "called" => runner = "none" /\ queue = <<>> /\ emitted = <<>> /\ delivered = <<>>
  /\ runner = "none" => thread = "none" /\ ready = <<>> /\ caller \in {"called", "complete"}
  /\ runner = "created" =>
       thread = "none" /\ ready = <<Step("start")>> /\ queue = <<>> /\ delivered = <<>>
  /\ runner = "waiting" => thread # "none"
  /\ runner \in {"resuming", "done", "failed"} => ThreadEnded
  /\ runner \in {"cancelling", "cancelled"} => cut
  /\ cut => caller \in {"left", "closing", "abandoned"}
  /\ caller = "drained" => runner \in {"done", "failed"}
  /\ caller = "complete" => runner \in {"none", "done"}
  /\ caller = "failed" => runner = "failed"
  /\ caller = "abandoned" => runner \in RunnerEnds

\* The first step of the runner is alone; the thread's result comes from one that has
\* ended, and the sentinel from a runner that has.
CallbacksInv ==
  /\ \A i \in DOMAIN ready :
       /\ ready[i] = Step("start") => Len(ready) = 1 /\ thread = "none" /\ runner \in {"created", "cancelling"}
       /\ ready[i] = Step("settle") => ThreadEnded
       /\ ready[i] = Put(Sentinel) => runner \in RunnerEnds
       /\ ready[i] # Put(Completed)
  /\ \A j \in DOMAIN queue : queue[j] = Sentinel => runner \in RunnerEnds

\* run_completed is on its way only when the reply is stored.
ToldInv ==
  /\ \A j \in DOMAIN queue : queue[j] = Completed => stored
  /\ StoredBeforeTold

\* Nor before the runner is done; a replay has none.
ToldDone ==
  /\ \A j \in DOMAIN queue : queue[j] = Completed => runner \in {"none", "done"}
  /\ \A k \in DOMAIN delivered : delivered[k] = Completed => runner \in {"none", "done"}

\* The run is complete when the runner is done, and only then, a replay aside.
CompleteInv ==
  /\ runner = "done" => emitted # <<>> /\ emitted[Len(emitted)] = Completed
  /\ runner = "none" /\ caller = "complete" => emitted = <<Completed>> /\ delivered = <<Completed>>
  /\ runner \notin {"none", "done"} => \A k \in DOMAIN emitted : emitted[k] # Completed
-----------------------------------------------------------------------------
(* What is between the run and the caller *)

\* The events that are still callbacks.
Pending == Len(emitted) - Len(delivered) - Len(queue)

\* Up to n, the queue continues what was delivered.
QueueContinues(n) == \A j \in 1 .. n : queue[j] = emitted[Len(delivered) + j]

\* The callbacks continue the queue; behind them is what ends the thread's part.
CallbacksContinue ==
  /\ \A i \in 1 .. Pending : ready[i] = Put(emitted[Len(delivered) + Len(queue) + i])
  /\ runner = "created" => Pending = 0 /\ ready = <<Step("start")>>
  /\ runner = "waiting" /\ thread = "running" => Len(ready) = Pending
  /\ runner = "waiting" /\ thread # "running" =>
       Len(ready) = Pending + 1 /\ ready[Len(ready)] = Step("settle")
  /\ runner = "resuming" => Len(ready) = Pending + 1 /\ ready[Len(ready)] = Step("resume")

\* The sentinel, in its callback or last in the queue.
SentinelLast ==
  \/ ready = <<Put(Sentinel)>> /\ Pending = 0 /\ QueueContinues(Len(queue))
  \/ /\ ready = <<>> /\ Pending = -1
     /\ queue[Len(queue)] = Sentinel /\ QueueContinues(Len(queue) - 1)

OrderInv ==
  /\ caller \in {"taking", "waiting"} =>
       /\ Len(delivered) <= Len(emitted)
       /\ \A k \in 1 .. Len(delivered) : delivered[k] = emitted[k]
       /\ \/ /\ runner \in {"created", "waiting", "resuming"}
             /\ Pending \in Nat /\ QueueContinues(Len(queue)) /\ CallbacksContinue
          \/ runner \in {"done", "failed"} /\ SentinelLast
  /\ caller = "drained" => delivered = emitted

BridgeInv == TypeOK /\ ActorsInv /\ CallbacksInv /\ ToldInv /\ ToldDone /\ CompleteInv /\ OrderInv
-----------------------------------------------------------------------------
(* Sequences and callbacks *)

LEMMA Popped ==
  ASSUME NEW S, NEW s \in Seq(S), s # <<>>
  PROVE  /\ Len(s) \in Nat \ {0} /\ Head(s) = s[1] /\ s[1] \in S
         /\ Tail(s) \in Seq(S) /\ Len(Tail(s)) = Len(s) - 1
         /\ \A i \in 1 .. Len(s) - 1 : Tail(s)[i] = s[i + 1]
  BY HeadTailProperties

LEMMA Pushed ==
  ASSUME NEW S, NEW s \in Seq(S), NEW e \in S
  PROVE  /\ Append(s, e) \in Seq(S) /\ Append(s, e) # <<>>
         /\ Len(s) \in Nat /\ Len(Append(s, e)) = Len(s) + 1
         /\ \A i \in 1 .. Len(s) : Append(s, e)[i] = s[i]
         /\ Append(s, e)[Len(s) + 1] = e
  BY AppendProperties

LEMMA Joined ==
  ASSUME NEW S, NEW s \in Seq(S), NEW t \in Seq(S)
  PROVE  /\ s \o t \in Seq(S) /\ Len(s) \in Nat /\ Len(t) \in Nat
         /\ Len(s \o t) = Len(s) + Len(t)
         /\ \A i \in 1 .. Len(s) : (s \o t)[i] = s[i]
         /\ \A i \in 1 .. Len(t) : (s \o t)[Len(s) + i] = t[i]
  BY ConcatProperties

LEMMA ShiftedBy ==
  ASSUME NEW S, NEW s \in Seq(S), s # <<>>, NEW c \in S
  PROVE  /\ \A i \in DOMAIN Tail(s) : i + 1 \in DOMAIN s /\ Len(s) # 1 /\ Tail(s)[i] = s[i + 1]
         /\ \A i \in DOMAIN Append(Tail(s), c) :
              \/ i + 1 \in DOMAIN s /\ Len(s) # 1 /\ Append(Tail(s), c)[i] = s[i + 1]
              \/ Append(Tail(s), c)[i] = c
<1>1. /\ Len(s) \in Nat \ {0} /\ Len(Tail(s)) = Len(s) - 1 /\ Tail(s) \in Seq(S)
      /\ \A i \in 1 .. Len(s) - 1 : Tail(s)[i] = s[i + 1]
  BY Popped
<1>2. /\ Append(Tail(s), c) \in Seq(S) /\ Len(Append(Tail(s), c)) = Len(s)
      /\ \A i \in 1 .. Len(s) - 1 : Append(Tail(s), c)[i] = Tail(s)[i]
      /\ Append(Tail(s), c)[Len(s)] = c
  BY <1>1, Pushed
<1>3. DOMAIN s = 1 .. Len(s) /\ DOMAIN Tail(s) = 1 .. Len(s) - 1
      /\ DOMAIN Append(Tail(s), c) = 1 .. Len(s)
  BY <1>1, <1>2
<1>4. ASSUME NEW i \in 1 .. Len(s) - 1
      PROVE  i + 1 \in 1 .. Len(s) /\ Len(s) # 1
  BY <1>1
<1>5. \A i \in 1 .. Len(s) : i \in 1 .. Len(s) - 1 \/ i = Len(s)
  <2>1. \A n \in Nat : \A i \in 1 .. n : i \in 1 .. n - 1 \/ i = n
    OBVIOUS
  <2> QED
    BY <1>1, <2>1
<1> QED
  BY <1>1, <1>2, <1>3, <1>4, <1>5

LEMMA AfterTheOnly ==
  ASSUME NEW S, NEW s \in Seq(S), Len(s) = 1, NEW c \in S
  PROVE  Tail(s) = <<>> /\ Append(Tail(s), c) = <<c>>
<1>1. Tail(s) \in Seq(S) /\ Len(Tail(s)) = 0
  BY Popped, EmptySeq
<1>2. Tail(s) = <<>>
  BY <1>1, EmptySeq
<1>3. Append(<<>>, c) = <<>> \o <<c>>
  BY AppendIsConcat, EmptySeq
<1>4. <<c>> \in Seq(S)
  OBVIOUS
<1> QED
  BY <1>2, <1>3, <1>4, ConcatEmptySeq

LEMMA CallbackFacts ==
  /\ \A e \in Events \cup {Sentinel} : Put(e) \in Callbacks /\ Put(e).do = "put" /\ Put(e).item = e
  /\ \A w \in {"start", "settle", "resume", "close"} : Step(w) \in Callbacks /\ Step(w).do = w
  /\ \A c \in Callbacks :
       \/ c.do = "put" /\ c.item \in Events \cup {Sentinel} /\ c = Put(c.item)
       \/ c.do \in {"start", "settle", "resume", "close"} /\ c = Step(c.do)
<1>1. \A e \in Events \cup {Sentinel} : Put(e) \in Callbacks /\ Put(e).do = "put" /\ Put(e).item = e
  BY DEF Put, Callbacks
<1>2. \A w \in {"start", "settle", "resume", "close"} : Step(w) \in Callbacks /\ Step(w).do = w
  BY DEF Step, Callbacks
<1>3. ASSUME NEW c \in Callbacks
      PROVE  \/ c.do = "put" /\ c.item \in Events \cup {Sentinel} /\ c = Put(c.item)
             \/ c.do \in {"start", "settle", "resume", "close"} /\ c = Step(c.do)
  <2>1. CASE \E e \in Events \cup {Sentinel} : c = Put(e)
    BY <1>1, <2>1
  <2>2. CASE \E w \in {"start", "settle", "resume", "close"} : c = Step(w)
    BY <1>2, <2>2
  <2> QED
    BY <2>1, <2>2 DEF Callbacks
<1> QED
  BY <1>1, <1>2, <1>3

LEMMA EventFacts ==
  /\ Completed \in Events /\ Compacted \in Events /\ Sentinel \notin Events
  /\ Compacted # Completed
  /\ \A n \in 1 .. MaxEvents : RunEvent(n) \in Events /\ RunEvent(n) # Completed
<1>1. Compacted.type = "memory_compacted" /\ Completed.type = "run_completed" /\ Sentinel.type = "sentinel"
  BY DEF Compacted, Completed, Sentinel
<1>2. \A n \in 1 .. MaxEvents : RunEvent(n).type = "run_event"
  BY DEF RunEvent
<1>3. \A e \in Events : e = Compacted \/ e = Completed \/ \E n \in 1 .. MaxEvents : e = RunEvent(n)
  BY DEF Events
<1> QED
  BY <1>1, <1>2, <1>3 DEF Events
-----------------------------------------------------------------------------
(* Types *)

LEMMA TypeInit == Init => TypeOK
<1> SUFFICES ASSUME Init PROVE TypeOK
  OBVIOUS
<1>1. ready \in Seq(Callbacks) /\ queue \in Seq(Events \cup {Sentinel})
  BY DEF Init
<1>2. emitted \in Seq(Events) /\ delivered \in Seq(Events)
  BY DEF Init
<1>3. stored \in BOOLEAN /\ cut \in BOOLEAN /\ thread = "none" /\ runner = "none" /\ caller = "called"
  BY DEF Init
<1> QED
  BY <1>1, <1>2, <1>3 DEF TypeOK

LEMMA ThreadTypes ==
  ASSUME TypeOK, Thread
  PROVE  TypeOK'
<1>1. CASE ThreadEmits
  <2>1. Len(emitted) \in Nat /\ Len(emitted) + 1 \in 1 .. MaxEvents
    BY <1>1, BridgeAssumption DEF ThreadEmits, TypeOK
  <2>2. RunEvent(Len(emitted) + 1) \in Events
    BY <2>1, EventFacts
  <2> QED
    BY <1>1, <2>2, CallbackFacts, Pushed DEF ThreadEmits, TypeOK
<1>2. CASE ThreadEnds
  BY <1>2, CallbackFacts, Pushed DEF ThreadEnds, TypeOK
<1> QED
  BY <1>1, <1>2 DEF Thread

\* A callback that runs is the first, and leaves the others.
LEMMA HeadRuns ==
  ASSUME TypeOK, ready # <<>>
  PROVE  /\ Head(ready) \in Callbacks /\ Tail(ready) \in Seq(Callbacks)
         /\ Append(Tail(ready), Put(Sentinel)) \in Seq(Callbacks)
         /\ Append(Tail(ready), Step("resume")) \in Seq(Callbacks)
  BY CallbackFacts, Popped, Pushed DEF TypeOK

LEMMA EmitTypes ==
  ASSUME TypeOK, NEW events \in Seq(Events), Emit(events)
  PROVE  emitted' \in Seq(Events) /\ queue' \in Seq(Events \cup {Sentinel})
         /\ caller' \in {caller, "taking"}
<1>1. events \in Seq(Events \cup {Sentinel})
  OBVIOUS
<1> QED
  BY <1>1, Joined DEF Emit, TypeOK

LEMMA LoopTypes ==
  ASSUME TypeOK, Loop
  PROVE  TypeOK'
<1>1. CASE PutItem
  <2>1. Head(ready).item \in Events \cup {Sentinel}
    BY <1>1, HeadRuns, CallbackFacts DEF PutItem
  <2> QED
    BY <1>1, <2>1, HeadRuns, Pushed DEF PutItem, TypeOK
<1>2. CASE StartRunner
  BY <1>2, HeadRuns DEF StartRunner, Runs, TypeOK, RunnerEnds
<1>3. CASE SettleFuture
  BY <1>3, HeadRuns DEF SettleFuture, Runs, TypeOK
<1>4. CASE RunnerStores
  <2>1. <<Completed>> \in Seq(Events) /\ <<Compacted, Completed>> \in Seq(Events)
    BY EventFacts
  <2>2. emitted' \in Seq(Events) /\ queue' \in Seq(Events \cup {Sentinel}) /\ caller' \in {caller, "taking"}
    BY <1>4, <2>1, EmitTypes DEF RunnerStores
  <2> QED
    BY <1>4, <2>2, HeadRuns DEF RunnerStores, LeaveRunner, Runs, TypeOK, RunnerEnds
<1>5. CASE RunnerFails \/ RunnerCancelled
  BY <1>5, HeadRuns DEF RunnerFails, RunnerCancelled, LeaveRunner, Runs, TypeOK, RunnerEnds
<1>6. CASE CloseGenerator
  BY <1>6, HeadRuns DEF CloseGenerator, Runs, TypeOK
<1> QED
  BY <1>1, <1>2, <1>3, <1>4, <1>5, <1>6 DEF Loop

LEMMA CallerTypes ==
  ASSUME TypeOK, Caller \/ Cancelled \/ BreakOut \/ CancelWait
  PROVE  TypeOK'
<1>1. CASE Replay
  BY <1>1, EventFacts DEF Replay, TypeOK, CallerEnds
<1>2. CASE Begin
  BY <1>2, CallbackFacts DEF Begin, TypeOK
<1>3. CASE Take
  <2>1. Head(queue) \in Events /\ Tail(queue) \in Seq(Events \cup {Sentinel})
    BY <1>3, Popped DEF Take, TypeOK
  <2> QED
    BY <1>3, <2>1, Pushed DEF Take, TypeOK
<1>4. CASE TakeSentinel
  BY <1>4, Popped DEF TakeSentinel, TypeOK
<1>5. CASE WaitForItem \/ Cancelled \/ End
  BY <1>5 DEF WaitForItem, Cancelled, End, TypeOK, CallerEnds
<1>6. CASE CancelWait \/ BreakOut
  <2>1. Append(ready, Step("resume")) \in Seq(Callbacks) /\ Append(ready, Step("close")) \in Seq(Callbacks)
    BY CallbackFacts, Pushed DEF TypeOK
  <2>2. CASE CancelWait
    BY <2>1, <2>2 DEF CancelWait, TypeOK
  <2>3. CASE BreakOut
    BY <2>1, <2>3 DEF BreakOut, TypeOK
  <2> QED
    BY <1>6, <2>2, <2>3
<1> QED
  BY <1>1, <1>2, <1>3, <1>4, <1>5, <1>6 DEF Caller

LEMMA TypeStep == TypeOK /\ [Next]_vars => TypeOK'
<1> SUFFICES ASSUME TypeOK, [Next]_vars PROVE TypeOK'
  OBVIOUS
<1>1. CASE UNCHANGED vars
  BY <1>1 DEF vars, TypeOK
<1> QED
  BY <1>1, ThreadTypes, LoopTypes, CallerTypes DEF Next, Quiescent
-----------------------------------------------------------------------------
(* The actors *)

LEMMA ActorsInit == Init => ActorsInv /\ CallbacksInv /\ ToldInv /\ ToldDone /\ CompleteInv
  BY DEF Init, ActorsInv, CallbacksInv, ToldInv, ToldDone, StoredBeforeTold, CompleteInv

LEMMA ActorsStep ==
  ASSUME TypeOK, ActorsInv, CallbacksInv, [Next]_vars
  PROVE  ActorsInv'
<1> USE DEF ActorsInv, ThreadEnded
<1>1. CASE Thread
  BY <1>1 DEF Thread, ThreadEmits, ThreadEnds
<1>2. CASE PutItem
  <2>1. runner # "created"
    <3>1. Head(<<Step("start")>>) = Step("start") /\ Step("start").do = "start"
      BY CallbackFacts
    <3> QED
      BY <1>2, <3>1 DEF PutItem
  <2> QED
    BY <1>2, <2>1 DEF PutItem
<1>3. CASE StartRunner
  <2>1. ready # <<>> /\ ready[1] = Step("start") /\ 1 \in DOMAIN ready
    BY <1>3, Popped DEF StartRunner, Runs, TypeOK
  <2>2. thread = "none" /\ runner \in {"created", "cancelling"}
    BY <2>1 DEF CallbacksInv
  <2> QED
    BY <1>3, <2>2 DEF StartRunner, RunnerEnds
<1>4. CASE SettleFuture
  <2>1. ready # <<>> /\ ready[1] = Step("settle") /\ 1 \in DOMAIN ready
    BY <1>4, Popped DEF SettleFuture, Runs, TypeOK
  <2>2. ThreadEnded
    BY <2>1 DEF CallbacksInv
  <2> QED
    BY <1>4, <2>2 DEF SettleFuture, RunnerEnds
<1>5. CASE RunnerStores
  BY <1>5 DEF RunnerStores, LeaveRunner, Emit, RunnerEnds
<1>6. CASE RunnerFails \/ RunnerCancelled
  BY <1>6 DEF RunnerFails, RunnerCancelled, LeaveRunner, RunnerEnds
<1>7. CASE Replay \/ Begin
  BY <1>7 DEF Replay, Begin
<1>8. CASE Take \/ WaitForItem \/ Cancelled
  BY <1>8 DEF Take, WaitForItem, Cancelled
<1>9. CASE TakeSentinel
  <2>1. queue # <<>> /\ queue[1] = Sentinel /\ 1 \in DOMAIN queue
    BY <1>9, Popped DEF TakeSentinel, TypeOK
  <2> QED
    BY <1>9, <2>1 DEF TakeSentinel, CallbacksInv, RunnerEnds
<1>10. CASE End
  BY <1>10 DEF End, RunnerEnds
<1>11. CASE CancelWait
  BY <1>11 DEF CancelWait
<1>12. CASE UNCHANGED vars
  BY <1>12 DEF vars
<1>13. CASE BreakOut
  BY <1>13 DEF BreakOut
<1>14. CASE CloseGenerator
  <2>1. runner # "created"
    <3>1. Head(<<Step("start")>>) = Step("start") /\ Step("start").do = "start" /\ Step("close").do = "close"
      BY CallbackFacts
    <3> QED
      BY <1>14, <3>1 DEF CloseGenerator, Runs
  <2> QED
    BY <1>14, <2>1 DEF CloseGenerator
<1> QED
  BY <1>1, <1>2, <1>3, <1>4, <1>5, <1>6, <1>7, <1>8, <1>9, <1>10, <1>11, <1>12, <1>13, <1>14
     DEF Next, Loop, Caller, Quiescent

\* A callback that is added may be anything that holds by itself of the new state.
LEMMA CallbackAdded ==
  ASSUME TypeOK, CallbacksInv, UNCHANGED queue, NEW c \in Callbacks, ready' = Append(ready, c),
         c \notin {Step("start"), Put(Completed)},
         \A i \in DOMAIN ready : ready[i] # Step("start"),
         ThreadEnded => ThreadEnded', c = Step("settle") => ThreadEnded',
         runner \in RunnerEnds => runner' \in RunnerEnds, c # Put(Sentinel)
  PROVE  CallbacksInv'
<1>1. \A i \in DOMAIN ready' : (i \in DOMAIN ready /\ ready'[i] = ready[i]) \/ ready'[i] = c
  BY Pushed DEF TypeOK
<1> QED
  BY <1>1 DEF CallbacksInv

\* The callback that runs goes, and one may come, as above.
LEMMA CallbackRun ==
  ASSUME TypeOK, CallbacksInv, ready # <<>>, NEW c \in Callbacks,
         ready' \in {Tail(ready), Append(Tail(ready), c)},
         c \notin {Step("start"), Step("settle"), Put(Completed)},
         ThreadEnded => ThreadEnded',
         runner \in RunnerEnds => runner' \in RunnerEnds,
         ready' = Tail(ready) \/ c # Put(Sentinel) \/ runner' \in RunnerEnds,
         \A j \in DOMAIN queue' :
           \/ j \in DOMAIN queue /\ queue'[j] = queue[j]
           \/ queue'[j] # Sentinel
           \/ Head(ready) = Put(Sentinel)
  PROVE  CallbacksInv'
<1>1. 1 \in DOMAIN ready /\ Head(ready) = ready[1]
  BY Popped DEF TypeOK
<1>2. \A i \in DOMAIN ready' :
        \/ i + 1 \in DOMAIN ready /\ Len(ready) # 1 /\ ready'[i] = ready[i + 1]
        \/ ready' = Append(Tail(ready), c) /\ ready'[i] = c
  <2>1. ready \in Seq(Callbacks)
    BY DEF TypeOK
  <2>2. CASE ready' = Tail(ready)
    BY <2>1, <2>2, ShiftedBy
  <2>3. CASE ready' = Append(Tail(ready), c)
    BY <2>1, <2>3, ShiftedBy
  <2> QED
    BY <2>2, <2>3
<1> QED
  BY <1>1, <1>2 DEF CallbacksInv

LEMMA CallbacksStep ==
  ASSUME TypeOK, ActorsInv, CallbacksInv, [Next]_vars
  PROVE  CallbacksInv'
<1>1. CASE ThreadEmits
  <2>1. Len(emitted) + 1 \in 1 .. MaxEvents
    BY <1>1, BridgeAssumption DEF ThreadEmits, TypeOK
  <2> DEFINE c == Put(RunEvent(Len(emitted) + 1))
  <2>2. c \in Callbacks /\ c \notin {Step("start"), Step("settle"), Put(Completed), Put(Sentinel)}
    BY <2>1, EventFacts, CallbackFacts
  <2>3. ready' = Append(ready, c) /\ UNCHANGED <<queue, thread, runner>> /\ thread = "running"
    BY <1>1 DEF ThreadEmits
  <2> HIDE DEF c
  <2> QED
    BY <2>2, <2>3, CallbackAdded DEF ThreadEnded, CallbacksInv
<1>2. CASE ThreadEnds
  <2>1. Step("settle") \in Callbacks
        /\ Step("settle") \notin {Step("start"), Put(Completed), Put(Sentinel)}
    BY EventFacts, CallbackFacts
  <2> QED
    BY <1>2, <2>1, CallbackAdded DEF ThreadEnds, ThreadEnded, CallbacksInv
<1>3. CASE PutItem
  <2>1. Head(ready) = Put(Head(ready).item)
    BY <1>3, HeadRuns, CallbackFacts DEF PutItem
  <2>2. \A j \in DOMAIN queue' : (j \in DOMAIN queue /\ queue'[j] = queue[j]) \/ queue'[j] = Head(ready).item
    BY <1>3, HeadRuns, CallbackFacts, Pushed DEF PutItem, TypeOK
  <2>3. Step("resume") \in Callbacks
        /\ Step("resume") \notin {Step("start"), Step("settle"), Put(Completed), Put(Sentinel)}
    BY EventFacts, CallbackFacts
  <2> QED
    BY <1>3, <2>1, <2>2, <2>3, CallbackRun DEF PutItem, ThreadEnded
<1>4. CASE StartRunner
  <2>1. ready # <<>> /\ ready[1] = Step("start") /\ 1 \in DOMAIN ready
    BY <1>4, Popped DEF StartRunner, Runs, TypeOK
  <2>2. thread = "none" /\ runner \in {"created", "cancelling"}
    BY <2>1 DEF CallbacksInv
  <2>3. Step("resume") \in Callbacks
        /\ Step("resume") \notin {Step("start"), Step("settle"), Put(Completed), Put(Sentinel)}
    BY EventFacts, CallbackFacts
  <2> QED
    BY <1>4, <2>1, <2>2, <2>3, CallbackRun DEF StartRunner, ThreadEnded, RunnerEnds
<1>5. CASE SettleFuture
  <2>1. Step("resume") \in Callbacks
        /\ Step("resume") \notin {Step("start"), Step("settle"), Put(Completed), Put(Sentinel)}
    BY EventFacts, CallbackFacts
  <2> QED
    BY <1>5, <2>1, CallbackRun DEF SettleFuture, Runs, ThreadEnded, RunnerEnds
<1>6. Put(Sentinel) \in Callbacks
      /\ Put(Sentinel) \notin {Step("start"), Step("settle"), Put(Completed)}
  BY EventFacts, CallbackFacts
<1>7. CASE RunnerStores
  <2>1. PICK events \in Seq(Events) : Emit(events)
    <3>1. <<Completed>> \in Seq(Events) /\ <<Compacted, Completed>> \in Seq(Events)
      BY EventFacts
    <3> QED
      BY <1>7, <3>1 DEF RunnerStores
  <2>2. \A j \in DOMAIN queue' : (j \in DOMAIN queue /\ queue'[j] = queue[j]) \/ queue'[j] # Sentinel
    <3>1. events \in Seq(Events \cup {Sentinel}) /\ queue' = queue \o events
      BY <2>1 DEF Emit
    <3>2. ASSUME NEW j \in DOMAIN queue', j \notin DOMAIN queue
          PROVE  queue'[j] # Sentinel
      <4>1. j - Len(queue) \in 1 .. Len(events) /\ j = Len(queue) + (j - Len(queue))
        BY <3>1, <3>2, Joined DEF TypeOK
      <4>2. queue'[j] = events[j - Len(queue)]
        BY <3>1, <4>1, Joined DEF TypeOK
      <4>3. events[j - Len(queue)] \in Events
        BY <4>1
      <4> QED
        BY <4>2, <4>3, EventFacts
    <3>3. \A j \in DOMAIN queue : queue'[j] = queue[j]
      BY <3>1, Joined DEF TypeOK
    <3> QED
      BY <3>2, <3>3
  <2> QED
    BY <1>6, <1>7, <2>2, CallbackRun DEF RunnerStores, LeaveRunner, Runs, ThreadEnded, RunnerEnds
<1>8. CASE RunnerFails \/ RunnerCancelled
  BY <1>6, <1>8, CallbackRun DEF RunnerFails, RunnerCancelled, LeaveRunner, Runs, ThreadEnded, RunnerEnds
<1>9. CASE Begin
  <2>1. /\ Step("start") \notin {Step("settle"), Put(Completed), Put(Sentinel)}
    BY EventFacts, CallbackFacts
  <2>2. ready' = <<Step("start")>> /\ runner' = "created" /\ thread' = "none" /\ queue' = <<>>
    BY <1>9 DEF Begin, ActorsInv, TypeOK
  <2> QED
    BY <2>1, <2>2 DEF CallbacksInv
<1>10. CASE Take \/ TakeSentinel
  <2>1. UNCHANGED <<ready, thread, runner>> /\ queue # <<>> /\ queue' = Tail(queue)
    BY <1>10 DEF Take, TakeSentinel
  <2>2. \A j \in DOMAIN queue' : j + 1 \in DOMAIN queue /\ queue'[j] = queue[j + 1]
    BY <2>1, Popped DEF TypeOK
  <2> QED
    BY <2>1, <2>2 DEF CallbacksInv, ThreadEnded
<1>11. CASE CancelWait
  <2>1. CASE runner = "waiting"
    <3>1. Step("resume") \in Callbacks
          /\ Step("resume") \notin {Step("start"), Step("settle"), Put(Completed), Put(Sentinel)}
      BY EventFacts, CallbackFacts
    <3> QED
      BY <1>11, <2>1, <3>1, CallbackAdded DEF CancelWait, ThreadEnded, RunnerEnds, CallbacksInv
  <2>2. CASE runner # "waiting"
    BY <1>11, <2>2 DEF CancelWait, CallbacksInv, ThreadEnded, RunnerEnds
  <2> QED
    BY <2>1, <2>2
<1>12. CASE UNCHANGED <<ready, queue, thread, runner>>
  BY <1>12 DEF CallbacksInv, ThreadEnded
<1>13. Step("close") \in Callbacks
       /\ Step("close") \notin {Step("start"), Step("settle"), Put(Completed), Put(Sentinel)}
  BY EventFacts, CallbackFacts
<1>14. CASE BreakOut
  <2>1. runner \notin {"created", "cancelling"}
    BY <1>14 DEF BreakOut, ActorsInv
  <2>2. \A i \in DOMAIN ready : ready[i] # Step("start")
    BY <2>1 DEF CallbacksInv
  <2> QED
    BY <1>13, <1>14, <2>2, CallbackAdded DEF BreakOut, ThreadEnded
<1>15. CASE CloseGenerator
  BY <1>13, <1>15, CallbackRun DEF CloseGenerator, Runs, ThreadEnded
<1> QED
  BY <1>1, <1>2, <1>3, <1>4, <1>5, <1>7, <1>8, <1>9, <1>10, <1>11, <1>12, <1>14, <1>15
     DEF Next, Thread, Loop, Caller, Quiescent, Replay, WaitForItem, Cancelled, End, vars
-----------------------------------------------------------------------------
(* What is told, and how a run is complete *)

LEMMA ToldStep ==
  ASSUME TypeOK, ActorsInv, CallbacksInv, ToldInv, [Next]_vars
  PROVE  ToldInv'
<1>1. CASE PutItem
  <2>1. ready[1] = Put(Head(ready).item) /\ 1 \in DOMAIN ready
    <3>1. ready # <<>> /\ Head(ready).do = "put" /\ ready \in Seq(Callbacks)
      BY <1>1 DEF PutItem, TypeOK
    <3>2. Head(ready) = ready[1] /\ ready[1] \in Callbacks /\ 1 \in DOMAIN ready
      BY <3>1, Popped
    <3>3. ready[1] = Put(ready[1].item)
      BY <3>1, <3>2, CallbackFacts, Zenon
    <3> QED
      BY <3>2, <3>3
  <2>2. Head(ready).item # Completed
    <3>1. \A i \in DOMAIN ready : ready[i] # Put(Completed)
      BY DEF CallbacksInv
    <3> QED
      BY <2>1, <3>1
  <2>3. \A j \in DOMAIN queue' : (j \in DOMAIN queue /\ queue'[j] = queue[j]) \/ queue'[j] # Completed
    <3>1. Head(ready).item \in Events \cup {Sentinel}
      BY <1>1, HeadRuns, CallbackFacts DEF PutItem
    <3> QED
      BY <1>1, <2>2, <3>1, Pushed DEF PutItem, TypeOK
  <2> QED
    BY <1>1, <2>3 DEF PutItem, ToldInv, StoredBeforeTold
<1>2. CASE RunnerStores
  BY <1>2 DEF RunnerStores, ToldInv, StoredBeforeTold
<1>3. CASE Replay
  BY <1>3 DEF Replay, ToldInv, StoredBeforeTold, ActorsInv
<1>4. CASE Take \/ TakeSentinel
  <2>1. queue # <<>> /\ queue' = Tail(queue) /\ UNCHANGED stored
    BY <1>4 DEF Take, TakeSentinel
  <2>2. \A j \in DOMAIN queue' : j + 1 \in DOMAIN queue /\ queue'[j] = queue[j + 1]
    BY <2>1, Popped DEF TypeOK
  <2>3. Head(queue) = queue[1] /\ 1 \in DOMAIN queue
    BY <2>1, Popped DEF TypeOK
  <2>4. \A k \in DOMAIN delivered' : (k \in DOMAIN delivered /\ delivered'[k] = delivered[k]) \/ delivered'[k] = queue[1]
    <3>1. CASE Take
      <4>1. Head(queue) \in Events
        BY <3>1, Popped DEF Take, TypeOK
      <4> QED
        BY <2>3, <3>1, <4>1, Pushed DEF Take, TypeOK
    <3>2. CASE TakeSentinel
      BY <3>2 DEF TakeSentinel
    <3> QED
      BY <1>4, <3>1, <3>2
  <2> QED
    BY <2>1, <2>2, <2>3, <2>4 DEF ToldInv, StoredBeforeTold
<1>5. CASE UNCHANGED <<stored, queue, delivered>>
  BY <1>5 DEF ToldInv, StoredBeforeTold
<1> QED
  BY <1>1, <1>2, <1>3, <1>4, <1>5
     DEF Next, Thread, ThreadEmits, ThreadEnds, Loop, StartRunner, SettleFuture, RunnerFails,
         RunnerCancelled, CloseGenerator, Caller, Begin, WaitForItem, End, Cancelled, BreakOut,
         CancelWait, Quiescent, vars

LEMMA ToldDoneStep ==
  ASSUME TypeOK, ActorsInv, CallbacksInv, ToldDone, [Next]_vars
  PROVE  ToldDone'
<1>1. CASE PutItem
  <2>1. ready[1] = Put(Head(ready).item) /\ 1 \in DOMAIN ready
    <3>1. ready # <<>> /\ Head(ready).do = "put" /\ ready \in Seq(Callbacks)
      BY <1>1 DEF PutItem, TypeOK
    <3>2. Head(ready) = ready[1] /\ ready[1] \in Callbacks /\ 1 \in DOMAIN ready
      BY <3>1, Popped
    <3>3. ready[1] = Put(ready[1].item)
      BY <3>1, <3>2, CallbackFacts, Zenon
    <3> QED
      BY <3>2, <3>3
  <2>2. Head(ready).item # Completed
    <3>1. \A i \in DOMAIN ready : ready[i] # Put(Completed)
      BY DEF CallbacksInv
    <3> QED
      BY <2>1, <3>1
  <2>3. \A j \in DOMAIN queue' : (j \in DOMAIN queue /\ queue'[j] = queue[j]) \/ queue'[j] # Completed
    <3>1. Head(ready).item \in Events \cup {Sentinel}
      BY <1>1, HeadRuns, CallbackFacts DEF PutItem
    <3> QED
      BY <1>1, <2>2, <3>1, Pushed DEF PutItem, TypeOK
  <2> QED
    BY <1>1, <2>3 DEF PutItem, ToldDone
<1>2. CASE RunnerStores
  BY <1>2 DEF RunnerStores, LeaveRunner, ToldDone
<1>3. CASE Replay
  BY <1>3 DEF Replay, ToldDone, ActorsInv
<1>4. CASE Take \/ TakeSentinel
  <2>1. queue # <<>> /\ queue' = Tail(queue) /\ UNCHANGED runner
    BY <1>4 DEF Take, TakeSentinel
  <2>2. \A j \in DOMAIN queue' : j + 1 \in DOMAIN queue /\ queue'[j] = queue[j + 1]
    BY <2>1, Popped DEF TypeOK
  <2>3. Head(queue) = queue[1] /\ 1 \in DOMAIN queue
    BY <2>1, Popped DEF TypeOK
  <2>4. \A k \in DOMAIN delivered' : (k \in DOMAIN delivered /\ delivered'[k] = delivered[k]) \/ delivered'[k] = queue[1]
    <3>1. CASE Take
      <4>1. Head(queue) \in Events
        BY <3>1, Popped DEF Take, TypeOK
      <4> QED
        BY <2>3, <3>1, <4>1, Pushed DEF Take, TypeOK
    <3>2. CASE TakeSentinel
      BY <3>2 DEF TakeSentinel
    <3> QED
      BY <1>4, <3>1, <3>2
  <2> QED
    BY <2>1, <2>2, <2>3, <2>4 DEF ToldDone
<1>5. CASE UNCHANGED <<queue, delivered>> /\ (runner \in {"none", "done"} => runner' = runner)
  BY <1>5 DEF ToldDone
<1>6. CASE Begin
  BY <1>6 DEF Begin, ToldDone, ActorsInv
<1>7. CASE StartRunner
  <2>1. ready[1] = Step("start") /\ 1 \in DOMAIN ready
    BY <1>7, Popped DEF StartRunner, Runs, TypeOK
  <2>2. runner \in {"created", "cancelling"}
    BY <2>1 DEF CallbacksInv
  <2> QED
    BY <1>5, <1>7, <2>2 DEF StartRunner
<1>8. CASE SettleFuture \/ RunnerFails \/ RunnerCancelled \/ CancelWait
  BY <1>5, <1>8 DEF SettleFuture, RunnerFails, RunnerCancelled, LeaveRunner, CancelWait
<1>9. CASE Thread \/ CloseGenerator \/ WaitForItem \/ End \/ Cancelled \/ BreakOut \/ UNCHANGED vars
  BY <1>5, <1>9 DEF Thread, ThreadEmits, ThreadEnds, CloseGenerator, WaitForItem, End, Cancelled, BreakOut, vars
<1> QED
  BY <1>1, <1>2, <1>3, <1>4, <1>6, <1>7, <1>8, <1>9 DEF Next, Loop, Caller, Quiescent

LEMMA CompleteStep ==
  ASSUME TypeOK, ActorsInv, CallbacksInv, CompleteInv, [Next]_vars
  PROVE  CompleteInv'
<1>1. CASE ThreadEmits
  <2>1. runner \notin {"none", "done"}
    BY <1>1 DEF ThreadEmits, ActorsInv, ThreadEnded
  <2>2. Len(emitted) + 1 \in 1 .. MaxEvents
    BY <1>1, BridgeAssumption DEF ThreadEmits, TypeOK
  <2> DEFINE e == RunEvent(Len(emitted) + 1)
  <2>3. e \in Events /\ e # Completed
    BY <2>2, EventFacts
  <2>4. emitted' = Append(emitted, e) /\ UNCHANGED runner
    BY <1>1 DEF ThreadEmits
  <2> HIDE DEF e
  <2>5. \A k \in DOMAIN emitted' : (k \in DOMAIN emitted /\ emitted'[k] = emitted[k]) \/ emitted'[k] = e
    BY <2>3, <2>4, Pushed DEF TypeOK
  <2> QED
    BY <2>1, <2>3, <2>4, <2>5 DEF CompleteInv
<1>2. CASE RunnerStores
  <2>1. PICK events \in {<<Completed>>, <<Compacted, Completed>>} : emitted' = emitted \o events
    BY <1>2 DEF RunnerStores, Emit
  <2>2. events \in Seq(Events) /\ Len(events) \in 1 .. Len(events) /\ events[Len(events)] = Completed
    <3>1. CASE events = <<Completed>>
      BY <3>1, EventFacts
    <3>2. CASE events = <<Compacted, Completed>>
      BY <3>2, EventFacts
    <3> QED
      BY <3>1, <3>2
  <2>3. emitted' # <<>> /\ emitted'[Len(emitted')] = Completed
    <3>1. Len(emitted') = Len(emitted) + Len(events) /\ Len(emitted) \in Nat
      BY <2>1, <2>2, Joined DEF TypeOK
    <3>2. emitted'[Len(emitted) + Len(events)] = events[Len(events)]
      BY <2>1, <2>2, Joined DEF TypeOK
    <3> QED
      BY <2>2, <3>1, <3>2
  <2> QED
    BY <1>2, <2>3 DEF RunnerStores, LeaveRunner, CompleteInv
<1>3. CASE Replay
  BY <1>3 DEF Replay, CompleteInv, ActorsInv
<1>4. CASE Begin
  BY <1>4 DEF Begin, CompleteInv, ActorsInv
<1>5. CASE StartRunner
  <2>1. ready[1] = Step("start") /\ 1 \in DOMAIN ready
    BY <1>5, Popped DEF StartRunner, Runs, TypeOK
  <2>2. runner \in {"created", "cancelling"}
    BY <2>1 DEF CallbacksInv
  <2> QED
    BY <1>5, <2>2 DEF StartRunner, CompleteInv
<1>6. CASE SettleFuture \/ RunnerFails \/ RunnerCancelled \/ CancelWait
  BY <1>6 DEF SettleFuture, RunnerFails, RunnerCancelled, LeaveRunner, CancelWait, CompleteInv
<1>7. CASE Take \/ TakeSentinel \/ WaitForItem \/ Cancelled \/ BreakOut \/ CloseGenerator \/ PutItem
  BY <1>7 DEF Take, TakeSentinel, WaitForItem, Cancelled, BreakOut, CloseGenerator, PutItem, CompleteInv
<1>8. CASE End
  BY <1>8 DEF End, RunnerEnds, CompleteInv
<1>9. CASE UNCHANGED <<runner, caller, emitted, delivered>>
  BY <1>9 DEF CompleteInv
<1> QED
  BY <1>1, <1>2, <1>3, <1>4, <1>5, <1>6, <1>7, <1>8, <1>9
     DEF Next, Thread, ThreadEnds, Loop, Caller, Quiescent, vars
-----------------------------------------------------------------------------
(* The order, while the caller takes *)

Taking == caller \in {"taking", "waiting"}

Lengths ==
  /\ Len(emitted) \in Nat /\ Len(delivered) \in Nat /\ Len(queue) \in Nat /\ Len(ready) \in Nat
  /\ DOMAIN emitted = 1 .. Len(emitted) /\ DOMAIN delivered = 1 .. Len(delivered)
  /\ DOMAIN queue = 1 .. Len(queue) /\ DOMAIN ready = 1 .. Len(ready)

LEMMA LengthFacts == TypeOK => Lengths
  BY DEF TypeOK, Lengths

LEMMA TakingFacts ==
  ASSUME TypeOK, ActorsInv, Taking
  PROVE  /\ runner \in {"created", "waiting", "resuming", "done", "failed"}
         /\ ~cut
         /\ thread = "running" => runner = "waiting"
  BY DEF TypeOK, ActorsInv, Taking, ThreadEnded, RunnerEnds, CallerEnds

\* The runner works, and what its run has made is in order on the way to the caller.
Working ==
  /\ runner \in {"created", "waiting", "resuming"}
  /\ Pending \in Nat /\ QueueContinues(Len(queue)) /\ CallbacksContinue

DeliveredInOrder ==
  /\ Len(delivered) <= Len(emitted)
  /\ \A k \in 1 .. Len(delivered) : delivered[k] = emitted[k]

InOrder == DeliveredInOrder /\ (Working \/ (SentinelLast /\ runner \in {"done", "failed"}))

\* A callback at the head that puts nothing is the last.
LEMMA LastCallback ==
  ASSUME TypeOK, Working, ready # <<>>, Head(ready).do # "put"
  PROVE  /\ Pending = 0 /\ Len(ready) = 1
         /\ runner = "created" => ready[1] = Step("start")
         /\ runner = "waiting" => thread # "running" /\ ready[1] = Step("settle")
         /\ runner = "resuming" => ready[1] = Step("resume")
<1>1. Lengths /\ Len(ready) \in Nat \ {0} /\ Head(ready) = ready[1]
  BY LengthFacts, Popped DEF TypeOK
<1>2. Pending = 0
  <2> SUFFICES ASSUME Pending # 0 PROVE FALSE
    OBVIOUS
  <2>1. Pending \in Nat /\ 1 \in 1 .. Pending
    BY DEF Working
  <2>2. ready[1] = Put(emitted[Len(delivered) + Len(queue) + 1])
    BY <2>1 DEF Working, CallbacksContinue
  <2> QED
    BY <1>1, <2>2 DEF Put
<1>3. runner = "created" => Len(ready) = 1 /\ ready[1] = Step("start")
  BY DEF Working, CallbacksContinue
<1>4. runner = "waiting" => thread # "running" /\ Len(ready) = 1 /\ ready[1] = Step("settle")
  BY <1>1, <1>2 DEF Working, CallbacksContinue
<1>5. runner = "resuming" => Len(ready) = 1 /\ ready[1] = Step("resume")
  <2>1. runner = "resuming" => Len(ready) = Pending + 1 /\ ready[Len(ready)] = Step("resume")
    BY DEF Working, CallbacksContinue
  <2>2. Pending + 1 = 1
    BY <1>2
  <2> QED
    BY <2>1, <2>2
<1>6. runner \in {"created", "waiting", "resuming"}
  BY DEF Working
<1> QED
  BY <1>2, <1>3, <1>4, <1>5, <1>6

\* One that puts, puts the next event.
LEMMA NextCallback ==
  ASSUME TypeOK, Working, ready # <<>>, Head(ready).do = "put"
  PROVE  Pending > 0 /\ Head(ready) = Put(emitted[Len(delivered) + Len(queue) + 1])
<1>1. Lengths /\ Len(ready) \in Nat \ {0} /\ Head(ready) = ready[1]
  BY LengthFacts, Popped DEF TypeOK
<1>2. Pending # 0
  <2> SUFFICES ASSUME Pending = 0 PROVE FALSE
    OBVIOUS
  <2>1. ready[1] \in {Step("start"), Step("settle"), Step("resume")}
    BY <1>1 DEF Working, CallbacksContinue
  <2> QED
    BY <1>1, <2>1 DEF Step
<1>3. Pending \in Nat /\ 1 \in 1 .. Pending
  BY <1>2 DEF Working
<1> QED
  BY <1>1, <1>3 DEF Working, CallbacksContinue

LEMMA EmitsOrder ==
  ASSUME TypeOK, ActorsInv, OrderInv, Taking, ThreadEmits
  PROVE  DeliveredInOrder' /\ Working'
<1>1. Lengths /\ runner = "waiting" /\ thread = "running"
  BY LengthFacts, TakingFacts DEF ThreadEmits
<1>2. Working /\ DeliveredInOrder
  BY <1>1 DEF OrderInv, Taking, Working, DeliveredInOrder
<1>3. Len(emitted) + 1 \in 1 .. MaxEvents
  BY <1>1, BridgeAssumption DEF ThreadEmits, Lengths
<1> DEFINE e == RunEvent(Len(emitted) + 1)
<1>4. e \in Events /\ Put(e) \in Callbacks
  BY <1>3, EventFacts, CallbackFacts
<1>5. emitted' = Append(emitted, e) /\ ready' = Append(ready, Put(e))
      /\ UNCHANGED <<stored, thread, queue, runner, caller, delivered, cut>>
  BY DEF ThreadEmits
<1> HIDE DEF e
<1>6. /\ Len(emitted') = Len(emitted) + 1 /\ emitted'[Len(emitted) + 1] = e
      /\ \A k \in 1 .. Len(emitted) : emitted'[k] = emitted[k]
  BY <1>4, <1>5, Pushed DEF TypeOK
<1>7. /\ Len(ready') = Len(ready) + 1 /\ ready'[Len(ready) + 1] = Put(e)
      /\ \A i \in 1 .. Len(ready) : ready'[i] = ready[i]
  BY <1>4, <1>5, Pushed DEF TypeOK
<1>8. Pending \in Nat /\ Pending' = Pending + 1 /\ Len(ready) = Pending
  <2>1. Pending \in Nat /\ Len(ready) = Pending
    BY <1>1, <1>2 DEF Working, CallbacksContinue
  <2>2. Pending' = Len(emitted) + 1 - Len(delivered) - Len(queue)
    BY <1>5, <1>6 DEF Pending
  <2> QED
    BY <1>1, <2>1, <2>2 DEF Pending, Lengths
<1>9. Len(delivered) + Len(queue) + Pending = Len(emitted)
  BY <1>1 DEF Pending, Lengths
<1>10. QueueContinues(Len(queue))'
  <2> SUFFICES ASSUME NEW j \in 1 .. Len(queue) PROVE queue[j] = emitted'[Len(delivered) + j]
    BY <1>5 DEF QueueContinues
  <2>1. Len(delivered) + j \in 1 .. Len(emitted)
    BY <1>1, <1>8, <1>9 DEF Lengths
  <2> QED
    BY <1>2, <1>6, <2>1 DEF Working, QueueContinues
<1>11. \A i \in 1 .. Pending' : ready'[i] = Put(emitted'[Len(delivered) + Len(queue) + i])
  <2> SUFFICES ASSUME NEW i \in 1 .. Pending + 1
               PROVE  ready'[i] = Put(emitted'[Len(delivered) + Len(queue) + i])
    BY <1>8
  <2>1. CASE i = Pending + 1
    BY <1>1, <1>6, <1>7, <1>8, <1>9, <2>1 DEF Lengths
  <2>2. CASE i \in 1 .. Pending
    <3>1. Len(delivered) + Len(queue) + i \in 1 .. Len(emitted)
      BY <1>1, <1>8, <1>9, <2>2 DEF Lengths
    <3> QED
      BY <1>2, <1>6, <1>7, <1>8, <2>2, <3>1 DEF Working, CallbacksContinue
  <2> QED
    BY <1>8, <2>1, <2>2
<1>12. DeliveredInOrder'
  BY <1>1, <1>2, <1>5, <1>6 DEF DeliveredInOrder, Lengths
<1>13. CallbacksContinue'
  BY <1>1, <1>5, <1>7, <1>8, <1>11 DEF CallbacksContinue
<1> QED
  BY <1>1, <1>5, <1>8, <1>10, <1>12, <1>13 DEF Working

LEMMA BeginOrder ==
  ASSUME TypeOK, ActorsInv, Begin
  PROVE  DeliveredInOrder' /\ Working'
<1>1. /\ emitted' = <<>> /\ delivered' = <<>> /\ queue' = <<>> /\ runner' = "created"
      /\ thread' = "none" /\ ready' = <<Step("start")>>
  BY DEF Begin, ActorsInv
<1>2. Len(emitted') = 0 /\ Len(delivered') = 0 /\ Len(queue') = 0
  BY <1>1
<1>3. Pending' = 0
  BY <1>2 DEF Pending
<1>4. CallbacksContinue'
  BY <1>1, <1>3 DEF CallbacksContinue
<1> QED
  BY <1>1, <1>2, <1>3, <1>4 DEF Working, DeliveredInOrder, QueueContinues

LEMMA EndsOrder ==
  ASSUME TypeOK, ActorsInv, OrderInv, Taking, ThreadEnds
  PROVE  DeliveredInOrder' /\ Working'
<1>1. Lengths /\ runner = "waiting" /\ thread = "running"
  BY LengthFacts, TakingFacts DEF ThreadEnds
<1>2. Working /\ DeliveredInOrder
  BY <1>1 DEF OrderInv, Taking, Working, DeliveredInOrder
<1>3. /\ ready' = Append(ready, Step("settle")) /\ thread' # "running"
      /\ UNCHANGED <<runner, queue, emitted, delivered>>
  BY DEF ThreadEnds
<1>4. /\ Len(ready') = Len(ready) + 1 /\ ready'[Len(ready) + 1] = Step("settle")
      /\ \A i \in 1 .. Len(ready) : ready'[i] = ready[i]
  BY <1>3, CallbackFacts, Pushed DEF TypeOK
<1>5. Pending \in Nat /\ Len(ready) = Pending /\ Pending' = Pending
  <2>1. Pending \in Nat /\ Len(ready) = Pending
    BY <1>1, <1>2 DEF Working, CallbacksContinue
  <2> QED
    BY <1>3, <2>1 DEF Pending
<1>6. DeliveredInOrder' /\ QueueContinues(Len(queue))'
  BY <1>2, <1>3 DEF DeliveredInOrder, Working, QueueContinues
<1>7. \A i \in 1 .. Pending' : ready'[i] = Put(emitted'[Len(delivered') + Len(queue') + i])
  BY <1>2, <1>3, <1>4, <1>5 DEF Working, CallbacksContinue
<1>8. Len(ready') = Pending' + 1 /\ ready'[Len(ready')] = Step("settle")
  BY <1>4, <1>5
<1>9. CallbacksContinue'
  BY <1>1, <1>3, <1>7, <1>8 DEF CallbacksContinue
<1> QED
  BY <1>1, <1>3, <1>5, <1>6, <1>9 DEF Working

LEMMA PutOrder ==
  ASSUME TypeOK, ActorsInv, OrderInv, Taking, PutItem
  PROVE  InOrder'
<1>1. Lengths /\ ready # <<>> /\ Head(ready).do = "put" /\ DeliveredInOrder
  BY LengthFacts DEF PutItem, OrderInv, Taking, DeliveredInOrder
<1> DEFINE e == Head(ready).item
<1>2. e \in Events \cup {Sentinel} /\ Head(ready) = Put(e)
  BY <1>1, HeadRuns, CallbackFacts
<1>3. ready' = Tail(ready) /\ queue' = Append(queue, e) /\ UNCHANGED <<thread, runner, emitted, delivered>>
  BY DEF PutItem
<1> HIDE DEF e
<1>4. /\ Len(queue') = Len(queue) + 1 /\ queue'[Len(queue) + 1] = e
      /\ \A j \in 1 .. Len(queue) : queue'[j] = queue[j]
  BY <1>2, <1>3, Pushed DEF TypeOK
<1>5. DeliveredInOrder'
  BY <1>1, <1>3 DEF DeliveredInOrder
<1>6. Pending' = Pending - 1
  <2>1. Pending' = Len(emitted) - Len(delivered) - (Len(queue) + 1)
    BY <1>3, <1>4 DEF Pending
  <2> QED
    BY <1>1, <2>1 DEF Pending, Lengths
<1>7. CASE Working
  <2>1. Pending > 0 /\ Pending \in Nat /\ e = emitted[Len(delivered) + Len(queue) + 1]
    <3>1. Pending > 0 /\ Head(ready) = Put(emitted[Len(delivered) + Len(queue) + 1])
      BY <1>1, <1>7, NextCallback
    <3>2. e = emitted[Len(delivered) + Len(queue) + 1]
      BY <1>2, <3>1 DEF Put
    <3> QED
      BY <1>7, <3>1, <3>2 DEF Working
  <2>2. QueueContinues(Len(queue))'
    <3> SUFFICES ASSUME NEW j \in 1 .. Len(queue) + 1
                 PROVE  queue'[j] = emitted[Len(delivered) + j]
      BY <1>3, <1>4 DEF QueueContinues
    <3>1. CASE j = Len(queue) + 1
      BY <1>1, <1>4, <2>1, <3>1 DEF Lengths
    <3>2. CASE j \in 1 .. Len(queue)
      BY <1>4, <1>7, <3>2 DEF Working, QueueContinues
    <3> QED
      BY <1>1, <3>1, <3>2 DEF Lengths
  <2>3. /\ Len(ready) \in Nat \ {0} /\ Len(ready') = Len(ready) - 1
        /\ \A i \in 1 .. Len(ready) - 1 : ready'[i] = ready[i + 1]
    BY <1>1, <1>3, Popped DEF TypeOK
  <2>4. Len(ready) >= Pending
    BY <1>7, <2>1 DEF Working, CallbacksContinue
  <2>5. \A i \in 1 .. Pending' : ready'[i] = Put(emitted'[Len(delivered') + Len(queue') + i])
    <3> SUFFICES ASSUME NEW i \in 1 .. Pending - 1
                 PROVE  ready'[i] = Put(emitted[Len(delivered) + (Len(queue) + 1) + i])
      BY <1>3, <1>4, <1>6
    <3>1. i + 1 \in 1 .. Pending /\ i \in 1 .. Len(ready) - 1
      BY <2>1, <2>3, <2>4
    <3>2. ready[i + 1] = Put(emitted[Len(delivered) + Len(queue) + (i + 1)])
      BY <1>7, <3>1 DEF Working, CallbacksContinue
    <3>3. Len(delivered) + Len(queue) + (i + 1) = Len(delivered) + (Len(queue) + 1) + i
      BY <1>1 DEF Lengths
    <3> QED
      BY <2>3, <3>1, <3>2, <3>3
  <2>6. runner # "created"
    BY <1>7, <2>1 DEF Working, CallbacksContinue
  <2>7. runner = "waiting" /\ thread = "running" => Len(ready') = Pending'
    BY <1>6, <1>7, <2>3 DEF Working, CallbacksContinue
  <2>8. ASSUME NEW c, Len(ready) = Pending + 1, ready[Len(ready)] = c
        PROVE  Len(ready') = Pending' + 1 /\ ready'[Len(ready')] = c
    <3>1. Len(ready) - 1 \in 1 .. Len(ready) - 1 /\ (Len(ready) - 1) + 1 = Len(ready)
      BY <2>1, <2>3, <2>8
    <3> QED
      BY <1>6, <2>1, <2>3, <2>8, <3>1
  <2>9. CallbacksContinue'
    <3>1. runner = "waiting" /\ thread # "running" =>
            Len(ready') = Pending' + 1 /\ ready'[Len(ready')] = Step("settle")
      BY <1>7, <2>8 DEF Working, CallbacksContinue
    <3>2. runner = "resuming" => Len(ready') = Pending' + 1 /\ ready'[Len(ready')] = Step("resume")
      BY <1>7, <2>8 DEF Working, CallbacksContinue
    <3> QED
      BY <1>3, <2>5, <2>6, <2>7, <3>1, <3>2 DEF CallbacksContinue
  <2>10. runner' \in {"created", "waiting", "resuming"} /\ Pending' \in Nat
    BY <1>3, <1>6, <1>7, <2>1 DEF Working
  <2> QED
    BY <1>5, <2>2, <2>9, <2>10 DEF InOrder, Working
<1>8. CASE SentinelLast /\ runner \in {"done", "failed"}
  <2>1. ready = <<Put(Sentinel)>> /\ Pending = 0 /\ QueueContinues(Len(queue))
    BY <1>1, <1>8 DEF SentinelLast
  <2>2. e = Sentinel /\ ready' = <<>>
    BY <1>2, <1>3, <2>1 DEF Put
  <2>3. Pending' = -1 /\ queue'[Len(queue')] = Sentinel
    BY <1>4, <1>6, <2>1, <2>2
  <2>4. QueueContinues(Len(queue) - 1)'
    <3> SUFFICES ASSUME NEW j \in 1 .. (Len(queue) + 1) - 1
                 PROVE  queue'[j] = emitted[Len(delivered) + j]
      BY <1>3, <1>4 DEF QueueContinues
    <3>1. j \in 1 .. Len(queue)
      BY <1>1 DEF Lengths
    <3> QED
      BY <1>4, <2>1, <3>1 DEF QueueContinues
  <2> QED
    BY <1>3, <1>5, <1>8, <2>2, <2>3, <2>4 DEF InOrder, SentinelLast
<1> QED
  BY <1>7, <1>8 DEF OrderInv, Taking, Working

\* A callback that puts nothing runs while the caller takes: it is the only one.
LEMMA OnlyCallback ==
  ASSUME TypeOK, ActorsInv, OrderInv, Taking, NEW w \in {"start", "settle", "resume"}, Runs(Step(w))
  PROVE  /\ DeliveredInOrder /\ Working /\ Pending = 0 /\ Lengths
         /\ Tail(ready) = <<>> /\ Append(Tail(ready), Put(Sentinel)) = <<Put(Sentinel)>>
         /\ Append(Tail(ready), Step("resume")) = <<Step("resume")>>
         /\ runner = "created" => w = "start"
         /\ runner = "waiting" => w = "settle" /\ thread # "running"
         /\ runner = "resuming" => w = "resume"
<1>1. ready # <<>> /\ Head(ready) = Step(w) /\ Step(w).do = w /\ Lengths
  BY CallbackFacts, LengthFacts DEF Runs
<1>2. ~SentinelLast
  BY <1>1 DEF SentinelLast, Put
<1>3. Working /\ DeliveredInOrder
  BY <1>2 DEF OrderInv, Taking, Working, DeliveredInOrder
<1>4. Head(ready) = ready[1] /\ Len(Tail(ready)) = Len(ready) - 1 /\ Tail(ready) \in Seq(Callbacks)
  BY <1>1, Popped DEF TypeOK
<1>5. /\ Pending = 0 /\ Len(ready) = 1
      /\ runner = "created" => ready[1] = Step("start")
      /\ runner = "waiting" => thread # "running" /\ ready[1] = Step("settle")
      /\ runner = "resuming" => ready[1] = Step("resume")
  BY <1>1, <1>3, LastCallback
<1>6. Tail(ready) = <<>>
      /\ Append(Tail(ready), Put(Sentinel)) = <<Put(Sentinel)>>
      /\ Append(Tail(ready), Step("resume")) = <<Step("resume")>>
  BY <1>5, CallbackFacts, AfterTheOnly DEF TypeOK
<1>7. \A x \in {"start", "settle", "resume"} : ready[1] = Step(x) => x = w
  BY <1>1, <1>4, CallbackFacts
<1> QED
  BY <1>1, <1>3, <1>5, <1>6, <1>7

LEMMA StartOrder ==
  ASSUME TypeOK, ActorsInv, OrderInv, Taking, StartRunner \/ SettleFuture
  PROVE  DeliveredInOrder' /\ Working'
<1>1. CASE StartRunner
  <2>1. /\ DeliveredInOrder /\ Working /\ Pending = 0 /\ Tail(ready) = <<>> /\ runner = "created"
    BY <1>1, OnlyCallback DEF StartRunner, Working
  <2>2. /\ ready' = <<>> /\ runner' = "waiting" /\ thread' = "running"
        /\ UNCHANGED <<queue, emitted, delivered>>
    BY <1>1, <2>1 DEF StartRunner
  <2>3. Pending' = 0 /\ DeliveredInOrder' /\ QueueContinues(Len(queue))'
    BY <2>1, <2>2 DEF Pending, DeliveredInOrder, Working, QueueContinues
  <2>4. CallbacksContinue'
    BY <2>2, <2>3 DEF CallbacksContinue
  <2> QED
    BY <2>2, <2>3, <2>4 DEF Working
<1>2. CASE SettleFuture
  <2>1. /\ DeliveredInOrder /\ Working /\ Pending = 0 /\ runner = "waiting"
        /\ Append(Tail(ready), Step("resume")) = <<Step("resume")>>
    BY <1>2, OnlyCallback DEF SettleFuture, Working
  <2>2. /\ ready' = <<Step("resume")>> /\ runner' = "resuming" /\ UNCHANGED <<queue, emitted, delivered>>
    BY <1>2, <2>1 DEF SettleFuture
  <2>3. Pending' = 0 /\ DeliveredInOrder' /\ QueueContinues(Len(queue))'
    BY <2>1, <2>2 DEF Pending, DeliveredInOrder, Working, QueueContinues
  <2>4. Len(ready') = 1 /\ ready'[Len(ready')] = Step("resume")
    BY <2>2
  <2>5. CallbacksContinue'
    BY <2>2, <2>3, <2>4 DEF CallbacksContinue
  <2> QED
    BY <2>2, <2>3, <2>5 DEF Working
<1> QED
  BY <1>1, <1>2

LEMMA StoresOrder ==
  ASSUME TypeOK, ActorsInv, OrderInv, Taking, RunnerStores
  PROVE  DeliveredInOrder' /\ SentinelLast'
<1>1. /\ DeliveredInOrder /\ Working /\ Pending = 0 /\ Lengths
      /\ Append(Tail(ready), Put(Sentinel)) = <<Put(Sentinel)>>
  BY OnlyCallback DEF RunnerStores
<1>2. PICK events \in Seq(Events) : Emit(events)
  <2>1. <<Completed>> \in Seq(Events) /\ <<Compacted, Completed>> \in Seq(Events)
    BY EventFacts
  <2> QED
    BY <2>1 DEF RunnerStores
<1>3. ready' = <<Put(Sentinel)>> /\ delivered' = delivered
      /\ emitted' = emitted \o events /\ queue' = queue \o events
  BY <1>1, <1>2 DEF RunnerStores, LeaveRunner, Emit
<1>4. /\ Len(events) \in Nat /\ Len(emitted') = Len(emitted) + Len(events)
      /\ \A i \in 1 .. Len(emitted) : emitted'[i] = emitted[i]
      /\ \A i \in 1 .. Len(events) : emitted'[Len(emitted) + i] = events[i]
  BY <1>3, Joined DEF TypeOK
<1>5. /\ Len(queue') = Len(queue) + Len(events)
      /\ \A i \in 1 .. Len(queue) : queue'[i] = queue[i]
      /\ \A i \in 1 .. Len(events) : queue'[Len(queue) + i] = events[i]
  <2>1. events \in Seq(Events \cup {Sentinel})
    OBVIOUS
  <2> QED
    BY <1>3, <2>1, Joined DEF TypeOK
<1>6. Len(delivered) + Len(queue) = Len(emitted)
  BY <1>1 DEF Pending, Lengths
<1>7. Pending' = 0
  <2>1. Pending' = Len(emitted) + Len(events) - Len(delivered) - (Len(queue) + Len(events))
    BY <1>3, <1>4, <1>5 DEF Pending
  <2> QED
    BY <1>1, <1>4, <1>6, <2>1 DEF Lengths
<1>8. DeliveredInOrder'
  BY <1>1, <1>3, <1>4 DEF DeliveredInOrder, Lengths
<1>9. QueueContinues(Len(queue))'
  <2> SUFFICES ASSUME NEW j \in 1 .. Len(queue) + Len(events)
               PROVE  queue'[j] = emitted'[Len(delivered) + j]
    BY <1>3, <1>5 DEF QueueContinues
  <2>1. CASE j \in 1 .. Len(queue)
    <3>1. Len(delivered) + j \in 1 .. Len(emitted)
      BY <1>1, <1>6, <2>1 DEF Lengths
    <3> QED
      BY <1>1, <1>4, <1>5, <2>1, <3>1 DEF Working, QueueContinues
  <2>2. CASE j \notin 1 .. Len(queue)
    <3> DEFINE i == j - Len(queue)
    <3>1. i \in 1 .. Len(events) /\ j = Len(queue) + i
      BY <1>1, <1>4, <2>2 DEF Lengths
    <3> HIDE DEF i
    <3>2. Len(delivered) + j = Len(emitted) + i
      BY <1>1, <1>6, <3>1 DEF Lengths
    <3> QED
      BY <1>4, <1>5, <3>1, <3>2
  <2> QED
    BY <2>1, <2>2
<1> QED
  BY <1>3, <1>7, <1>8, <1>9 DEF SentinelLast

LEMMA FailsOrder ==
  ASSUME TypeOK, ActorsInv, OrderInv, Taking, RunnerFails
  PROVE  DeliveredInOrder' /\ SentinelLast'
<1>1. /\ DeliveredInOrder /\ Working /\ Pending = 0
      /\ Append(Tail(ready), Put(Sentinel)) = <<Put(Sentinel)>>
  BY OnlyCallback DEF RunnerFails
<1>2. ready' = <<Put(Sentinel)>> /\ UNCHANGED <<queue, emitted, delivered>>
  BY <1>1 DEF RunnerFails, LeaveRunner
<1> QED
  BY <1>1, <1>2 DEF SentinelLast, DeliveredInOrder, Working, QueueContinues, Pending

\* What the caller takes is the event after those it was given.
LEMMA NextTaken ==
  ASSUME TypeOK, ActorsInv, OrderInv, Take
  PROVE  /\ Lengths /\ DeliveredInOrder
         /\ Len(delivered) + 1 \in 1 .. Len(emitted) /\ Head(queue) = emitted[Len(delivered) + 1]
<1>1. /\ Lengths /\ Len(queue) \in Nat \ {0} /\ Head(queue) = queue[1] /\ queue[1] # Sentinel
  BY LengthFacts, Popped DEF Take, TypeOK
<1>2. DeliveredInOrder /\ (Working \/ SentinelLast)
  BY DEF Take, OrderInv, Working, DeliveredInOrder
<1>3. CASE Working
  <2>1. Pending \in Nat /\ 1 \in 1 .. Len(queue) /\ queue[1] = emitted[Len(delivered) + 1]
    BY <1>1, <1>3 DEF Working, QueueContinues
  <2>2. Len(delivered) + 1 \in 1 .. Len(emitted)
    BY <1>1, <2>1 DEF Pending, Lengths
  <2> QED
    BY <1>1, <1>2, <2>1, <2>2
<1>4. CASE SentinelLast
  <2>1. CASE Pending = 0 /\ QueueContinues(Len(queue))
    <3>1. 1 \in 1 .. Len(queue) /\ queue[1] = emitted[Len(delivered) + 1]
      BY <1>1, <2>1 DEF QueueContinues
    <3>2. Len(delivered) + 1 \in 1 .. Len(emitted)
      BY <1>1, <2>1 DEF Pending, Lengths
    <3> QED
      BY <1>1, <1>2, <3>1, <3>2
  <2>2. CASE Pending = -1 /\ queue[Len(queue)] = Sentinel /\ QueueContinues(Len(queue) - 1)
    <3>1. 1 \in 1 .. Len(queue) - 1
      BY <1>1, <2>2
    <3>2. queue[1] = emitted[Len(delivered) + 1]
      BY <2>2, <3>1 DEF QueueContinues
    <3>3. Len(delivered) + 1 \in 1 .. Len(emitted)
      BY <1>1, <2>2, <3>1 DEF Pending, Lengths
    <3> QED
      BY <1>1, <1>2, <3>2, <3>3
  <2> QED
    BY <1>4, <2>1, <2>2 DEF SentinelLast
<1> QED
  BY <1>2, <1>3, <1>4

LEMMA TakeOrder ==
  ASSUME TypeOK, ActorsInv, OrderInv, Take
  PROVE  InOrder'
<1>1. /\ Lengths /\ DeliveredInOrder
      /\ Len(delivered) + 1 \in 1 .. Len(emitted) /\ Head(queue) = emitted[Len(delivered) + 1]
  BY NextTaken
<1>2. /\ queue # <<>> /\ queue' = Tail(queue) /\ delivered' = Append(delivered, Head(queue))
      /\ UNCHANGED <<thread, ready, runner, emitted>>
  BY DEF Take
<1>3. /\ Len(queue) \in Nat \ {0} /\ Len(queue') = Len(queue) - 1
      /\ \A j \in 1 .. Len(queue) - 1 : queue'[j] = queue[j + 1]
  BY <1>2, Popped DEF TypeOK
<1>4. /\ Len(delivered') = Len(delivered) + 1 /\ delivered'[Len(delivered) + 1] = Head(queue)
      /\ \A k \in 1 .. Len(delivered) : delivered'[k] = delivered[k]
  <2>1. Head(queue) \in Events
    BY Popped DEF Take, TypeOK
  <2> QED
    BY <1>2, <2>1, Pushed DEF TypeOK
<1>5. DeliveredInOrder'
  <2> SUFFICES ASSUME NEW k \in 1 .. Len(delivered) + 1
               PROVE  delivered'[k] = emitted[k]
    BY <1>1, <1>2, <1>4 DEF DeliveredInOrder
  <2>1. CASE k = Len(delivered) + 1
    BY <1>1, <1>4, <2>1
  <2>2. CASE k \in 1 .. Len(delivered)
    BY <1>1, <1>4, <2>2 DEF DeliveredInOrder
  <2> QED
    BY <1>1, <2>1, <2>2 DEF Lengths
<1>6. Pending' = Pending
  <2>1. Pending' = Len(emitted) - (Len(delivered) + 1) - (Len(queue) - 1)
    BY <1>2, <1>3, <1>4 DEF Pending
  <2> QED
    BY <1>1, <2>1 DEF Pending, Lengths
<1>7. ASSUME NEW n \in 0 .. Len(queue), QueueContinues(n)
      PROVE  \A j \in 1 .. n - 1 : queue'[j] = emitted'[Len(delivered') + j]
  <2> SUFFICES ASSUME NEW j \in 1 .. n - 1
               PROVE  queue'[j] = emitted[(Len(delivered) + 1) + j]
    BY <1>2, <1>4
  <2>1. j \in 1 .. Len(queue) - 1 /\ j + 1 \in 1 .. n
    BY <1>3
  <2>2. queue[j + 1] = emitted[Len(delivered) + (j + 1)]
    BY <1>7, <2>1 DEF QueueContinues
  <2>3. Len(delivered) + (j + 1) = (Len(delivered) + 1) + j
    BY <1>1 DEF Lengths
  <2> QED
    BY <1>3, <2>1, <2>2, <2>3
<1>8. CASE Working
  <2>1. Len(queue) \in 0 .. Len(queue) /\ QueueContinues(Len(queue))
    BY <1>3, <1>8 DEF Working
  <2>2. QueueContinues(Len(queue))'
    BY <1>3, <1>7, <2>1 DEF QueueContinues
  <2>3. Len(delivered') + Len(queue') = Len(delivered) + Len(queue)
    BY <1>1, <1>3, <1>4 DEF Lengths
  <2>4. CallbacksContinue'
    BY <1>2, <1>6, <1>8, <2>3 DEF Working, CallbacksContinue
  <2> QED
    BY <1>2, <1>5, <1>6, <1>8, <2>2, <2>4 DEF InOrder, Working
<1>9. CASE SentinelLast /\ runner \in {"done", "failed"}
  <2>1. CASE ready = <<Put(Sentinel)>> /\ Pending = 0 /\ QueueContinues(Len(queue))
    <3>1. Len(queue) \in 0 .. Len(queue)
      BY <1>3
    <3>2. QueueContinues(Len(queue))'
      BY <1>3, <1>7, <2>1, <3>1 DEF QueueContinues
    <3> QED
      BY <1>2, <1>5, <1>6, <1>9, <2>1, <3>2 DEF InOrder, SentinelLast
  <2>2. CASE ready = <<>> /\ Pending = -1 /\ queue[Len(queue)] = Sentinel /\ QueueContinues(Len(queue) - 1)
    <3>1. Len(queue) - 1 \in 0 .. Len(queue)
      BY <1>3
    <3>2. QueueContinues(Len(queue) - 1)'
      BY <1>3, <1>7, <2>2, <3>1 DEF QueueContinues
    <3>3. queue'[Len(queue')] = Sentinel
      <4>1. Len(queue) - 1 # 0
        BY <1>1, <2>2, <1>3 DEF Pending, Lengths
      <4>2. Len(queue) - 1 \in 1 .. Len(queue) - 1 /\ (Len(queue) - 1) + 1 = Len(queue)
        BY <1>3, <4>1
      <4> QED
        BY <1>3, <2>2, <4>2
    <3> QED
      BY <1>2, <1>5, <1>6, <1>9, <2>2, <3>2, <3>3 DEF InOrder, SentinelLast
  <2> QED
    BY <1>9, <2>1, <2>2 DEF SentinelLast
<1> QED
  BY <1>8, <1>9 DEF Take, OrderInv, Working

LEMMA SentinelTaken ==
  ASSUME TypeOK, ActorsInv, OrderInv, TakeSentinel
  PROVE  delivered = emitted
<1>1. /\ Lengths /\ Len(queue) \in Nat \ {0} /\ queue[1] = Sentinel
  BY LengthFacts, Popped DEF TakeSentinel, TypeOK
<1>2. DeliveredInOrder /\ (Working \/ SentinelLast)
  BY DEF TakeSentinel, OrderInv, Working, DeliveredInOrder
<1>3. ASSUME NEW n \in Nat, 1 \in 1 .. n, QueueContinues(n), Len(delivered) + 1 \in 1 .. Len(emitted)
      PROVE  FALSE
  <2>1. queue[1] = emitted[Len(delivered) + 1]
    BY <1>3 DEF QueueContinues
  <2>2. emitted[Len(delivered) + 1] \in Events
    BY <1>3, ElementOfSeq DEF TypeOK
  <2> QED
    BY <1>1, <2>1, <2>2, EventFacts
<1>4. ASSUME Pending \in Nat, QueueContinues(Len(queue))
      PROVE  FALSE
  <2>1. Len(delivered) + 1 \in 1 .. Len(emitted) /\ 1 \in 1 .. Len(queue)
    BY <1>1, <1>4 DEF Pending, Lengths
  <2> QED
    BY <1>1, <1>3, <1>4, <2>1 DEF Lengths
<1>5. Pending = -1 /\ QueueContinues(Len(queue) - 1)
  BY <1>2, <1>4 DEF Working, SentinelLast
<1>6. Len(queue) = 1
  <2> SUFFICES ASSUME Len(queue) # 1 PROVE FALSE
    OBVIOUS
  <2>1. Len(queue) - 1 \in Nat /\ 1 \in 1 .. Len(queue) - 1 /\ Len(delivered) + 1 \in 1 .. Len(emitted)
    BY <1>1, <1>5 DEF Pending, Lengths
  <2> QED
    BY <1>3, <1>5, <2>1
<1>7. Len(delivered) = Len(emitted)
  <2>1. Len(emitted) - Len(delivered) - 1 = -1
    BY <1>5, <1>6 DEF Pending
  <2>2. \A m, n \in Nat : m - n - 1 = -1 => n = m
    OBVIOUS
  <2> QED
    BY <1>1, <2>1, <2>2 DEF Lengths
<1> QED
  BY <1>2, <1>7, SeqEqual DEF DeliveredInOrder, TypeOK

LEMMA OrderStep ==
  ASSUME TypeOK, ActorsInv, CallbacksInv, OrderInv, [Next]_vars
  PROVE  OrderInv'
<1>1. ASSUME InOrder', caller' # "drained"
      PROVE  OrderInv'
  BY <1>1 DEF OrderInv, InOrder, Working, DeliveredInOrder
<1>2. ASSUME ~Taking', caller' # "drained"
      PROVE  OrderInv'
  BY <1>2 DEF OrderInv, Taking
<1>3. ASSUME caller' = "drained", delivered' = emitted'
      PROVE  OrderInv'
  BY <1>3 DEF OrderInv
<1>4. Taking => InOrder
  BY DEF OrderInv, Taking, InOrder, Working, DeliveredInOrder
<1>5. caller = "drained" => delivered = emitted /\ runner \in {"done", "failed"} /\ ThreadEnded
  BY DEF OrderInv, ActorsInv
<1>6. CASE Taking
  <2>1. caller # "drained" /\ ~cut
    BY <1>6, TakingFacts DEF Taking
  <2>2. CASE ThreadEmits
    BY <1>1, <1>6, <2>1, <2>2, EmitsOrder DEF ThreadEmits, InOrder
  <2>3. CASE ThreadEnds
    BY <1>1, <1>6, <2>1, <2>3, EndsOrder DEF ThreadEnds, InOrder
  <2>4. CASE PutItem
    <3>1. InOrder' /\ caller' # "drained"
      BY <1>6, <2>1, <2>4, PutOrder DEF PutItem
    <3> QED
      BY <1>1, <3>1
  <2>5. CASE StartRunner \/ SettleFuture
    BY <1>1, <1>6, <2>1, <2>5, StartOrder DEF StartRunner, SettleFuture, InOrder
  <2>6. CASE RunnerStores
    BY <1>1, <1>6, <2>1, <2>6, StoresOrder DEF RunnerStores, LeaveRunner, Emit, Taking, InOrder
  <2>7. CASE RunnerFails
    BY <1>1, <1>6, <2>1, <2>7, FailsOrder DEF RunnerFails, LeaveRunner, InOrder
  <2>8. CASE RunnerCancelled
    BY <2>1, <2>8 DEF RunnerCancelled, ActorsInv
  <2>9. CASE Take
    <3>1. InOrder'
      BY <2>9, TakeOrder
    <3> QED
      BY <1>1, <2>1, <2>9, <3>1 DEF Take
  <2>10. CASE TakeSentinel
    BY <1>3, <2>10, SentinelTaken DEF TakeSentinel
  <2>11. CASE Cancelled \/ BreakOut
    BY <1>2, <2>11 DEF Cancelled, BreakOut, Taking
  <2>12. CASE WaitForItem \/ UNCHANGED vars
    <3>1. UNCHANGED <<thread, ready, queue, runner, emitted, delivered>> /\ caller' \in {caller, "waiting"}
      BY <2>12 DEF WaitForItem, vars
    <3>2. InOrder'
      BY <1>4, <1>6, <3>1
         DEF InOrder, DeliveredInOrder, Working, SentinelLast, QueueContinues, CallbacksContinue, Pending
    <3> QED
      BY <1>1, <2>1, <3>1, <3>2
  <2>13. caller \notin {"called", "drained", "left", "closing"}
    BY <1>6 DEF Taking
  <2> QED
    BY <2>2, <2>3, <2>4, <2>5, <2>6, <2>7, <2>8, <2>9, <2>10, <2>11, <2>12, <2>13
       DEF Next, Thread, Loop, Caller, Quiescent, Replay, Begin, End, CancelWait, CloseGenerator
<1>7. CASE caller = "called"
  <2>1. CASE Begin
    BY <1>1, <2>1, BeginOrder DEF Begin, InOrder
  <2>2. CASE ~Begin
    <3>1. runner = "none" /\ ready = <<>> /\ thread = "none"
      BY <1>7 DEF ActorsInv
    <3>2. caller' \in {"called", "complete"}
      BY <1>7, <2>2, <3>1
         DEF Next, Thread, ThreadEmits, ThreadEnds, Loop, PutItem, StartRunner, SettleFuture, RunnerStores,
             RunnerFails, RunnerCancelled, Runs, Caller, Replay, Take, WaitForItem, TakeSentinel,
             End, Cancelled, BreakOut, CloseGenerator, CancelWait, Quiescent, vars
    <3> QED
      BY <1>2, <3>2 DEF Taking
  <2> QED
    BY <2>1, <2>2
<1>8. CASE caller = "drained"
  <2>1. CASE End
    BY <1>2, <1>8, <2>1 DEF End, Taking
  <2>2. CASE ~End
    <3>1. caller' = "drained" /\ UNCHANGED <<emitted, delivered>>
      BY <1>5, <1>8, <2>2
         DEF Next, Thread, ThreadEmits, ThreadEnds, Loop, PutItem, StartRunner, SettleFuture, RunnerStores,
             RunnerFails, RunnerCancelled, LeaveRunner, Caller, Replay, Begin, Take, WaitForItem, TakeSentinel,
             Cancelled, BreakOut, CloseGenerator, CancelWait, Quiescent, vars, ThreadEnded
    <3> QED
      BY <1>3, <1>5, <1>8, <3>1
  <2> QED
    BY <2>1, <2>2
<1>9. CASE ~Taking /\ caller \notin {"called", "drained"}
  <2>1. ~Taking' /\ caller' # "drained"
    BY <1>9
       DEF Next, Thread, ThreadEmits, ThreadEnds, Loop, PutItem, StartRunner, SettleFuture, RunnerStores,
           RunnerFails, RunnerCancelled, LeaveRunner, Emit, Caller, Replay, Begin, Take, WaitForItem,
           TakeSentinel, End, Cancelled, BreakOut, CloseGenerator, CancelWait, Quiescent, vars, Taking
  <2> QED
    BY <1>2, <2>1
<1> QED
  BY <1>6, <1>7, <1>8, <1>9
-----------------------------------------------------------------------------
(* The invariant *)

LEMMA BridgeInit == Init => BridgeInv
<1> SUFFICES ASSUME Init PROVE BridgeInv
  OBVIOUS
<1>1. OrderInv
  BY DEF Init, OrderInv
<1> QED
  BY <1>1, TypeInit, ActorsInit DEF BridgeInv

LEMMA BridgeStep == BridgeInv /\ [Next]_vars => BridgeInv'
  BY TypeStep, ActorsStep, CallbacksStep, ToldStep, ToldDoneStep, CompleteStep, OrderStep DEF BridgeInv

LEMMA BridgeAlways == Spec => []BridgeInv
  BY BridgeInit, BridgeStep, PTL DEF Spec

\* The types of the bridge, whatever the run makes and wherever its caller goes away.
THEOREM BridgeTypes == Spec => []TypeOK
<1>1. BridgeInv => TypeOK
  BY DEF BridgeInv
<1> QED
  BY <1>1, BridgeAlways, PTL

\* Nobody is told that a run is complete before its reply is stored (service.py 246-259).
THEOREM TellsWhatIsStored == Spec => []StoredBeforeTold
<1>1. BridgeInv => StoredBeforeTold
  BY DEF BridgeInv, ToldInv
<1> QED
  BY <1>1, BridgeAlways, PTL

\* A stream that ends leaves no run behind, unless its runner was cancelled; and whoever has
\* seen run_completed may break out, as nothing of the run goes on (service.py 246-272).
THEOREM LeavesNoRun == Spec => []NoOrphanRun
<1>1. BridgeInv => NoOrphanRun
  <2> SUFFICES ASSUME BridgeInv PROVE NoOrphanRun
    OBVIOUS
  <2>1. ActorsInv /\ ToldDone
    BY DEF BridgeInv
  <2>2. runner \in {"none", "done", "failed"} => ~RunGoesOn
    BY <2>1 DEF RunGoesOn, ActorsInv, ThreadEnded
  <2>3. caller \in CallerEnds /\ ~cut => runner \in {"none", "done", "failed"}
    BY <2>1 DEF ActorsInv, CallerEnds, RunnerEnds
  <2> QED
    BY <2>1, <2>2, <2>3 DEF NoOrphanRun, ToldDone
<1> QED
  BY <1>1, BridgeAlways, PTL
-----------------------------------------------------------------------------
(* The refinement *)

Status == IF caller \in CallerEnds THEN caller ELSE "open"

LEMMA StreamSends ==
  ASSUME BridgeInv, ThreadEmits \/ RunnerStores
  PROVE  Stream!Next
<1>1. TypeOK /\ ActorsInv /\ CompleteInv
  BY DEF BridgeInv
<1>2. runner \notin {"none", "done", "failed"}
  BY <1>1 DEF ThreadEmits, RunnerStores, ActorsInv, ThreadEnded
<1>3. Status \notin {"complete", "failed"}
  BY <1>1, <1>2 DEF Status, ActorsInv
<1>4. ~Stream!IsComplete(emitted)
  <2>1. emitted # <<>> => Len(emitted) \in DOMAIN emitted
    BY <1>1, EmptySeq DEF TypeOK
  <2> QED
    BY <1>1, <1>2, <2>1 DEF CompleteInv, Stream!IsComplete
<1>5. caller' \in CallerEnds <=> caller \in CallerEnds
  BY DEF ThreadEmits, RunnerStores, Emit, CallerEnds
<1>6. Status' = Status /\ delivered' = delivered
  <2>1. caller' = caller \/ (caller = "waiting" /\ caller' = "taking")
    BY DEF ThreadEmits, RunnerStores, Emit
  <2> QED
    BY <1>5, <2>1 DEF Status, ThreadEmits, RunnerStores, CallerEnds
<1>7. CASE ThreadEmits
  <2>1. Len(emitted) + 1 \in 1 .. MaxEvents
    BY <1>1, <1>7, BridgeAssumption DEF ThreadEmits, TypeOK
  <2>2. PICK e \in Events : emitted' = Append(emitted, e)
    BY <1>7, <2>1, EventFacts DEF ThreadEmits
  <2>3. Stream!Send(e)
    BY <1>3, <1>4, <1>6, <2>2 DEF Stream!Send, Status
  <2> QED
    BY <2>3 DEF Stream!Next
<1>8. CASE RunnerStores
  <2>1. CASE Emit(<<Completed>>)
    <3>1. emitted' = Append(emitted, Completed)
      BY <1>1, <2>1, AppendIsConcat, EventFacts DEF Emit, TypeOK
    <3>2. Stream!Send(Completed)
      BY <1>3, <1>4, <1>6, <3>1 DEF Stream!Send, Status
    <3> QED
      BY <3>2, EventFacts DEF Stream!Next
  <2>2. CASE Emit(<<Compacted, Completed>>)
    <3>1. Stream!SendTwo(Compacted, Completed)
      BY <1>3, <1>4, <1>6, <2>2 DEF Stream!SendTwo, Emit, Status
    <3> QED
      BY <3>1, EventFacts DEF Stream!Next
  <2> QED
    BY <1>8, <2>1, <2>2 DEF RunnerStores
<1> QED
  BY <1>7, <1>8

LEMMA StreamReceives ==
  ASSUME BridgeInv, Take \/ Replay
  PROVE  Stream!Next
<1>1. TypeOK /\ ActorsInv /\ OrderInv
  BY DEF BridgeInv
<1>2. CASE Take
  <2>1. Len(delivered) + 1 \in 1 .. Len(emitted) /\ Head(queue) = emitted[Len(delivered) + 1] /\ Lengths
    BY <1>1, <1>2, NextTaken
  <2>2. Len(delivered) < Len(emitted)
    BY <2>1 DEF Lengths
  <2>3. delivered' = Append(delivered, emitted[Len(delivered) + 1]) /\ UNCHANGED <<emitted, caller>>
        /\ caller = "taking"
    BY <1>2, <2>1 DEF Take
  <2>4. Status = "open" /\ Status' = Status
    BY <2>3 DEF Status, CallerEnds
  <2>5. Stream!Receive
    BY <2>2, <2>3, <2>4 DEF Stream!Receive, Status
  <2> QED
    BY <2>5 DEF Stream!Next
<1>3. CASE Replay
  <2>1. emitted = <<>> /\ Status = "open" /\ Status' = "complete"
    BY <1>1, <1>3 DEF Replay, ActorsInv, Status, CallerEnds
  <2>2. Stream!Replay
    BY <1>3, <2>1 DEF Stream!Replay, Replay, Status
  <2> QED
    BY <2>2 DEF Stream!Next
<1> QED
  BY <1>2, <1>3

LEMMA StreamCloses ==
  ASSUME BridgeInv, End
  PROVE  Stream!Next
<1>1. TypeOK /\ ActorsInv /\ OrderInv /\ CompleteInv
  BY DEF BridgeInv
<1>2. Status = "open" /\ UNCHANGED <<emitted, delivered>>
  BY DEF End, Status, CallerEnds
<1>3. CASE caller = "closing"
  <2>1. Status' = "abandoned"
    BY <1>3 DEF End, Status, CallerEnds
  <2>2. Stream!Abandon
    BY <1>2, <2>1 DEF Stream!Abandon, Status
  <2> QED
    BY <2>2 DEF Stream!Next
<1>4. CASE caller = "drained"
  <2>1. delivered = emitted /\ runner \in {"done", "failed"}
    BY <1>1, <1>4 DEF OrderInv, ActorsInv
  <2>2. runner = "done" <=> Stream!IsComplete(emitted)
    <3>1. emitted # <<>> => Len(emitted) \in DOMAIN emitted
      BY <1>1, EmptySeq DEF TypeOK
    <3> QED
      BY <1>1, <2>1, <3>1 DEF CompleteInv, Stream!IsComplete
  <2>3. Status' = IF runner = "done" THEN "complete" ELSE "failed"
    BY <1>4 DEF End, Status, CallerEnds
  <2>4. Stream!Close
    BY <1>2, <2>1, <2>2, <2>3 DEF Stream!Close, Status
  <2> QED
    BY <2>4 DEF Stream!Next
<1> QED
  BY <1>3, <1>4 DEF End

LEMMA StreamStep == BridgeInv /\ [Next]_vars => [Stream!Next]_(Stream!vars)
<1> SUFFICES ASSUME BridgeInv, [Next]_vars PROVE [Stream!Next]_(Stream!vars)
  OBVIOUS
<1>1. ASSUME UNCHANGED <<emitted, delivered>>, caller' \in CallerEnds <=> caller \in CallerEnds,
             caller \in CallerEnds => caller' = caller
      PROVE  UNCHANGED Stream!vars
  BY <1>1 DEF Stream!vars
<1>2. CASE ThreadEmits \/ RunnerStores \/ Take \/ Replay \/ End
  BY <1>2, StreamSends, StreamReceives, StreamCloses
<1>3. CASE \/ ThreadEnds \/ PutItem \/ StartRunner \/ SettleFuture \/ RunnerFails \/ RunnerCancelled
           \/ CloseGenerator
  BY <1>1, <1>3 DEF ThreadEnds, PutItem, StartRunner, SettleFuture, RunnerFails, RunnerCancelled,
                   CloseGenerator, CallerEnds
<1>4. CASE Begin \/ WaitForItem \/ TakeSentinel \/ Cancelled \/ BreakOut \/ CancelWait
  BY <1>1, <1>4 DEF Begin, WaitForItem, TakeSentinel, Cancelled, BreakOut, CancelWait, CallerEnds
<1>5. CASE UNCHANGED vars
  BY <1>1, <1>5 DEF vars
<1> QED
  BY <1>2, <1>3, <1>4, <1>5 DEF Next, Thread, Loop, Caller, Quiescent

\* The bridge implements the promised stream: every event in order, all of them to a caller
\* that stays, and run_completed last if and only if the run was completed (service.py
\* 206-261), for any number of events.
THEOREM BridgeImplementsStream == Spec => StreamSpec
<1>1. Init => Stream!Init
  BY DEF Init, Stream!Init, CallerEnds
<1> QED
  BY <1>1, BridgeAlways, StreamStep, PTL DEF Spec, StreamSpec, Stream!Spec
-----------------------------------------------------------------------------
(***************************************************************************)
(* Towards the end of a stream.  That every stream ends is for TLC; here,  *)
(* what makes it so for any number of events: whoever waits is waited for  *)
(* by someone who can go on, and every step uses up some of what is left.  *)
(***************************************************************************)

Has(s, c) == \E i \in DOMAIN s : s[i] = c

Once(s, c) == \A i, j \in DOMAIN s : s[i] = c /\ s[j] = c => i = j

\* The callback that takes the runner further is there, or the thread will add it; it is
\* the only one that could find the runner elsewhere.  A caller waits on an empty queue.
WakeInv ==
  /\ runner = "created" => Has(ready, Step("start"))
  /\ runner = "waiting" => thread = "running" \/ Has(ready, Step("settle"))
  /\ runner = "resuming" => Has(ready, Step("resume"))
  /\ runner = "cancelling" => Has(ready, Step("start")) \/ Has(ready, Step("resume"))
  /\ Once(ready, Step("resume"))
  /\ Has(ready, Step("resume")) => runner \in {"resuming", "cancelling"}
  /\ caller = "waiting" => queue = <<>>

\* The callback that closes a generator is there as long as the generator is left open.
CloseInv == Once(ready, Step("close")) /\ (Has(ready, Step("close")) <=> caller = "left")

LEMMA HasPushed ==
  ASSUME NEW S, NEW s \in Seq(S), NEW c \in S
  PROVE  /\ \A d : Has(Append(s, c), d) <=> Has(s, d) \/ c = d
         /\ \A d : Once(s, d) /\ (c # d \/ ~Has(s, d)) => Once(Append(s, c), d)
<1>1. /\ Len(s) \in Nat /\ DOMAIN s = 1 .. Len(s)
      /\ DOMAIN Append(s, c) = 1 .. Len(s) + 1
      /\ \A i \in 1 .. Len(s) : Append(s, c)[i] = s[i]
      /\ Append(s, c)[Len(s) + 1] = c
  BY Pushed
<1>2. \A i : i \in 1 .. Len(s) + 1 <=> i \in 1 .. Len(s) \/ i = Len(s) + 1
  BY <1>1
<1>3. ASSUME NEW d
      PROVE  Has(Append(s, c), d) <=> Has(s, d) \/ c = d
  BY <1>1, <1>2 DEF Has
<1>4. ASSUME NEW d, Once(s, d), c # d \/ ~Has(s, d)
      PROVE  Once(Append(s, c), d)
  <2>1. CASE c # d
    BY <1>1, <1>2, <1>4, <2>1 DEF Once
  <2>2. CASE ~Has(s, d)
    BY <1>1, <1>2, <2>2 DEF Once, Has
  <2> QED
    BY <1>4, <2>1, <2>2
<1> QED
  BY <1>3, <1>4

LEMMA HasPopped ==
  ASSUME NEW S, NEW s \in Seq(S), s # <<>>
  PROVE  /\ Has(s, Head(s))
         /\ \A d : Has(Tail(s), d) => Has(s, d)
         /\ \A d : Has(s, d) /\ Head(s) # d => Has(Tail(s), d)
         /\ \A d : Once(s, d) => Once(Tail(s), d)
         /\ Once(s, Head(s)) => ~Has(Tail(s), Head(s))
<1>1. /\ Len(s) \in Nat \ {0} /\ Head(s) = s[1] /\ DOMAIN s = 1 .. Len(s)
      /\ DOMAIN Tail(s) = 1 .. Len(s) - 1
      /\ \A i \in 1 .. Len(s) - 1 : Tail(s)[i] = s[i + 1]
  BY Popped
<1>2. \A i \in 1 .. Len(s) - 1 : i + 1 \in 1 .. Len(s) /\ i + 1 # 1
  BY <1>1
<1>3. \A i \in 1 .. Len(s) : i = 1 \/ (i - 1 \in 1 .. Len(s) - 1 /\ i - 1 + 1 = i)
  BY <1>1
<1>4. 1 \in 1 .. Len(s)
  BY <1>1
<1>5. Has(s, Head(s)) /\ \A d : Has(Tail(s), d) => Has(s, d)
  BY <1>1, <1>2, <1>4 DEF Has
<1>6. ASSUME NEW d, Has(s, d), Head(s) # d
      PROVE  Has(Tail(s), d)
  <2>1. PICK i \in 1 .. Len(s) : s[i] = d
    BY <1>1, <1>6 DEF Has
  <2>2. i - 1 \in 1 .. Len(s) - 1 /\ Tail(s)[i - 1] = s[i]
    BY <1>1, <1>3, <1>6, <2>1
  <2> QED
    BY <1>1, <2>1, <2>2 DEF Has
<1>7. ASSUME NEW d, Once(s, d)
      PROVE  Once(Tail(s), d)
  <2> SUFFICES ASSUME NEW i \in 1 .. Len(s) - 1, NEW j \in 1 .. Len(s) - 1,
                      s[i + 1] = d, s[j + 1] = d
               PROVE  i = j
    BY <1>1 DEF Once
  <2>1. i + 1 = j + 1
    BY <1>1, <1>2, <1>7 DEF Once
  <2> QED
    BY <2>1
<1>8. ASSUME Once(s, Head(s)), Has(Tail(s), Head(s))
      PROVE  FALSE
  <2>1. PICK i \in 1 .. Len(s) - 1 : Tail(s)[i] = Head(s)
    BY <1>1, <1>8 DEF Has
  <2> QED
    BY <1>1, <1>2, <1>4, <1>8, <2>1 DEF Once
<1> QED
  BY <1>5, <1>6, <1>7, <1>8

LEMMA CallbacksDiffer ==
  /\ \A e \in Events \cup {Sentinel}, w \in {"start", "settle", "resume", "close"} : Put(e) # Step(w)
  /\ \A v, w \in {"start", "settle", "resume", "close"} : Step(v) = Step(w) => v = w
<1>1. ASSUME NEW e \in Events \cup {Sentinel}, NEW w \in {"start", "settle", "resume", "close"}
      PROVE  Put(e) # Step(w)
  BY CallbackFacts
<1>2. ASSUME NEW v \in {"start", "settle", "resume", "close"}, NEW w \in {"start", "settle", "resume", "close"},
             Step(v) = Step(w)
      PROVE  v = w
  BY <1>2, CallbackFacts
<1> QED
  BY <1>1, <1>2

\* The callback that is added is not the runner's, or takes it further.
LEMMA ThreadWakes ==
  ASSUME TypeOK, WakeInv, Thread
  PROVE  WakeInv'
<1>1. ready \in Seq(Callbacks)
  BY DEF TypeOK
<1>2. CASE ThreadEmits
  <2> DEFINE c == Put(RunEvent(Len(emitted) + 1))
  <2>1. Len(emitted) + 1 \in 1 .. MaxEvents
    BY <1>2, BridgeAssumption DEF ThreadEmits, TypeOK
  <2>2. c \in Callbacks /\ \A w \in {"start", "settle", "resume"} : c # Step(w)
    BY <2>1, EventFacts, CallbackFacts, CallbacksDiffer
  <2>3. ready' = Append(ready, c) /\ UNCHANGED <<thread, queue, runner, caller>>
    BY <1>2 DEF ThreadEmits
  <2> HIDE DEF c
  <2> QED
    BY <1>1, <2>2, <2>3, HasPushed DEF WakeInv
<1>3. CASE ThreadEnds
  <2>1. Step("settle") \in Callbacks /\ Step("settle") # Step("resume")
    BY CallbackFacts, CallbacksDiffer
  <2>2. ready' = Append(ready, Step("settle")) /\ UNCHANGED <<queue, runner, caller>>
    BY <1>3 DEF ThreadEnds
  <2> QED
    BY <1>1, <2>1, <2>2, HasPushed DEF WakeInv
<1> QED
  BY <1>2, <1>3 DEF Thread

\* The callback that runs has done its part.
LEMMA LoopWakes ==
  ASSUME TypeOK, ActorsInv, CallbacksInv, WakeInv, Loop
  PROVE  WakeInv'
<1>1. ready \in Seq(Callbacks) /\ queue \in Seq(Events \cup {Sentinel})
  BY DEF TypeOK
<1>2. ready # <<>>
  BY DEF Loop, PutItem, StartRunner, SettleFuture, RunnerStores, RunnerFails, RunnerCancelled,
         CloseGenerator, Runs
<1>3. /\ Has(ready, Head(ready))
      /\ \A d : Has(Tail(ready), d) => Has(ready, d)
      /\ \A d : Has(ready, d) /\ Head(ready) # d => Has(Tail(ready), d)
      /\ \A d : Once(ready, d) => Once(Tail(ready), d)
      /\ Once(ready, Head(ready)) => ~Has(Tail(ready), Head(ready))
  BY <1>1, <1>2, HasPopped
<1>4. Tail(ready) \in Seq(Callbacks)
  BY <1>2, HeadRuns
<1>5. /\ Step("start") # Step("resume") /\ Step("settle") # Step("resume")
      /\ Step("start") # Step("settle")
      /\ \A w \in {"start", "settle", "resume"} : Step("close") # Step(w)
  BY CallbacksDiffer
<1>6. caller' = "waiting" => queue' = <<>> /\ caller = "waiting"
  BY DEF Loop, PutItem, StartRunner, SettleFuture, RunnerStores, RunnerFails, RunnerCancelled,
         CloseGenerator, Emit, WakeInv
<1>7. CASE PutItem
  <2>1. Head(ready) = Put(Head(ready).item) /\ Head(ready).item \in Events \cup {Sentinel}
    BY <1>7, HeadRuns, CallbackFacts DEF PutItem
  <2>2. \A w \in {"start", "settle", "resume"} : Head(ready) # Step(w)
    BY <2>1, CallbacksDiffer
  <2>3. ready' = Tail(ready) /\ UNCHANGED <<thread, runner>>
    BY <1>7 DEF PutItem
  <2> QED
    BY <1>3, <1>6, <2>2, <2>3 DEF WakeInv
<1>8. CASE StartRunner
  <2>1. Head(ready) = Step("start") /\ ready' = Tail(ready)
    BY <1>8 DEF StartRunner, Runs
  <2>2. Len(ready) = 1 /\ runner \in {"created", "cancelling"}
    BY <1>1, <1>2, <2>1, Popped DEF CallbacksInv
  <2>3. ~Has(Tail(ready), Step("resume"))
    <3>1. Len(Tail(ready)) = 0
      BY <1>1, <1>2, <2>2, Popped
    <3>2. Tail(ready) = <<>>
      BY <1>4, <3>1, EmptySeq
    <3> QED
      BY <3>2 DEF Has
  <2>4. (runner' = "waiting" /\ thread' = "running") \/ runner' = "cancelled"
    BY <1>8 DEF StartRunner
  <2> QED
    BY <1>3, <1>6, <2>1, <2>3, <2>4 DEF WakeInv
<1>9. CASE SettleFuture
  <2>1. Head(ready) = Step("settle")
    BY <1>9 DEF SettleFuture, Runs
  <2>2. CASE runner = "waiting"
    <3>1. ready' = Append(Tail(ready), Step("resume")) /\ runner' = "resuming"
      BY <1>9, <2>2 DEF SettleFuture
    <3>2. ~Has(Tail(ready), Step("resume"))
      BY <1>3, <2>2 DEF WakeInv
    <3>3. Has(ready', Step("resume")) /\ Once(ready', Step("resume"))
      BY <1>3, <1>4, <3>1, <3>2, CallbackFacts, HasPushed DEF WakeInv
    <3> QED
      BY <1>6, <3>1, <3>3 DEF WakeInv
  <2>3. CASE runner # "waiting"
    <3>1. ready' = Tail(ready) /\ runner' = runner
      BY <1>9, <2>3 DEF SettleFuture
    <3> QED
      BY <1>3, <1>5, <1>6, <2>1, <2>3, <3>1 DEF WakeInv
  <2> QED
    BY <2>2, <2>3
<1>10. CASE RunnerStores \/ RunnerFails \/ RunnerCancelled
  <2>1. Head(ready) = Step("resume") /\ ready' = Append(Tail(ready), Put(Sentinel))
    BY <1>10 DEF RunnerStores, RunnerFails, RunnerCancelled, Runs, LeaveRunner
  <2>2. runner' \in RunnerEnds
    BY <1>10 DEF RunnerStores, RunnerFails, RunnerCancelled, LeaveRunner, RunnerEnds
  <2>3. Put(Sentinel) \in Callbacks /\ Put(Sentinel) # Step("resume")
    BY CallbackFacts, CallbacksDiffer
  <2>4. ~Has(Tail(ready), Step("resume")) /\ Once(Tail(ready), Step("resume"))
    BY <1>3, <2>1 DEF WakeInv
  <2>5. ~Has(ready', Step("resume")) /\ Once(ready', Step("resume"))
    BY <1>4, <2>1, <2>3, <2>4, HasPushed
  <2> QED
    BY <1>6, <2>2, <2>5 DEF WakeInv, RunnerEnds
<1>11. CASE CloseGenerator
  <2>1. Head(ready) = Step("close") /\ ready' = Tail(ready) /\ UNCHANGED <<thread, runner>>
    BY <1>11 DEF CloseGenerator, Runs
  <2> QED
    BY <1>3, <1>5, <1>6, <2>1 DEF WakeInv
<1> QED
  BY <1>7, <1>8, <1>9, <1>10, <1>11 DEF Loop

LEMMA CallerWakes ==
  ASSUME TypeOK, ActorsInv, WakeInv, Caller \/ Cancelled \/ BreakOut \/ CancelWait
  PROVE  WakeInv'
<1>1. ready \in Seq(Callbacks)
  BY DEF TypeOK
<1>2. CASE Replay \/ Take \/ WaitForItem \/ TakeSentinel \/ End \/ Cancelled
  <2>1. UNCHANGED <<thread, ready, runner>>
    BY <1>2 DEF Replay, Take, WaitForItem, TakeSentinel, End, Cancelled
  <2>2. caller' = "waiting" => queue' = <<>>
    BY <1>2 DEF Replay, Take, WaitForItem, TakeSentinel, End, Cancelled, WakeInv
  <2> QED
    BY <2>1, <2>2 DEF WakeInv
<1>3. CASE Begin
  <2>1. ready' = <<Step("start")>> /\ runner' = "created" /\ caller' = "taking"
    BY <1>3 DEF Begin
  <2>2. Step("start") # Step("resume")
    BY CallbacksDiffer
  <2>3. Has(<<Step("start")>>, Step("start")) /\ ~Has(<<Step("start")>>, Step("resume"))
    BY <2>2 DEF Has
  <2>4. Once(<<Step("start")>>, Step("resume"))
    BY <2>3 DEF Once, Has
  <2> QED
    BY <2>1, <2>3, <2>4 DEF WakeInv
<1>4. CASE CancelWait
  <2>1. runner' = "cancelling" /\ caller' \in {"left", "closing"}
    BY <1>4 DEF CancelWait
  <2>2. CASE runner = "waiting"
    <3>1. ready' = Append(ready, Step("resume")) /\ ~Has(ready, Step("resume"))
      BY <1>4, <2>2 DEF CancelWait, WakeInv
    <3>2. Has(ready', Step("resume")) /\ Once(ready', Step("resume"))
      BY <1>1, <3>1, CallbackFacts, HasPushed DEF WakeInv
    <3> QED
      BY <2>1, <3>2 DEF WakeInv
  <2>3. CASE runner # "waiting"
    <3>1. ready' = ready /\ runner \in {"created", "resuming"}
      BY <1>4, <2>3 DEF CancelWait
    <3> QED
      BY <2>1, <3>1 DEF WakeInv
  <2> QED
    BY <2>2, <2>3
<1>5. CASE BreakOut
  <2>1. Step("close") \in Callbacks /\ Step("close") # Step("resume")
    BY CallbackFacts, CallbacksDiffer
  <2>2. ready' = Append(ready, Step("close")) /\ UNCHANGED <<thread, runner>> /\ caller' = "left"
    BY <1>5 DEF BreakOut
  <2> QED
    BY <1>1, <2>1, <2>2, HasPushed DEF WakeInv
<1> QED
  BY <1>2, <1>3, <1>4, <1>5 DEF Caller

LEMMA WakeStep ==
  ASSUME TypeOK, ActorsInv, CallbacksInv, WakeInv, [Next]_vars
  PROVE  WakeInv'
<1>1. CASE UNCHANGED vars
  BY <1>1 DEF vars, WakeInv
<1> QED
  BY <1>1, ThreadWakes, LoopWakes, CallerWakes DEF Next, Quiescent

LEMMA CloseStep ==
  ASSUME TypeOK, ActorsInv, CloseInv, [Next]_vars
  PROVE  CloseInv'
<1> DEFINE close == Step("close")
<1>1. ready \in Seq(Callbacks)
  BY DEF TypeOK
<1>2. close \in Callbacks
  BY CallbackFacts
<1> HIDE DEF close
<1>3. ASSUME caller' = "left" <=> caller = "left", NEW c \in Callbacks, c # close, ready' = Append(ready, c)
      PROVE  CloseInv'
  BY <1>1, <1>3, HasPushed DEF CloseInv, close
<1>4. ASSUME caller' = "left" <=> caller = "left", ready # <<>>, Head(ready) # close, ready' = Tail(ready)
      PROVE  CloseInv'
  BY <1>1, <1>4, HasPopped DEF CloseInv, close
<1>5. ASSUME caller' = "left" <=> caller = "left", ready # <<>>, Head(ready) # close,
             NEW c \in Callbacks, c # close, ready' = Append(Tail(ready), c)
      PROVE  CloseInv'
  <2>1. Tail(ready) \in Seq(Callbacks)
    BY <1>5, HeadRuns
  <2>2. Once(Tail(ready), close) /\ (Has(Tail(ready), close) <=> Has(ready, close))
    BY <1>1, <1>5, HasPopped DEF CloseInv, close
  <2>3. Once(ready', close) /\ (Has(ready', close) <=> Has(ready, close))
    BY <1>5, <2>1, <2>2, HasPushed
  <2> QED
    BY <1>5, <2>3 DEF CloseInv, close
<1>6. ASSUME caller' = "left" <=> caller = "left", UNCHANGED ready
      PROVE  CloseInv'
  BY <1>6 DEF CloseInv
<1>7. /\ \A e \in Events \cup {Sentinel} : Put(e) \in Callbacks /\ Put(e) # close
      /\ \A w \in {"start", "settle", "resume"} : Step(w) \in Callbacks /\ Step(w) # close
  BY CallbackFacts, CallbacksDiffer DEF close
<1>8. CASE ThreadEmits
  <2>1. Len(emitted) + 1 \in 1 .. MaxEvents
    BY <1>8, BridgeAssumption DEF ThreadEmits, TypeOK
  <2> DEFINE e == RunEvent(Len(emitted) + 1)
  <2>2. e \in Events
    BY <2>1, EventFacts
  <2>3. ready' = Append(ready, Put(e)) /\ caller' = caller
    BY <1>8 DEF ThreadEmits
  <2> HIDE DEF e
  <2> QED
    BY <1>3, <1>7, <2>2, <2>3
<1>9. CASE ThreadEnds
  BY <1>3, <1>7, <1>9 DEF ThreadEnds
<1>10. CASE PutItem
  <2>1. Head(ready) = Put(Head(ready).item) /\ Head(ready).item \in Events \cup {Sentinel}
    BY <1>10, HeadRuns, CallbackFacts DEF PutItem
  <2> QED
    BY <1>4, <1>7, <1>10, <2>1 DEF PutItem
<1>11. CASE StartRunner
  BY <1>4, <1>7, <1>11 DEF StartRunner, Runs
<1>12. CASE SettleFuture
  BY <1>4, <1>5, <1>7, <1>12 DEF SettleFuture, Runs
<1>13. CASE RunnerStores \/ RunnerFails \/ RunnerCancelled
  <2>1. ready # <<>> /\ Head(ready) = Step("resume") /\ ready' = Append(Tail(ready), Put(Sentinel))
    BY <1>13 DEF RunnerStores, RunnerFails, RunnerCancelled, Runs, LeaveRunner
  <2>2. caller' = "left" <=> caller = "left"
    BY <1>13 DEF RunnerStores, RunnerFails, RunnerCancelled, Emit
  <2> QED
    BY <1>5, <1>7, <2>1, <2>2
<1>14. CASE CloseGenerator
  <2>1. ready # <<>> /\ Head(ready) = close /\ ready' = Tail(ready) /\ caller' = "closing"
    BY <1>14 DEF CloseGenerator, Runs, close
  <2>2. Once(Tail(ready), close) /\ ~Has(Tail(ready), close)
    BY <1>1, <2>1, HasPopped DEF CloseInv, close
  <2> QED
    BY <2>1, <2>2 DEF CloseInv, close
<1>15. CASE BreakOut
  <2>1. ready' = Append(ready, close) /\ caller' = "left" /\ caller # "left"
    BY <1>15 DEF BreakOut, close
  <2>2. Once(ready, close) /\ ~Has(ready, close)
    BY <2>1 DEF CloseInv, close
  <2>3. Has(ready', close) /\ Once(ready', close)
    BY <1>1, <1>2, <2>1, <2>2, HasPushed
  <2> QED
    BY <2>1, <2>3 DEF CloseInv, close
<1>16. CASE Begin
  <2>1. ready = <<>> /\ ready' = Append(ready, Step("start"))
    BY <1>16 DEF Begin, ActorsInv, TypeOK
  <2> QED
    BY <1>3, <1>7, <1>16, <2>1 DEF Begin
<1>17. CASE CancelWait
  BY <1>3, <1>6, <1>7, <1>17 DEF CancelWait
<1>18. CASE Replay \/ Take \/ WaitForItem \/ TakeSentinel \/ Cancelled \/ UNCHANGED vars
  <2>1. caller # "left" \/ UNCHANGED vars
    BY <1>18 DEF Replay, Take, WaitForItem, TakeSentinel, Cancelled
  <2> QED
    BY <1>6, <1>18, <2>1 DEF Replay, Take, WaitForItem, TakeSentinel, Cancelled, vars
<1>19. CASE End
  BY <1>6, <1>19 DEF End
<1> QED
  BY <1>8, <1>9, <1>10, <1>11, <1>12, <1>13, <1>14, <1>15, <1>16, <1>17, <1>18, <1>19
     DEF Next, Thread, Loop, Caller, Quiescent

\* Someone has a step to take: the thread, the loop, or the caller itself.
SomeoneGoesOn ==
  \/ thread = "running"
  \/ ready # <<>>
  \/ caller \in {"called", "taking"}
  \/ caller \in {"drained", "closing"} /\ runner \in RunnerEnds

\* The loop is not held up: its next callback finds the runner where it expects it, and a
\* generator to close.
LoopGoesOn ==
  /\ ready # <<>> /\ Head(ready) = Step("resume") => runner \in {"resuming", "cancelling"}
  /\ ready # <<>> /\ Head(ready) = Step("close") => caller = "left"

\* Nobody waits for ever: as long as the caller has not ended, the thread runs, a callback
\* is there that can run, or the caller can go on; no wake-up is lost between the thread,
\* the runner that is cancelled and the caller that waits (service.py 206-272).
THEOREM NobodyIsForgotten == Spec => [](LoopGoesOn /\ (caller \notin CallerEnds => SomeoneGoesOn))
<1>1. Init => WakeInv /\ CloseInv
  BY DEF Init, WakeInv, CloseInv, Has, Once
<1>2. BridgeInv /\ WakeInv /\ CloseInv /\ [Next]_vars => WakeInv' /\ CloseInv'
  BY WakeStep, CloseStep DEF BridgeInv
<1>3. BridgeInv /\ WakeInv /\ CloseInv => LoopGoesOn
  <2> SUFFICES ASSUME BridgeInv, WakeInv, CloseInv, ready # <<>>
               PROVE  /\ Head(ready) = Step("resume") => runner \in {"resuming", "cancelling"}
                      /\ Head(ready) = Step("close") => caller = "left"
    BY DEF LoopGoesOn
  <2>1. Has(ready, Head(ready))
    BY HasPopped DEF BridgeInv, TypeOK
  <2> QED
    BY <2>1 DEF WakeInv, CloseInv
<1>4. BridgeInv /\ WakeInv /\ CloseInv => (caller \notin CallerEnds => SomeoneGoesOn)
  <2> SUFFICES ASSUME BridgeInv, WakeInv, CloseInv, caller \notin CallerEnds, thread # "running", ready = <<>>
               PROVE  \/ caller \in {"called", "taking"}
                      \/ caller \in {"drained", "closing"} /\ runner \in RunnerEnds
    BY DEF SomeoneGoesOn
  <2>1. TypeOK /\ ActorsInv /\ OrderInv
    BY DEF BridgeInv
  <2>2. \A c : ~Has(ready, c)
    BY DEF Has
  <2>3. runner \in RunnerEnds \cup {"none"}
    BY <2>1, <2>2 DEF WakeInv, TypeOK
  <2>4. caller \in {"called", "taking", "waiting", "drained", "closing"}
    BY <2>1, <2>2 DEF TypeOK, CloseInv
  <2>5. CASE caller = "waiting"
    <3>1. queue = <<>> /\ Len(queue) = 0
      BY <2>5 DEF WakeInv
    <3>2. ~(ready = <<Put(Sentinel)>>)
      OBVIOUS
    <3>3. Pending # -1
      BY <2>1, <2>5, <3>1 DEF OrderInv, Pending, TypeOK
    <3> QED
      BY <2>1, <2>3, <2>5, <3>2, <3>3 DEF OrderInv, RunnerEnds, SentinelLast
  <2>6. runner = "none" => caller \in {"called", "complete"}
    BY <2>1 DEF ActorsInv
  <2> QED
    BY <2>3, <2>4, <2>5, <2>6
<1> QED
  BY <1>1, <1>2, <1>3, <1>4, BridgeAlways, PTL DEF Spec

\* What is left of a stream: events to come, callbacks to run, items to take, and how far
\* the thread, the runner and the caller are.
EventsLeft ==
  IF thread \in {"none", "running"} /\ Len(emitted) < MaxEvents THEN MaxEvents - Len(emitted) ELSE 0

ThreadLeft == IF thread = "none" THEN 2 ELSE IF thread = "running" THEN 1 ELSE 0

RunnerLeft ==
  IF runner = "none" THEN 5
  ELSE IF runner = "created" THEN 4
  ELSE IF runner = "waiting" THEN 3
  ELSE IF runner = "resuming" THEN 2
  ELSE IF runner = "cancelling" THEN 1
  ELSE 0

CallerLeft ==
  IF caller = "called" THEN 7
  ELSE IF caller = "taking" THEN 6
  ELSE IF caller = "waiting" THEN 5
  ELSE IF caller \in {"drained", "left", "closing"} THEN 1
  ELSE 0

Left ==
  5 * EventsLeft + 5 * ThreadLeft + 8 * RunnerLeft + CallerLeft + 4 * Len(ready) + 2 * Len(queue)

LEMMA LeftTyped ==
  ASSUME TypeOK
  PROVE  /\ EventsLeft \in Nat /\ ThreadLeft \in 0 .. 2 /\ RunnerLeft \in 0 .. 5
         /\ CallerLeft \in 0 .. 7 /\ Len(ready) \in Nat /\ Len(queue) \in Nat
<1>1. Len(emitted) \in Nat /\ Len(ready) \in Nat /\ Len(queue) \in Nat
  BY DEF TypeOK
<1>2. EventsLeft \in Nat
  BY <1>1, BridgeAssumption DEF EventsLeft
<1> QED
  BY <1>1, <1>2 DEF ThreadLeft, RunnerLeft, CallerLeft

LEMMA StepUsesUp ==
  ASSUME TypeOK, ActorsInv, CallbacksInv, TypeOK', Next
  PROVE  Left' < Left \/ UNCHANGED vars
<1>1. /\ EventsLeft \in Nat /\ ThreadLeft \in 0 .. 2 /\ RunnerLeft \in 0 .. 5
      /\ CallerLeft \in 0 .. 7 /\ Len(ready) \in Nat /\ Len(queue) \in Nat
  BY LeftTyped
<1>2. /\ EventsLeft' \in Nat /\ ThreadLeft' \in 0 .. 2 /\ RunnerLeft' \in 0 .. 5
      /\ CallerLeft' \in 0 .. 7 /\ Len(ready)' \in Nat /\ Len(queue)' \in Nat
  <2>1. Len(emitted') \in Nat /\ Len(ready') \in Nat /\ Len(queue') \in Nat
    BY DEF TypeOK
  <2>2. EventsLeft' \in Nat
    BY <2>1, BridgeAssumption DEF EventsLeft
  <2> QED
    BY <2>1, <2>2 DEF ThreadLeft, RunnerLeft, CallerLeft
<1>3. Len(emitted) \in Nat /\ MaxEvents \in Nat
  BY BridgeAssumption DEF TypeOK
<1>4. ready # <<>> => /\ Len(Tail(ready)) = Len(ready) - 1
                      /\ \A c \in Callbacks : Len(Append(Tail(ready), c)) = Len(ready)
  <2> SUFFICES ASSUME ready # <<>>
               PROVE  /\ Len(Tail(ready)) = Len(ready) - 1
                      /\ \A c \in Callbacks : Len(Append(Tail(ready), c)) = Len(ready)
    OBVIOUS
  <2>1. Tail(ready) \in Seq(Callbacks) /\ Len(Tail(ready)) = Len(ready) - 1
    BY Popped DEF TypeOK
  <2>2. \A c \in Callbacks : Len(Append(Tail(ready), c)) = Len(ready) - 1 + 1
    BY <2>1, Pushed
  <2> QED
    BY <1>1, <2>1, <2>2
<1>5. \A c \in Callbacks : Len(Append(ready, c)) = Len(ready) + 1
  BY Pushed DEF TypeOK
<1>6. Step("settle") \in Callbacks /\ Step("resume") \in Callbacks /\ Put(Sentinel) \in Callbacks
      /\ Step("close") \in Callbacks
  BY CallbackFacts
<1>7. queue # <<>> => Len(Tail(queue)) = Len(queue) - 1
  BY Popped DEF TypeOK
<1>8. CASE ThreadEmits
  <2>1. Len(emitted) + 1 \in 1 .. MaxEvents
    BY <1>3, <1>8 DEF ThreadEmits
  <2>2. Put(RunEvent(Len(emitted) + 1)) \in Callbacks /\ RunEvent(Len(emitted) + 1) \in Events
    BY <2>1, EventFacts, CallbackFacts
  <2>3. Len(ready)' = Len(ready) + 1 /\ Len(emitted') = Len(emitted) + 1
    BY <1>5, <1>8, <2>2, Pushed DEF ThreadEmits, TypeOK
  <2>4. EventsLeft' = EventsLeft - 1
    BY <1>3, <1>8, <2>3 DEF ThreadEmits, EventsLeft
  <2>5. /\ ThreadLeft' = ThreadLeft /\ RunnerLeft' = RunnerLeft /\ CallerLeft' = CallerLeft
        /\ queue' = queue
    BY <1>8 DEF ThreadEmits, ThreadLeft, RunnerLeft, CallerLeft
  <2> QED
    BY <1>1, <1>2, <2>3, <2>4, <2>5 DEF Left
<1>9. CASE ThreadEnds
  <2>1. Len(ready)' = Len(ready) + 1
    BY <1>5, <1>6, <1>9 DEF ThreadEnds
  <2>2. ThreadLeft' = ThreadLeft - 1 /\ EventsLeft' = 0
    BY <1>9 DEF ThreadEnds, ThreadLeft, EventsLeft
  <2>3. RunnerLeft' = RunnerLeft /\ CallerLeft' = CallerLeft /\ queue' = queue
    BY <1>9 DEF ThreadEnds, RunnerLeft, CallerLeft
  <2> QED
    BY <1>1, <1>2, <2>1, <2>2, <2>3 DEF Left
<1>10. CASE PutItem
  <2>1. Head(ready).item \in Events \cup {Sentinel}
    BY <1>10, HeadRuns, CallbackFacts DEF PutItem
  <2>2. Len(ready)' = Len(ready) - 1 /\ Len(queue)' = Len(queue) + 1
    BY <1>4, <1>10, <2>1, Pushed DEF PutItem, TypeOK
  <2>3. CallerLeft' <= CallerLeft + 1
    BY <1>10 DEF PutItem, CallerLeft
  <2>4. EventsLeft' = EventsLeft /\ ThreadLeft' = ThreadLeft /\ RunnerLeft' = RunnerLeft
    BY <1>10 DEF PutItem, EventsLeft, ThreadLeft, RunnerLeft
  <2> QED
    BY <1>1, <1>2, <2>2, <2>3, <2>4 DEF Left
<1>11. CASE StartRunner
  <2>1. Len(ready)' = Len(ready) - 1 /\ queue' = queue /\ caller' = caller
    BY <1>4, <1>11 DEF StartRunner, Runs
  <2>2. ready # <<>> /\ ready[1] = Step("start") /\ 1 \in DOMAIN ready
    BY <1>11, Popped DEF StartRunner, Runs, TypeOK
  <2>3. thread = "none" /\ runner \in {"created", "cancelling"}
    BY <2>2 DEF CallbacksInv
  <2>4. RunnerLeft' <= RunnerLeft
    BY <1>11, <2>3 DEF StartRunner, RunnerLeft, RunnerEnds
  <2>5. EventsLeft' = EventsLeft /\ ThreadLeft' <= ThreadLeft
    BY <1>11, <2>3 DEF StartRunner, EventsLeft, ThreadLeft
  <2>6. CallerLeft' = CallerLeft
    BY <2>1 DEF CallerLeft
  <2> QED
    BY <1>1, <1>2, <2>1, <2>4, <2>5, <2>6 DEF Left
<1>12. CASE SettleFuture
  <2>1. \/ runner = "waiting" /\ Len(ready)' = Len(ready) /\ RunnerLeft' = RunnerLeft - 1
        \/ runner # "waiting" /\ Len(ready)' = Len(ready) - 1 /\ RunnerLeft' = RunnerLeft
    BY <1>4, <1>6, <1>12 DEF SettleFuture, Runs, RunnerLeft
  <2>2. EventsLeft' = EventsLeft /\ ThreadLeft' = ThreadLeft /\ CallerLeft' = CallerLeft /\ queue' = queue
    BY <1>12 DEF SettleFuture, EventsLeft, ThreadLeft, CallerLeft
  <2> QED
    BY <1>1, <1>2, <2>1, <2>2 DEF Left
<1>13. CASE RunnerStores
  <2>1. Len(ready)' = Len(ready) /\ RunnerLeft = 2 /\ RunnerLeft' = 0
    BY <1>4, <1>6, <1>13 DEF RunnerStores, LeaveRunner, Runs, RunnerLeft
  <2>2. Len(queue)' <= Len(queue) + 2
    <3>1. ASSUME NEW events \in Seq(Events), Len(events) <= 2, Emit(events)
          PROVE  Len(queue)' <= Len(queue) + 2
      <4>1. events \in Seq(Events \cup {Sentinel})
        OBVIOUS
      <4> QED
        BY <3>1, <4>1, Joined DEF Emit, TypeOK
    <3>2. /\ <<Completed>> \in Seq(Events) /\ Len(<<Completed>>) <= 2
          /\ <<Compacted, Completed>> \in Seq(Events) /\ Len(<<Compacted, Completed>>) <= 2
      BY EventFacts
    <3> QED
      BY <1>13, <3>1, <3>2 DEF RunnerStores
  <2>3. CallerLeft' <= CallerLeft + 1
    BY <1>13 DEF RunnerStores, Emit, CallerLeft
  <2>4. EventsLeft' = EventsLeft /\ ThreadLeft' = ThreadLeft
    BY <1>13 DEF RunnerStores, EventsLeft, ThreadLeft
  <2> QED
    BY <1>1, <1>2, <2>1, <2>2, <2>3, <2>4 DEF Left
<1>14. CASE RunnerFails \/ RunnerCancelled
  <2>1. Len(ready)' = Len(ready) /\ RunnerLeft > 0 /\ RunnerLeft' = 0
    BY <1>4, <1>6, <1>14 DEF RunnerFails, RunnerCancelled, LeaveRunner, Runs, RunnerLeft
  <2>2. EventsLeft' = EventsLeft /\ ThreadLeft' = ThreadLeft /\ CallerLeft' = CallerLeft /\ queue' = queue
    BY <1>14 DEF RunnerFails, RunnerCancelled, EventsLeft, ThreadLeft, CallerLeft
  <2> QED
    BY <1>1, <1>2, <2>1, <2>2 DEF Left
<1>15. CASE Replay
  <2>1. CallerLeft = 7 /\ CallerLeft' = 0 /\ UNCHANGED <<ready, queue>>
    BY <1>15 DEF Replay, CallerLeft
  <2>2. Len(emitted) = 0 /\ Len(emitted') = 1
    BY <1>15, EmptySeq DEF Replay, ActorsInv
  <2>3. EventsLeft' <= EventsLeft /\ ThreadLeft' = ThreadLeft /\ RunnerLeft' = RunnerLeft
    BY <1>3, <1>15, <2>2 DEF Replay, EventsLeft, ThreadLeft, RunnerLeft
  <2> QED
    BY <1>1, <1>2, <2>1, <2>2, <2>3 DEF Left
<1>16. CASE Begin
  <2>1. CallerLeft = 7 /\ CallerLeft' = 6 /\ RunnerLeft = 5 /\ RunnerLeft' = 4
    BY <1>16 DEF Begin, CallerLeft, RunnerLeft, ActorsInv
  <2>2. Len(ready)' = 1 /\ queue' = queue
    BY <1>16 DEF Begin
  <2>3. EventsLeft' = EventsLeft /\ ThreadLeft' = ThreadLeft
    BY <1>16 DEF Begin, EventsLeft, ThreadLeft
  <2> QED
    BY <1>1, <1>2, <2>1, <2>2, <2>3 DEF Left
<1>17. ASSUME \/ Take \/ WaitForItem \/ TakeSentinel \/ Cancelled \/ BreakOut \/ CloseGenerator
              \/ End \/ CancelWait
       PROVE  EventsLeft' = EventsLeft /\ ThreadLeft' = ThreadLeft
  BY <1>17 DEF Take, WaitForItem, TakeSentinel, Cancelled, BreakOut, CloseGenerator, End, CancelWait,
               EventsLeft, ThreadLeft
<1>18. CASE Take \/ TakeSentinel
  <2>1. Len(queue)' = Len(queue) - 1 /\ ready' = ready /\ RunnerLeft' = RunnerLeft
    BY <1>7, <1>18 DEF Take, TakeSentinel, RunnerLeft
  <2>2. CallerLeft' <= CallerLeft
    BY <1>18 DEF Take, TakeSentinel, CallerLeft
  <2>3. EventsLeft' = EventsLeft /\ ThreadLeft' = ThreadLeft
    BY <1>17, <1>18
  <2> QED
    BY <1>1, <1>2, <2>1, <2>2, <2>3 DEF Left
<1>19. CASE WaitForItem \/ Cancelled \/ End
  <2>1. UNCHANGED <<ready, queue>> /\ RunnerLeft' = RunnerLeft
    BY <1>19 DEF WaitForItem, Cancelled, End, RunnerLeft
  <2>2. CallerLeft' < CallerLeft
    BY <1>19 DEF WaitForItem, Cancelled, End, CallerLeft
  <2>3. EventsLeft' = EventsLeft /\ ThreadLeft' = ThreadLeft
    BY <1>17, <1>19
  <2> QED
    BY <1>1, <1>2, <2>1, <2>2, <2>3 DEF Left
<1>20. CASE CancelWait
  <2>1. queue' = queue /\ CallerLeft' = CallerLeft
    BY <1>20 DEF CancelWait, CallerLeft
  <2>2. RunnerLeft' < RunnerLeft /\ Len(ready)' <= Len(ready) + 1
    BY <1>1, <1>5, <1>6, <1>20 DEF CancelWait, RunnerLeft
  <2>3. EventsLeft' = EventsLeft /\ ThreadLeft' = ThreadLeft
    BY <1>17, <1>20
  <2> QED
    BY <1>1, <1>2, <2>1, <2>2, <2>3 DEF Left
<1>21. CASE BreakOut
  <2>1. Len(ready)' = Len(ready) + 1 /\ queue' = queue /\ RunnerLeft' = RunnerLeft
    BY <1>5, <1>6, <1>21 DEF BreakOut, RunnerLeft
  <2>2. CallerLeft = 6 /\ CallerLeft' = 1
    BY <1>21 DEF BreakOut, CallerLeft
  <2>3. EventsLeft' = EventsLeft /\ ThreadLeft' = ThreadLeft
    BY <1>17, <1>21
  <2> QED
    BY <1>1, <1>2, <2>1, <2>2, <2>3 DEF Left
<1>22. CASE CloseGenerator
  <2>1. Len(ready)' = Len(ready) - 1 /\ queue' = queue /\ RunnerLeft' = RunnerLeft
    BY <1>4, <1>22 DEF CloseGenerator, Runs, RunnerLeft
  <2>2. CallerLeft' = CallerLeft
    BY <1>22 DEF CloseGenerator, CallerLeft
  <2>3. EventsLeft' = EventsLeft /\ ThreadLeft' = ThreadLeft
    BY <1>17, <1>22
  <2> QED
    BY <1>1, <1>2, <2>1, <2>2, <2>3 DEF Left
<1> QED
  BY <1>8, <1>9, <1>10, <1>11, <1>12, <1>13, <1>14, <1>15, <1>16, <1>18, <1>19, <1>20, <1>21, <1>22
     DEF Next, Thread, Loop, Caller, Quiescent

\* A stream cannot go on for ever: whatever the thread, the loop and the caller do, and
\* however they are interleaved, each step of theirs leaves less to be done; so that, with
\* NobodyIsForgotten, all that EveryStreamEnds needs of fairness is that steps are taken.
THEOREM StepsRunOut == Spec => [][Left' < Left /\ Left \in Nat]_vars
<1>1. BridgeInv /\ BridgeInv' /\ [Next]_vars => [Left' < Left /\ Left \in Nat]_vars
  <2> SUFFICES ASSUME BridgeInv, BridgeInv', Next
               PROVE  (Left' < Left /\ Left \in Nat) \/ UNCHANGED vars
    OBVIOUS
  <2>1. TypeOK /\ ActorsInv /\ CallbacksInv /\ TypeOK'
    BY DEF BridgeInv
  <2>2. Left \in Nat
    <3>1. /\ EventsLeft \in Nat /\ ThreadLeft \in 0 .. 2 /\ RunnerLeft \in 0 .. 5
          /\ CallerLeft \in 0 .. 7 /\ Len(ready) \in Nat /\ Len(queue) \in Nat
      BY <2>1, LeftTyped
    <3> QED
      BY <3>1 DEF Left
  <2> QED
    BY <2>1, <2>2, StepUsesUp
<1> QED
  BY <1>1, BridgeAlways, PTL DEF Spec
=============================================================================
