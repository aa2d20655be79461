---------------------------- MODULE StreamBridge ----------------------------
(***************************************************************************)
(* AgentService.stream_event from line 202 on (agent/service.py): run_loop *)
(* works in a thread, its events cross to the event loop as callbacks, and *)
(* the runner task stores the reply and puts the last events; the caller's *)
(* async for takes them out of an asyncio.Queue.                           *)
(*                                                                         *)
(* Three actors: the thread, which only appends callbacks to the loop's    *)
(* ready queue; the loop, which runs the callback at its head; the caller, *)
(* which takes items between its own awaits, may be cancelled at any await *)
(* and may break out of its async for.                                     *)
(* SessionService has the store behind the runner's last step.             *)
(***************************************************************************)
EXTENDS Naturals, Sequences

CONSTANT MaxEvents  \* bound: events of one run (tokens, tool calls and results)

ASSUME BridgeAssumption == MaxEvents \in Nat

VARIABLES
  stored,     \* the reply of the event is in processed_events
  thread,     \* run_loop in its thread
  ready,      \* callbacks of the event loop, in the order they will run
  queue,      \* the asyncio.Queue
  runner,     \* the task of _run_and_store
  caller,     \* where the caller's async for is, or its generator when it has left that
  emitted,    \* history: the events the run has made, in order
  delivered,  \* history: the events yielded to the caller
  cut         \* history: the runner was cancelled

vars == <<stored, thread, ready, queue, runner, caller, emitted, delivered, cut>>
-----------------------------------------------------------------------------
Compacted == [type |-> "memory_compacted", n |-> 0]

Completed == [type |-> "run_completed", n |-> 0]

\* The n-th event of the run's thread.
RunEvent(n) == [type |-> "run_event", n |-> n]

Sentinel == [type |-> "sentinel", n |-> 0]

Events == {Compacted, Completed} \cup {RunEvent(n) : n \in 1 .. MaxEvents}

\* start and resume step the runner; settle sets the future of the thread's result; close
\* is the aclose of a generator that was left.
Put(item) == [do |-> "put", item |-> item]

Step(what) == [do |-> what, item |-> Sentinel]

Callbacks ==
  {Put(item) : item \in Events \cup {Sentinel}} \cup {Step(what) : what \in {"start", "settle", "resume", "close"}}

RunnerEnds == {"done", "failed", "cancelled"}

CallerEnds == {"complete", "failed", "abandoned"}

Init ==
  /\ stored \in BOOLEAN
  /\ thread = "none"
  /\ ready = <<>>
  /\ queue = <<>>
  /\ runner = "none"
  /\ caller = "called"
  /\ emitted = <<>>
  /\ delivered = <<>>
  /\ cut = FALSE
-----------------------------------------------------------------------------
(* The call *)

\* The event was processed before: its reply is replayed, nothing runs.
Replay ==
  /\ caller = "called"
  /\ stored
  /\ emitted' = <<Completed>>
  /\ delivered' = <<Completed>>
  /\ caller' = "complete"
  /\ UNCHANGED <<stored, thread, ready, queue, runner, cut>>

\* asyncio.create_task; the caller goes on to its first queue.get().
Begin ==
  /\ caller = "called"
  /\ ~stored
  /\ runner' = "created"
  /\ ready' = <<Step("start")>>
  /\ caller' = "taking"
  /\ UNCHANGED <<stored, thread, queue, emitted, delivered, cut>>
-----------------------------------------------------------------------------
(* The thread *)

\* on_token and on_event: call_soon_threadsafe(queue.put_nowait, event).
ThreadEmits ==
  /\ thread = "running"
  /\ Len(emitted) < MaxEvents
  /\ LET event == RunEvent(Len(emitted) + 1)
     IN  /\ emitted' = Append(emitted, event)
         /\ ready' = Append(ready, Put(event))
  /\ UNCHANGED <<stored, thread, queue, runner, caller, delivered, cut>>

\* Faulty: the thread resumes the runner itself, ahead of the callbacks that are ready.
ThreadResumesRunner ==
  /\ thread = "running"
  /\ thread' \in {"returned", "raised"}
  /\ runner' = IF runner = "waiting" THEN "resuming" ELSE runner
  /\ ready' = IF runner = "waiting" THEN <<Step("resume")>> \o ready ELSE ready
  /\ UNCHANGED <<stored, queue, caller, emitted, delivered, cut>>

\* run_loop returns or raises; the executor's future crosses over the same way.
ThreadEnds ==
  /\ thread = "running"
  /\ thread' \in {"returned", "raised"}
  /\ ready' = Append(ready, Step("settle"))
  /\ UNCHANGED <<stored, queue, runner, caller, emitted, delivered, cut>>
-----------------------------------------------------------------------------
(* The event loop *)

Runs(callback) == ready # <<>> /\ Head(ready) = callback

\* queue.put_nowait; a caller that waits in get() is woken.
PutItem ==
  /\ ready # <<>> /\ Head(ready).do = "put"
  /\ ready' = Tail(ready)
  /\ queue' = Append(queue, Head(ready).item)
  /\ caller' = IF caller = "waiting" THEN "taking" ELSE caller
  /\ UNCHANGED <<stored, thread, runner, emitted, delivered, cut>>

StartRunner ==
  /\ Runs(Step("start"))
  /\ ready' = Tail(ready)
  /\ IF runner = "created"
     THEN runner' = "waiting" /\ thread' = "running"
     ELSE runner' = "cancelled" /\ UNCHANGED thread
  /\ UNCHANGED <<stored, queue, caller, emitted, delivered, cut>>

\* The thread's result reaches the runner's future, unless that was cancelled.
SettleFuture ==
  /\ Runs(Step("settle"))
  /\ ready' = IF runner = "waiting" THEN Append(Tail(ready), Step("resume")) ELSE Tail(ready)
  /\ runner' = IF runner = "waiting" THEN "resuming" ELSE runner
  /\ UNCHANGED <<stored, thread, queue, caller, emitted, delivered, cut>>

\* finally: the sentinel is put by a later callback.
LeaveRunner(outcome) ==
  /\ runner' = outcome
  /\ ready' = Append(Tail(ready), Put(Sentinel))

\* Events the runner puts itself, without a callback.
Emit(events) ==
  /\ emitted' = emitted \o events
  /\ queue' = queue \o events
  /\ caller' = IF caller = "waiting" THEN "taking" ELSE caller

\* Faulty: run_completed is put first, and then the reply cannot be stored.
RunnerTellsFirst ==
  /\ Runs(Step("resume"))
  /\ runner = "resuming" /\ thread = "returned"
  /\ \E stores \in BOOLEAN :
       /\ stored' = stores
       /\ LeaveRunner(IF stores THEN "done" ELSE "failed")
  /\ Emit(<<Completed>>)
  /\ UNCHANGED <<thread, delivered, cut>>

\* append_turns and save_processed_event, then memory_compacted and run_completed.
RunnerStores ==
  /\ Runs(Step("resume"))
  /\ runner = "resuming" /\ thread = "returned"
  /\ stored' = TRUE
  /\ LeaveRunner("done")
  /\ Emit(<<Completed>>) \/ Emit(<<Compacted, Completed>>)
  /\ UNCHANGED <<thread, delivered, cut>>

\* Faulty: no finally.
RunnerFailsSilently ==
  /\ Runs(Step("resume"))
  /\ runner = "resuming"
  /\ runner' = "failed"
  /\ ready' = Tail(ready)
  /\ UNCHANGED <<stored, thread, queue, caller, emitted, delivered, cut>>

\* run_loop raised, or append_turns or save_processed_event does.
RunnerFails ==
  /\ Runs(Step("resume"))
  /\ runner = "resuming"
  /\ LeaveRunner("failed")
  /\ UNCHANGED <<stored, thread, queue, caller, emitted, delivered, cut>>

\* CancelledError at the await of the thread, whose work goes on.
RunnerCancelled ==
  /\ Runs(Step("resume"))
  /\ runner = "cancelling"
  /\ LeaveRunner("cancelled")
  /\ UNCHANGED <<stored, thread, queue, caller, emitted, delivered, cut>>
-----------------------------------------------------------------------------
(* The caller *)

\* The caller may be at its own work, too, while it is "taking".
Take ==
  /\ caller = "taking"
  /\ queue # <<>> /\ Head(queue) # Sentinel
  /\ queue' = Tail(queue)
  /\ delivered' = Append(delivered, Head(queue))
  /\ UNCHANGED <<stored, thread, ready, runner, caller, emitted, cut>>

WaitForItem ==
  /\ caller = "taking"
  /\ queue = <<>>
  /\ caller' = "waiting"
  /\ UNCHANGED <<stored, thread, ready, queue, runner, emitted, delivered, cut>>

TakeSentinel ==
  /\ caller = "taking"
  /\ queue # <<>> /\ Head(queue) = Sentinel
  /\ queue' = Tail(queue)
  /\ caller' = "drained"
  /\ UNCHANGED <<stored, thread, ready, runner, emitted, delivered, cut>>

\* The caller is cancelled in "await queue.get()": the finally runs in its own task.
Cancelled ==
  /\ caller \in {"taking", "waiting"}
  /\ caller' = "closing"
  /\ UNCHANGED <<stored, thread, ready, queue, runner, emitted, delivered, cut>>

\* The caller breaks out of its loop, as the TUI does at run_completed, or is cancelled at
\* its own work: it goes on, and the generator it left at its yield is closed by a callback.
BreakOut ==
  /\ caller = "taking"
  /\ delivered # <<>>
  /\ caller' = "left"
  /\ ready' = Append(ready, Step("close"))
  /\ UNCHANGED <<stored, thread, queue, runner, emitted, delivered, cut>>

\* aclose: the finally runs in a task of its own.
CloseGenerator ==
  /\ Runs(Step("close"))
  /\ caller = "left"
  /\ ready' = Tail(ready)
  /\ caller' = "closing"
  /\ UNCHANGED <<stored, thread, queue, runner, emitted, delivered, cut>>

\* Cancelled (again, by a second Ctrl-C) in "await runner": so is the runner.  Or the
\* program ends behind a caller that broke out, which cancels every task.
CancelWait ==
  /\ caller \in {"left", "closing"}
  /\ cut' = TRUE
  /\ runner \in {"created", "waiting", "resuming"}
  /\ runner' = "cancelling"
  /\ ready' = IF runner = "waiting" THEN Append(ready, Step("resume")) ELSE ready
  /\ UNCHANGED <<stored, thread, queue, caller, emitted, delivered>>

\* Faulty: the runner is not awaited.
EndWithoutRunner ==
  /\ caller \in {"drained", "closing"}
  /\ caller' = CASE caller = "closing" -> "abandoned"
                 [] caller = "drained" /\ runner = "done" -> "complete"
                 [] OTHER -> "failed"
  /\ UNCHANGED <<stored, thread, ready, queue, runner, emitted, delivered, cut>>

\* finally: await runner, which raises what the runner raised.
End ==
  /\ caller \in {"drained", "closing"}
  /\ runner \in RunnerEnds
  /\ caller' = CASE caller = "closing" -> "abandoned"
                 [] caller = "drained" /\ runner = "done" -> "complete"
                 [] OTHER -> "failed"
  /\ UNCHANGED <<stored, thread, ready, queue, runner, emitted, delivered, cut>>
-----------------------------------------------------------------------------
Thread == ThreadEmits \/ ThreadEnds

Loop ==
  \/ PutItem \/ StartRunner \/ SettleFuture
  \/ RunnerStores \/ RunnerFails \/ RunnerCancelled
  \/ CloseGenerator

Caller == Replay \/ Begin \/ Take \/ WaitForItem \/ TakeSentinel \/ End

Quiescent ==
  caller \in CallerEnds /\ thread # "running" /\ ready = <<>> /\ UNCHANGED vars

Next == Thread \/ Loop \/ Caller \/ Cancelled \/ BreakOut \/ CancelWait \/ Quiescent

Spec == Init /\ [][Next]_vars

\* run_loop comes back, the loop runs its callbacks, the caller takes what there is.
\* It need not break out, and nobody need cancel it.
FairSpec == Spec /\ WF_vars(ThreadEnds) /\ WF_vars(Loop) /\ WF_vars(Caller)
-----------------------------------------------------------------------------
(* Properties *)

\* Types; no sentinel is ever yielded to the caller.
TypeOK ==
  /\ stored \in BOOLEAN
  /\ thread \in {"none", "running", "returned", "raised"}
  /\ ready \in Seq(Callbacks)
  /\ queue \in Seq(Events \cup {Sentinel})
  /\ runner \in {"none", "created", "waiting", "resuming", "cancelling"} \cup RunnerEnds
  /\ caller \in {"called", "taking", "waiting", "drained", "left", "closing"} \cup CallerEnds
  /\ emitted \in Seq(Events)
  /\ delivered \in Seq(Events)
  /\ cut \in BOOLEAN

\* The bridge implements the promised stream: order, completeness, and run_completed
\* last if and only if the run was completed, although the thread, the runner and its
\* sentinel reach the queue by different ways (service.py 206-261).
Stream == INSTANCE EventStream WITH
  sent <- emitted,
  received <- delivered,
  status <- IF caller \in CallerEnds THEN caller ELSE "open"

StreamSpec == Stream!Spec

\* A caller that has seen run_completed finds the reply stored (service.py 246-259).
StoredBeforeTold == \A k \in DOMAIN delivered : delivered[k] = Completed => stored

RunGoesOn ==
  thread = "running" \/ runner \in {"created", "waiting", "resuming", "cancelling"}

\* A stream that has ended, however its caller went, leaves no run behind it, unless the
\* runner was cancelled: "await runner" (service.py 271-272).  A caller that breaks out goes
\* on before that; the TUI does so at run_completed (tui.py 440-447), and then nothing of
\* its run is left to go on beside its next one.
NoOrphanRun ==
  /\ caller \in CallerEnds /\ ~cut => ~RunGoesOn
  /\ \A k \in DOMAIN delivered : delivered[k] = Completed => ~RunGoesOn

\* A call of stream_event ends: no caller waits for ever on an empty queue.
EveryStreamEnds == <>(caller \in CallerEnds)
=============================================================================
