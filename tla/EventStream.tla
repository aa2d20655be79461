---------------------------- MODULE EventStream ----------------------------
(***************************************************************************)
(* What the documents promise of AgentService.stream_event: a caller       *)
(* receives the events of its run in the order they were made, all of them *)
(* unless it goes away, and run_completed last if and only if the run was  *)
(* completed.  Nothing of how: no thread, queue or sentinel.               *)
(***************************************************************************)
EXTENDS Naturals, Sequences

CONSTANTS Events, Completed

VARIABLES
  sent,      \* the events made so far
  received,  \* the events the caller has received
  status     \* of the caller: "open", "complete", "failed" or "abandoned"

vars == <<sent, received, status>>

Init == sent = <<>> /\ received = <<>> /\ status = "open"

IsComplete(s) == s # <<>> /\ s[Len(s)] = Completed

\* The run makes an event, none after run_completed.
Send(e) ==
  /\ status \notin {"complete", "failed"}
  /\ ~IsComplete(sent)
  /\ sent' = Append(sent, e)
  /\ UNCHANGED <<received, status>>

\* Two events in one step: memory_compacted and run_completed.
SendTwo(e, f) ==
  /\ status \notin {"complete", "failed"}
  /\ ~IsComplete(sent)
  /\ sent' = sent \o <<e, f>>
  /\ UNCHANGED <<received, status>>

Receive ==
  /\ status = "open"
  /\ Len(received) < Len(sent)
  /\ received' = Append(received, sent[Len(received) + 1])
  /\ UNCHANGED <<sent, status>>

\* The stored reply of an event answered before is the whole stream.
Replay ==
  /\ sent = <<>> /\ status = "open"
  /\ sent' = <<Completed>> /\ received' = sent' /\ status' = "complete"

Close ==
  /\ status = "open"
  /\ received = sent
  /\ status' = IF IsComplete(sent) THEN "complete" ELSE "failed"
  /\ UNCHANGED <<sent, received>>

Abandon ==
  /\ status = "open"
  /\ status' = "abandoned"
  /\ UNCHANGED <<sent, received>>

Next ==
  \/ \E e \in Events : Send(e)
  \/ \E e, f \in Events : SendTwo(e, f)
  \/ Receive \/ Replay \/ Close \/ Abandon

Spec == Init /\ [][Next]_vars
=============================================================================
