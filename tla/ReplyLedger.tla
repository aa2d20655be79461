----------------------------- MODULE ReplyLedger -----------------------------
(***************************************************************************)
(* What docs/modules/project-overview.md (Event idempotency) promises of   *)
(* AgentService: an event gets one reply, once and for ever, and every     *)
(* caller that brings the event is given that reply or none.  Nothing of   *)
(* how: no workers, tables or turns.                                       *)
(***************************************************************************)
CONSTANTS Requests, Events, EventOf, NoReply

VARIABLES
  replies,  \* replies[e]: the request whose run settled event e
  answers   \* answers[r]: what request r was given

vars == <<replies, answers>>

Init ==
  /\ replies = [e \in Events |-> NoReply]
  /\ answers = [r \in Requests |-> NoReply]

\* A run for an unsettled event settles it.
Settle(r) ==
  /\ replies[EventOf[r]] = NoReply
  /\ replies' = [replies EXCEPT ![EventOf[r]] = r]
  /\ UNCHANGED answers

\* A caller is given the one reply of its event.
Deliver(r) ==
  /\ answers[r] = NoReply
  /\ replies[EventOf[r]] # NoReply
  /\ answers' = [answers EXCEPT ![r] = replies[EventOf[r]]]
  /\ UNCHANGED replies

Next == \E r \in Requests : Settle(r) \/ Deliver(r)

Spec == Init /\ [][Next]_vars
=============================================================================
