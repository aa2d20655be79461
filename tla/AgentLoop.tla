----------------------------- MODULE AgentLoop -----------------------------
(***************************************************************************)
(* AgentLoop.run (agent/loop.py): the model is asked over and over, with   *)
(* the transcript of the run, until it answers without tool calls or the   *)
(* step budget is spent; its tool calls are announced, gated, executed and *)
(* answered one after the other.  The asking is ProviderChat's.            *)
(*                                                                         *)
(* messages is what the run appends to the messages it was given, without  *)
(* the wording; a tool call is named by the step that made it and its      *)
(* position there, as its call_id does.                                    *)
(***************************************************************************)
EXTENDS ProviderChat, FiniteSets, SequencesExt

CONSTANTS
  HighRisk,      \* the tools whose manifest has risk_level "high"
  Asking,        \* the caller gives on_approval_required
  MaxSteps,      \* AgentLoop.max_steps
  MaxCalls       \* bound: tool calls of one reply

ASSUME LoopAssumption ==
  /\ HighRisk \subseteq Tools
  /\ Asking \in BOOLEAN
  /\ MaxSteps \in Nat \ {0}
  /\ MaxCalls \in Nat \ {0}

VARIABLES
  phase,     \* where run is
  step,      \* _step
  messages,  \* the messages the run has appended
  calls,     \* result.tool_calls
  next,      \* the position of the call being handled
  stage,     \* how far its handling is
  events,    \* the RuntimeEvents given to on_event
  granted,   \* history: the calls the user approved
  executed,  \* history: the calls whose handler was invoked, in order
  final      \* the text returned

loopVars == <<phase, step, messages, calls, next, stage, events, granted, executed, final>>

vars == <<chatVars, loopVars>>
-----------------------------------------------------------------------------
Call == [step : Nat, pos : Nat \ {0}, tool : Tools]

Outcomes == {"ran", "denied", "unknown"}

AssistantMessage == [role : {"assistant"}, step : Nat, calls : Seq(Tools)]

ToolMessage == [role : {"tool"}, call : Call, outcome : Outcomes]

Event == [type : {"tool_call", "tool_result"}, call : Call]

\* The text of a reply, the fallback text, or nothing returned yet.
Final == [kind : {"answer"}, of : Response, length : Nat] \cup [kind : {"unable", "none"}]

Current == [step |-> step, pos |-> next, tool |-> calls[next]]

Init ==
  /\ ChatInit
  /\ phase = "chat"
  /\ step = 0
  /\ messages = <<>>
  /\ calls = <<>>
  /\ next = 1
  /\ stage = "announce"
  /\ events = <<>>
  /\ granted = {}
  /\ executed = <<>>
  /\ final = [kind |-> "none"]
-----------------------------------------------------------------------------
(* Asking the model *)

Ask ==
  /\ phase = "chat"
  /\ Invoke
  /\ UNCHANGED loopVars

Wait ==
  /\ StreamPart \/ StreamBreaks \/ TryNext
  /\ UNCHANGED loopVars

ModelFails ==
  /\ AllFailed
  /\ phase' = "raised"
  /\ UNCHANGED <<step, messages, calls, next, stage, events, granted, executed, final>>

\* No tool calls: the text is the answer.
Answer(length) ==
  /\ Reply(<<>>, length)
  /\ final' = IF length > 0 THEN [kind |-> "answer", of |-> InFlight, length |-> length]
              ELSE [kind |-> "unable"]
  /\ messages' = Append(messages, [role |-> "assistant", step |-> step, calls |-> <<>>])
  /\ phase' = "returned"
  /\ UNCHANGED <<step, calls, next, stage, events, granted, executed>>

CallTools(length, requested) ==
  /\ requested # <<>>
  /\ Reply(requested, length)
  /\ messages' = Append(messages, [role |-> "assistant", step |-> step, calls |-> requested])
  /\ calls' = requested
  /\ next' = 1
  /\ stage' = "announce"
  /\ phase' = "tools"
  /\ UNCHANGED <<step, events, granted, executed, final>>
-----------------------------------------------------------------------------
(* One tool call *)

Handling(s) == phase = "tools" /\ stage = s

Tell(type) ==
  events' = IF Streaming THEN Append(events, [type |-> type, call |-> Current]) ELSE events

NeedsApproval == Asking /\ calls[next] \in HighRisk

Announce ==
  /\ Handling("announce")
  /\ Tell("tool_call")
  /\ stage' = "decide"
  /\ UNCHANGED <<chatVars, phase, step, messages, calls, next, granted, executed, final>>

\* on_approval_required returned True.
Approve ==
  /\ Handling("decide")
  /\ calls[next] \in offered /\ NeedsApproval
  /\ granted' = granted \cup {Current}
  /\ stage' = "approved"
  /\ UNCHANGED <<chatVars, phase, step, messages, calls, next, events, executed, final>>

\* Faulty: the callback is asked, its answer ignored.
ExecuteUnasked ==
  /\ Handling("approved") \/ Handling("decide")
  /\ calls[next] \in offered
  /\ executed' = Append(executed, Current)
  /\ stage' = "executed"
  /\ UNCHANGED <<chatVars, phase, step, messages, calls, next, events, granted, final>>

\* tool_registry.invoke: the handler's effect.
Execute ==
  /\ Handling("approved") \/ (Handling("decide") /\ ~NeedsApproval)
  /\ calls[next] \in offered
  /\ executed' = Append(executed, Current)
  /\ stage' = "executed"
  /\ UNCHANGED <<chatVars, phase, step, messages, calls, next, events, granted, final>>

\* The handler raised after its effect: the exception leaves run.
ToolRaises ==
  /\ Handling("executed")
  /\ phase' = "raised"
  /\ UNCHANGED <<chatVars, step, messages, calls, next, stage, events, granted, executed, final>>

\* The next call, the next step, or the end of the budget.
Proceed ==
  /\ stage' = "announce"
  /\ IF next < Len(calls)
     THEN next' = next + 1 /\ UNCHANGED <<phase, step, final>>
     ELSE /\ step' = step + 1
          /\ IF step + 1 < MaxSteps
             THEN phase' = "chat" /\ UNCHANGED final
             ELSE phase' = "returned" /\ final' = [kind |-> "unable"]
          /\ UNCHANGED next

\* Faulty: a call that is not executed gets no tool message.
SettleOnlyIfRun(outcome) ==
  /\ Tell("tool_result")
  /\ messages' = IF outcome = "ran"
                 THEN Append(messages, [role |-> "tool", call |-> Current, outcome |-> outcome])
                 ELSE messages
  /\ Proceed
  /\ UNCHANGED <<chatVars, calls, granted, executed>>

\* Faulty: the result of a call that is not executed is not told.
SettleQuietly(outcome) ==
  /\ IF outcome = "ran" THEN Tell("tool_result") ELSE UNCHANGED events
  /\ messages' = Append(messages, [role |-> "tool", call |-> Current, outcome |-> outcome])
  /\ Proceed
  /\ UNCHANGED <<chatVars, calls, granted, executed>>

\* The result is told and answered to the model.
Settle(outcome) ==
  /\ Tell("tool_result")
  /\ messages' = Append(messages, [role |-> "tool", call |-> Current, outcome |-> outcome])
  /\ Proceed
  /\ UNCHANGED <<chatVars, calls, granted, executed>>

ToolReturns == Handling("executed") /\ Settle("ran")

\* on_approval_required returned False.
Deny == Handling("decide") /\ calls[next] \in offered /\ NeedsApproval /\ Settle("denied")

UnknownTool == Handling("decide") /\ calls[next] \notin offered /\ Settle("unknown")
-----------------------------------------------------------------------------
Ended == phase \in {"returned", "raised"} /\ UNCHANGED vars

Next ==
  \/ Ask \/ Wait \/ ModelFails
  \/ \E length \in 0 .. MaxParts + 1 :
       \/ Answer(length)
       \/ \E requested \in SeqOf(Tools, MaxCalls) : CallTools(length, requested)
  \/ Announce \/ Approve \/ Execute \/ ToolRaises
  \/ ToolReturns \/ Deny \/ UnknownTool
  \/ Ended

Spec == Init /\ [][Next]_vars

\* Requests have a timeout and streams an end; tools and the user's answer come back.
FairSpec == Spec /\ WF_vars(Next)
-----------------------------------------------------------------------------
(* Properties *)

\* Types of the loop's and the provider call's state.
TypeOK ==
  /\ ChatTypeOK
  /\ phase \in {"chat", "tools", "returned", "raised"}
  /\ step \in Nat
  /\ messages \in Seq(AssistantMessage \cup ToolMessage)
  /\ calls \in Seq(Tools)
  /\ next \in Nat \ {0}
  /\ stage \in {"announce", "decide", "approved", "executed"}
  /\ events \in Seq(Event)
  /\ granted \in SUBSET Call
  /\ executed \in Seq(Call)
  /\ final \in Final

\* The tool messages behind the assistant message at i answer its calls in order.
AnswersAll(i) ==
  \A p \in 1 .. Len(messages[i].calls) :
    /\ i + p <= Len(messages)
    /\ messages[i + p].role = "tool"
    /\ messages[i + p].call =
         [step |-> messages[i].step, pos |-> p, tool |-> messages[i].calls[p]]

\* The tool message at i answers a call of the assistant message pos before it.
AnswersSome(i) ==
  \E j \in 1 .. i - 1 :
    /\ messages[j].role = "assistant"
    /\ i - j <= Len(messages[j].calls)

\* Whenever the model is asked, every tool call of the transcript is answered by
\* exactly one tool message, in order, directly behind its assistant message: what
\* both wire formats demand, also for denied and unknown tools (loop.py 81-130).
TranscriptProtocol ==
  phase = "chat" =>
    \A i \in DOMAIN messages :
      IF messages[i].role = "assistant" THEN AnswersAll(i) ELSE AnswersSome(i)

\* A handler runs at most once for a call, only for a registered tool, and for a
\* high-risk tool only after the user approved this very call, when there is a user
\* to ask; a call answered as denied or unknown never ran (loop.py 101-112).
ToolsGated ==
  /\ \A i \in DOMAIN executed :
       /\ executed[i].tool \in offered
       /\ Asking /\ executed[i].tool \in HighRisk => executed[i] \in granted
       /\ \A j \in DOMAIN executed : executed[j] = executed[i] => j = i
  /\ \A k \in DOMAIN messages :
       messages[k].role = "tool" =>
         (messages[k].outcome = "ran" <=> \E i \in DOMAIN executed : executed[i] = messages[k].call)

\* The tool messages among the first k messages.
ToolMessages(k) == {j \in 1 .. k : messages[j].role = "tool"}

\* The events of a streamed run tell its transcript: the answered calls in order, each
\* as tool_call then tool_result; at most one call is announced and not answered yet.
EventsTellTranscript ==
  Streaming =>
    /\ Len(events) - 2 * Cardinality(ToolMessages(Len(messages))) \in {0, 1}
    /\ \A k \in ToolMessages(Len(messages)) :
         LET n == Cardinality(ToolMessages(k))
         IN  /\ events[2 * n - 1] = [type |-> "tool_call", call |-> messages[k].call]
             /\ events[2 * n] = [type |-> "tool_result", call |-> messages[k].call]

Whole(text) == [k \in 1 .. text.length |-> [of |-> text.of, part |-> k]]

\* The answer of a streamed run is what was shown last, whole and in order, unless
\* its endpoint does not stream and showed nothing, or its stream broke after some
\* chunks, whose tokens then stay in the answer's place (native.py 244-256, 414-425).
AnswerIsShown ==
  phase = "returned" /\ final.kind = "answer" /\ Streaming =>
    \/ IsSuffix(Whole(final), shown)
    \/ /\ final.of.mode = "plain"
       /\ \A k \in DOMAIN shown :
            <<shown[k].of.chat, shown[k].of.endpoint>> # <<final.of.chat, final.of.endpoint>>
    \/ /\ final.of.mode = "fallback"
       /\ shown # <<>> /\ Last(shown).of = [final.of EXCEPT !.mode = "stream"]

\* The endpoints of a call are tried in order and each at most once; a run that
\* raises has tried all candidates, or a handler raised (manager.py 241-322).
FailoverInOrder ==
  /\ \A k \in DOMAIN errors : errors[k] = k
  /\ mode # "idle" => Len(errors) = endpoint - 1
  /\ phase = "raised" => {errors[k] : k \in DOMAIN errors} = Candidates \/ stage = "executed"

\* A run comes to an end.
RunEnds == <>(phase \in {"returned", "raised"})
=============================================================================
