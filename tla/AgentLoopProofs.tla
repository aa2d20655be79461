-------------------------- MODULE AgentLoopProofs --------------------------
(***************************************************************************)
(* Theorems of AgentLoop for every set of tools, every list of endpoints   *)
(* and every bound on steps, calls and chunks, of what WireFormat makes of *)
(* its transcript, and of what the Terminals make of its tokens and events.*)
(***************************************************************************)
EXTENDS WireFormat, Terminals, FiniteSetTheorems, SequenceTheorems, WellFoundedInduction, TLAPS

LEMMA FirstIsCandidate == 1 \in Candidates /\ Candidates \subseteq Nat
BY ChatAssumption DEF Candidates

LEMMA RequestedTyped ==
  ASSUME NEW requested \in SeqOf(Tools, MaxCalls)
  PROVE  requested \in Seq(Tools)
BY LoopAssumption DEF SeqOf

LEMMA InFlightTyped ==
  ASSUME TypeOK
  PROVE  InFlight \in Response
BY FirstIsCandidate DEF TypeOK, ChatTypeOK, InFlight, Response

\* Appending to the tokens, the errors, the messages and the log keeps their types.
LEMMA ShownTyped ==
  ASSUME TypeOK, NEW n \in Nat
  PROVE  Append(shown, [of |-> InFlight, part |-> n]) \in Seq(Token)
<1>1. [of |-> InFlight, part |-> n] \in Token
  BY InFlightTyped DEF Token
<1> QED
  BY <1>1 DEF TypeOK, ChatTypeOK

\* Every step of the provider call keeps its types, whoever takes it.
LEMMA ChatStepTyped ==
  ASSUME TypeOK, NEW requested, NEW length,
         Invoke \/ StreamPart \/ StreamBreaks \/ TryNext \/ AllFailed \/ Reply(requested, length)
  PROVE  ChatTypeOK'
<1> USE FirstIsCandidate DEF TypeOK, ChatTypeOK, Modes
<1>1. CASE Invoke
  BY <1>1 DEF Invoke, FirstMode
<1>2. CASE StreamPart
  <2>1. parts + 1 \in Nat
    OBVIOUS
  <2>2. shown' \in Seq(Token)
    BY <1>2, <2>1, ShownTyped DEF StreamPart
  <2> QED
    BY <1>2, <2>1, <2>2 DEF StreamPart
<1>3. CASE StreamBreaks
  BY <1>3 DEF StreamBreaks
<1>4. CASE RequestFails /\ endpoint' \in Candidates /\ mode' \in Modes
  BY <1>4 DEF RequestFails
<1>5. CASE TryNext
  BY <1>5, <1>4 DEF TryNext, FirstMode
<1>6. CASE AllFailed
  BY <1>6, <1>4 DEF AllFailed
<1>7. CASE Reply(requested, length)
  <2>1. Append(shown, [of |-> InFlight, part |-> 1]) \in Seq(Token)
    BY ShownTyped
  <2> QED
    BY <1>7, <2>1 DEF Reply, StreamReply, PlainReply, FallbackReply
<1> QED
  BY <1>1, <1>2, <1>3, <1>5, <1>6, <1>7

LEMMA CurrentTyped ==
  ASSUME TypeOK, next \in 1 .. Len(calls)
  PROVE  Current \in Call
BY DEF TypeOK, Current, Call

LEMMA TellTyped ==
  ASSUME TypeOK, Current \in Call, NEW type \in {"tool_call", "tool_result"}, Tell(type)
  PROVE  events' \in Seq(Event)
<1>1. [type |-> type, call |-> Current] \in Event
  BY DEF Event
<1> QED
  BY <1>1 DEF TypeOK, Tell

\* While a call is handled it is one of the reply's calls.
NextInv == phase = "tools" => next \in 1 .. Len(calls)

LEMMA SettleTyped ==
  ASSUME TypeOK, NextInv, phase = "tools", NEW outcome \in Outcomes, Settle(outcome)
  PROVE  TypeOK' /\ NextInv'
<1>1. Current \in Call
  BY CurrentTyped DEF NextInv
<1>2. events' \in Seq(Event)
  BY <1>1, TellTyped DEF Settle
<1>3. [role |-> "tool", call |-> Current, outcome |-> outcome] \in ToolMessage
  BY <1>1 DEF ToolMessage
<1>4. messages' \in Seq(AssistantMessage \cup ToolMessage)
  BY <1>3 DEF Settle, TypeOK
<1>5. UNCHANGED <<chatVars, calls, granted, executed>>
  BY DEF Settle
<1>6. CASE next < Len(calls)
  BY <1>2, <1>4, <1>5, <1>6 DEF Settle, Proceed, TypeOK, ChatTypeOK, NextInv, chatVars
<1>7. CASE ~(next < Len(calls))
  <2>1. [kind |-> "unable"] \in Final
    BY DEF Final
  <2>2. /\ step' \in Nat /\ final' \in Final /\ phase' \in {"chat", "returned"}
      /\ next' = next /\ stage' = "announce"
    BY <1>7, <2>1 DEF Settle, Proceed, TypeOK
  <2> QED
    BY <1>2, <1>4, <1>5, <2>2 DEF TypeOK, ChatTypeOK, NextInv, chatVars
<1> QED
  BY <1>6, <1>7

LEMMA InitTyped == Init => TypeOK /\ NextInv
<1> SUFFICES ASSUME Init PROVE TypeOK /\ NextInv
  OBVIOUS
<1>1. ChatTypeOK
  BY FirstIsCandidate DEF Init, ChatInit, ChatTypeOK, Modes
<1>2. final \in Final
  BY DEF Init, Final
<1> QED
  BY <1>1, <1>2 DEF Init, TypeOK, NextInv

LEMMA StepTyped == TypeOK /\ NextInv /\ [Next]_vars => TypeOK' /\ NextInv'
<1> SUFFICES ASSUME TypeOK, NextInv, [Next]_vars PROVE TypeOK' /\ NextInv'
  OBVIOUS
<1>1. CASE Ask
  <2>1. ChatTypeOK'
    BY <1>1, ChatStepTyped DEF Ask
  <2> QED
    BY <1>1, <2>1 DEF Ask, loopVars, TypeOK, NextInv
<1>2. CASE Wait
  <2>1. ChatTypeOK'
    BY <1>2, ChatStepTyped DEF Wait
  <2> QED
    BY <1>2, <2>1 DEF Wait, loopVars, TypeOK, NextInv
<1>3. CASE ModelFails
  <2>1. ChatTypeOK'
    BY <1>3, ChatStepTyped DEF ModelFails
  <2> QED
    BY <1>3, <2>1 DEF ModelFails, TypeOK, NextInv
<1>4. ASSUME NEW length \in 0 .. MaxParts + 1, Answer(length)
      PROVE  TypeOK' /\ NextInv'
  <2>1. ChatTypeOK'
    BY <1>4, ChatStepTyped DEF Answer
  <2>2. final' \in Final
    BY <1>4, InFlightTyped, ChatAssumption DEF Answer, Final
  <2>3. [role |-> "assistant", step |-> step, calls |-> <<>>] \in AssistantMessage
    BY DEF TypeOK, AssistantMessage
  <2>4. messages' \in Seq(AssistantMessage \cup ToolMessage)
    BY <1>4, <2>3 DEF Answer, TypeOK
  <2> QED
    BY <1>4, <2>1, <2>2, <2>4 DEF Answer, TypeOK, NextInv
<1>5. ASSUME NEW length \in 0 .. MaxParts + 1, NEW requested \in SeqOf(Tools, MaxCalls),
             CallTools(length, requested)
      PROVE  TypeOK' /\ NextInv'
  <2>1. ChatTypeOK'
    BY <1>5, ChatStepTyped DEF CallTools
  <2>2. requested \in Seq(Tools) /\ Len(requested) > 0
    BY <1>5, RequestedTyped DEF CallTools
  <2>3. [role |-> "assistant", step |-> step, calls |-> requested] \in AssistantMessage
    BY <2>2 DEF TypeOK, AssistantMessage
  <2>4. messages' \in Seq(AssistantMessage \cup ToolMessage)
    BY <1>5, <2>3 DEF CallTools, TypeOK
  <2> QED
    BY <1>5, <2>1, <2>2, <2>4 DEF CallTools, TypeOK, NextInv
<1>6. CASE Announce
  <2>1. events' \in Seq(Event)
    BY <1>6, CurrentTyped, TellTyped DEF Announce, Handling, NextInv
  <2> QED
    BY <1>6, <2>1 DEF Announce, TypeOK, ChatTypeOK, NextInv, chatVars
<1>7. CASE Approve
  <2>1. granted' \in SUBSET Call
    BY <1>7, CurrentTyped DEF Approve, Handling, NextInv, TypeOK
  <2> QED
    BY <1>7, <2>1 DEF Approve, TypeOK, ChatTypeOK, NextInv, chatVars
<1>8. CASE Execute
  <2>1. executed' \in Seq(Call)
    BY <1>8, CurrentTyped DEF Execute, Handling, NextInv, TypeOK
  <2> QED
    BY <1>8, <2>1 DEF Execute, TypeOK, ChatTypeOK, NextInv, chatVars
<1>9. CASE ToolRaises
  BY <1>9 DEF ToolRaises, TypeOK, ChatTypeOK, NextInv, chatVars
<1>10. CASE ToolReturns
  BY <1>10, SettleTyped DEF ToolReturns, Handling, Outcomes
<1>11. CASE Deny
  BY <1>11, SettleTyped DEF Deny, Handling, Outcomes
<1>12. CASE UnknownTool
  BY <1>12, SettleTyped DEF UnknownTool, Handling, Outcomes
<1>13. CASE UNCHANGED vars
  BY <1>13 DEF vars, chatVars, loopVars, TypeOK, ChatTypeOK, NextInv
<1> QED
  BY <1>1, <1>2, <1>3, <1>4, <1>5, <1>6, <1>7, <1>8, <1>9, <1>10, <1>11, <1>12, <1>13
  DEF Next, Ended

\* The state of the loop and of its provider calls is always of its types.
THEOREM TypeCorrect == Spec => []TypeOK
<1>1. Init => TypeOK /\ NextInv
  BY InitTyped
<1>2. TypeOK /\ NextInv /\ [Next]_vars => (TypeOK /\ NextInv)'
  BY StepTyped
<1> QED
  BY <1>1, <1>2, PTL DEF Spec
-----------------------------------------------------------------------------
(* The transcript *)

\* The position of the assistant message whose calls are being handled.
Turn == Len(messages) - (next - 1)

\* The calls before next are answered behind their assistant message.
TurnInv ==
  phase = "tools" =>
    /\ Turn \in DOMAIN messages
    /\ messages[Turn].role = "assistant"
    /\ messages[Turn].calls = calls
    /\ messages[Turn].step = step
    /\ \A p \in 1 .. next - 1 :
         /\ messages[Turn + p].role = "tool"
         /\ messages[Turn + p].call = [step |-> step, pos |-> p, tool |-> calls[p]]

\* Every other assistant message is answered in full.
AnsweredInv ==
  phase \in {"chat", "tools"} =>
    \A i \in DOMAIN messages :
      IF messages[i].role = "assistant"
      THEN AnswersAll(i) \/ (phase = "tools" /\ i = Turn)
      ELSE AnswersSome(i)

\* What holds of a message still holds when another is appended.
LEMMA AppendKeepsAnswers ==
  ASSUME TypeOK, NEW m \in AssistantMessage \cup ToolMessage, messages' = Append(messages, m),
         NEW i \in DOMAIN messages
  PROVE  /\ messages'[i] = messages[i]
         /\ AnswersAll(i) => AnswersAll(i)'
         /\ AnswersSome(i) => AnswersSome(i)'
<1>1. /\ messages \in Seq(AssistantMessage \cup ToolMessage)
      /\ DOMAIN messages = 1 .. Len(messages)
      /\ Len(messages') = Len(messages) + 1
      /\ \A j \in 1 .. Len(messages) : messages'[j] = messages[j]
  BY DEF TypeOK
<1>2. AnswersAll(i) => AnswersAll(i)'
  <2> SUFFICES ASSUME AnswersAll(i), NEW p \in 1 .. Len(messages[i].calls)
               PROVE  /\ i + p <= Len(messages')
                      /\ messages'[i + p].role = "tool"
                      /\ messages'[i + p].call =
                           [step |-> messages[i].step, pos |-> p, tool |-> messages[i].calls[p]]
    BY <1>1 DEF AnswersAll
  <2>1. i + p <= Len(messages)
    BY DEF AnswersAll
  <2>2. i \in Nat \ {0} /\ p \in Nat \ {0} /\ Len(messages) \in Nat
    BY <1>1
  <2>3. i + p \in 1 .. Len(messages)
    BY <2>1, <2>2
  <2> QED
    BY <1>1, <2>1, <2>2, <2>3 DEF AnswersAll
<1>3. AnswersSome(i) => AnswersSome(i)'
  <2> SUFFICES ASSUME AnswersSome(i) PROVE AnswersSome(i)'
    OBVIOUS
  <2>1. PICK j \in 1 .. i - 1 : messages[j].role = "assistant" /\ i - j <= Len(messages[j].calls)
    BY DEF AnswersSome
  <2>2. j \in 1 .. Len(messages)
    BY <1>1
  <2> QED
    BY <1>1, <2>1, <2>2 DEF AnswersSome
<1> QED
  BY <1>1, <1>2, <1>3

LEMMA SettleKeepsTranscript ==
  ASSUME TypeOK, NextInv, TurnInv, AnsweredInv, phase = "tools",
         NEW outcome \in Outcomes, Settle(outcome)
  PROVE  TurnInv' /\ AnsweredInv'
<1> DEFINE m == [role |-> "tool", call |-> Current, outcome |-> outcome]
<1>1. m \in AssistantMessage \cup ToolMessage /\ messages' = Append(messages, m)
  BY CurrentTyped DEF NextInv, ToolMessage, Settle
<1>2. /\ DOMAIN messages = 1 .. Len(messages)
      /\ DOMAIN messages' = 1 .. Len(messages')
      /\ Len(messages) \in Nat
      /\ Len(messages') = Len(messages) + 1
      /\ messages'[Len(messages) + 1] = m
      /\ \A i \in 1 .. Len(messages) : messages'[i] = messages[i]
  BY <1>1 DEF TypeOK
<1>3. /\ Turn \in 1 .. Len(messages) /\ next \in 1 .. Len(calls) /\ next \in Nat
      /\ Turn + next = Len(messages) + 1
  BY <1>2 DEF TypeOK, NextInv, TurnInv, Turn
<1>4. /\ messages'[Turn].role = "assistant"
      /\ messages'[Turn].calls = calls
      /\ messages'[Turn].step = step
      /\ \A p \in 1 .. next :
           /\ messages'[Turn + p].role = "tool"
           /\ messages'[Turn + p].call = [step |-> step, pos |-> p, tool |-> calls[p]]
  <2>1. messages'[Turn] = messages[Turn]
    BY <1>2, <1>3
  <2>2. ASSUME NEW p \in 1 .. next
        PROVE  /\ messages'[Turn + p].role = "tool"
               /\ messages'[Turn + p].call = [step |-> step, pos |-> p, tool |-> calls[p]]
    <3>1. CASE p = next
      BY <1>2, <1>3, <3>1 DEF Current
    <3>2. CASE p \in 1 .. next - 1
      <4>1. Turn + p \in 1 .. Len(messages)
        BY <1>3, <3>2
      <4> QED
        BY <1>2, <3>2, <4>1 DEF TurnInv
    <3> QED
      BY <1>3, <3>1, <3>2
  <2> QED
    BY <2>1, <2>2 DEF TurnInv
<1>5. \E j \in 1 .. (Len(messages) + 1) - 1 :
        /\ messages'[j].role = "assistant"
        /\ (Len(messages) + 1) - j <= Len(messages'[j].calls)
  <2>1. Turn \in 1 .. (Len(messages) + 1) - 1 /\ (Len(messages) + 1) - Turn <= Len(calls)
    BY <1>2, <1>3 DEF TypeOK
  <2> QED
    BY <1>4, <2>1
\* Away from the turn every message keeps what holds of it.
<1>6. ASSUME NEW i \in DOMAIN messages', i # Turn
      PROVE  IF messages'[i].role = "assistant" THEN AnswersAll(i)' ELSE AnswersSome(i)'
  <2>1. CASE i = Len(messages) + 1
    <3>1. messages'[i].role = "tool"
      BY <1>2, <2>1
    <3>2. AnswersSome(i)'
      BY <1>5, <2>1 DEF AnswersSome
    <3> QED
      BY <3>1, <3>2
  <2>2. CASE i \in DOMAIN messages
    <3>1. IF messages[i].role = "assistant" THEN AnswersAll(i) ELSE AnswersSome(i)
      BY <1>6, <2>2 DEF AnsweredInv
    <3> QED
      BY <1>1, <2>2, <3>1, AppendKeepsAnswers
  <2> QED
    BY <1>2, <1>6, <2>1, <2>2
<1>7. calls' = calls
  BY DEF Settle
<1>8. CASE next < Len(calls)
  <2>1. next' = next + 1 /\ phase' = phase /\ step' = step
    BY <1>8 DEF Settle, Proceed
  <2>2. Turn' = Turn
    BY <1>2, <1>3, <2>1 DEF Turn
  <2>3. next' - 1 = next
    BY <1>3, <2>1
  <2>4. TurnInv'
    BY <1>2, <1>3, <1>4, <1>7, <2>1, <2>2, <2>3 DEF TurnInv
  <2>5. AnsweredInv'
    BY <1>4, <1>6, <2>1, <2>2 DEF AnsweredInv
  <2> QED
    BY <2>4, <2>5
<1>9. CASE ~(next < Len(calls))
  <2>1. phase' \in {"chat", "returned"} /\ next = Len(calls)
    BY <1>3, <1>9 DEF Settle, Proceed, TypeOK
  <2>2. messages'[Turn].role = "assistant" /\ \A i : i = Turn => AnswersAll(i)'
    BY <1>2, <1>3, <1>4, <2>1 DEF AnswersAll
  <2>3. AnsweredInv'
    BY <1>6, <2>1, <2>2 DEF AnsweredInv
  <2> QED
    BY <2>1, <2>3 DEF TurnInv
<1> QED
  BY <1>8, <1>9

\* A request is in flight only while the loop waits for it.
RequestInv == mode # "idle" => phase = "chat"

TranscriptInv == TypeOK /\ NextInv /\ RequestInv /\ TurnInv /\ AnsweredInv

LEMMA StepKeepsRequest ==
  ASSUME TypeOK, RequestInv, [Next]_vars
  PROVE  RequestInv'
<1> USE DEF RequestInv
<1>1. CASE Ask
  BY <1>1 DEF Ask, loopVars
<1>2. CASE Wait
  BY <1>2 DEF Wait, loopVars, StreamPart, StreamBreaks, TryNext, RequestFails
<1>3. CASE ModelFails
  BY <1>3 DEF ModelFails, AllFailed
<1>4. ASSUME NEW length, NEW requested, Answer(length) \/ CallTools(length, requested)
      PROVE  mode' = "idle"
  BY <1>4 DEF Answer, CallTools, Reply, StreamReply, PlainReply, FallbackReply
<1>5. CASE Announce \/ Approve \/ Execute
  BY <1>5 DEF Announce, Approve, Execute, chatVars
<1>6. ASSUME phase = "tools", UNCHANGED chatVars
      PROVE  mode' = "idle"
  BY <1>6 DEF chatVars
<1>7. CASE ToolRaises \/ ToolReturns \/ Deny \/ UnknownTool
  BY <1>6, <1>7 DEF ToolRaises, ToolReturns, Deny, UnknownTool, Handling, Settle
<1>8. CASE UNCHANGED vars
  BY <1>8 DEF vars, chatVars, loopVars
<1> QED
  BY <1>1, <1>2, <1>3, <1>4, <1>5, <1>7, <1>8 DEF Next, Ended

LEMMA UnchangedKeepsTranscript ==
  ASSUME TypeOK, TurnInv, AnsweredInv,
         UNCHANGED <<step, messages, calls, next>>, phase' = phase \/ phase' = "raised"
  PROVE  TurnInv' /\ AnsweredInv'
<1>1. Turn' = Turn /\ \A i : AnswersAll(i)' = AnswersAll(i) /\ AnswersSome(i)' = AnswersSome(i)
  BY DEF Turn, AnswersAll, AnswersSome
<1> QED
  BY <1>1 DEF TurnInv, AnsweredInv

LEMMA CallToolsKeepsTranscript ==
  ASSUME TranscriptInv, NEW length, NEW requested \in Seq(Tools), CallTools(length, requested)
  PROVE  TurnInv' /\ AnsweredInv'
<1> DEFINE m == [role |-> "assistant", step |-> step, calls |-> requested]
<1>1. phase = "chat" /\ phase' = "tools" /\ next' = 1 /\ calls' = requested /\ step' = step
  BY DEF CallTools, Reply, StreamReply, PlainReply, FallbackReply, TranscriptInv, RequestInv
<1>2. m \in AssistantMessage \cup ToolMessage /\ messages' = Append(messages, m)
  BY DEF AssistantMessage, CallTools, TranscriptInv, TypeOK
<1>3. /\ DOMAIN messages = 1 .. Len(messages)
      /\ DOMAIN messages' = 1 .. Len(messages')
      /\ Len(messages) \in Nat
      /\ Len(messages') = Len(messages) + 1
      /\ messages'[Len(messages) + 1] = m
      /\ \A i \in 1 .. Len(messages) : messages'[i] = messages[i]
  BY <1>2 DEF TranscriptInv, TypeOK
<1>4. Turn' = Len(messages) + 1
  BY <1>1, <1>3 DEF Turn
<1>5. TurnInv'
  BY <1>1, <1>3, <1>4 DEF TurnInv
<1>6. ASSUME NEW i \in DOMAIN messages
      PROVE  IF messages'[i].role = "assistant" THEN AnswersAll(i)' ELSE AnswersSome(i)'
  <2>1. IF messages[i].role = "assistant" THEN AnswersAll(i) ELSE AnswersSome(i)
    BY <1>1 DEF TranscriptInv, AnsweredInv
  <2> QED
    BY <1>2, <2>1, AppendKeepsAnswers DEF TranscriptInv
<1>7. AnsweredInv'
  BY <1>1, <1>3, <1>4, <1>6 DEF AnsweredInv
<1> QED
  BY <1>5, <1>7

LEMMA StepKeepsTranscript == TranscriptInv /\ [Next]_vars => TranscriptInv'
<1> SUFFICES ASSUME TranscriptInv, [Next]_vars PROVE TurnInv' /\ AnsweredInv'
  BY StepTyped, StepKeepsRequest DEF TranscriptInv
<1> USE DEF TranscriptInv
<1>1. CASE Ask \/ Wait \/ ModelFails
  BY <1>1, UnchangedKeepsTranscript DEF Ask, Wait, ModelFails, loopVars
<1>2. ASSUME NEW length, Answer(length) PROVE phase' = "returned"
  BY <1>2 DEF Answer
<1>3. ASSUME NEW length, NEW requested \in SeqOf(Tools, MaxCalls), CallTools(length, requested)
      PROVE  TurnInv' /\ AnsweredInv'
  BY <1>3, RequestedTyped, CallToolsKeepsTranscript
<1>4. CASE Announce \/ Approve \/ Execute \/ ToolRaises
  BY <1>4, UnchangedKeepsTranscript DEF Announce, Approve, Execute, ToolRaises
<1>5. CASE ToolReturns \/ Deny \/ UnknownTool
  BY <1>5, SettleKeepsTranscript DEF ToolReturns, Deny, UnknownTool, Handling, Outcomes
<1>6. CASE UNCHANGED vars
  BY <1>6, UnchangedKeepsTranscript DEF vars, loopVars
<1>7. phase' = "returned" => TurnInv' /\ AnsweredInv'
  BY DEF TurnInv, AnsweredInv
<1> QED
  BY <1>1, <1>2, <1>3, <1>4, <1>5, <1>6, <1>7 DEF Next, Ended

\* Whenever the model is asked, every tool call of the transcript has its answer in
\* its place: whatever the model asked for, whoever denied it, however often the
\* requests failed (loop.py 81-130).
THEOREM TranscriptIsWellFormed == Spec => []TranscriptProtocol
<1>1. Init => TranscriptInv
  BY InitTyped DEF Init, ChatInit, TranscriptInv, RequestInv, TurnInv, AnsweredInv
<1>2. TranscriptInv /\ [Next]_vars => TranscriptInv'
  BY StepKeepsTranscript
<1>3. TranscriptInv => TranscriptProtocol
  BY DEF TranscriptInv, AnsweredInv, TranscriptProtocol
<1> QED
  BY <1>1, <1>2, <1>3, PTL DEF Spec
-----------------------------------------------------------------------------
(* The gate *)

\* The call was handled before the one that is being handled.
Before(c) ==
  c.step < step \/ (c.step = step /\ phase \in {"tools", "raised"} /\ c.pos < next)

\* The handler of the current call has been invoked, and only this once.
RunningInv ==
  /\ \A i \in DOMAIN executed :
       \/ Before(executed[i])
       \/ /\ phase \in {"tools", "raised"} /\ stage = "executed"
          /\ i = Len(executed) /\ executed[i] = Current
  /\ phase = "tools" /\ stage = "executed" =>
       Len(executed) > 0 /\ executed[Len(executed)] = Current

OnceInv == \A i, j \in DOMAIN executed : executed[i] = executed[j] => i = j

Permitted(c) == c.tool \in offered /\ (Asking /\ c.tool \in HighRisk => c \in granted)

PermissionInv ==
  /\ \A i \in DOMAIN executed : Permitted(executed[i])
  /\ phase = "tools" /\ stage = "approved" => Current \in granted

Ran(c) == \E i \in DOMAIN executed : executed[i] = c

OutcomeInv ==
  \A k \in DOMAIN messages :
    messages[k].role = "tool" =>
      Before(messages[k].call) /\ (messages[k].outcome = "ran" <=> Ran(messages[k].call))

GateInv == /\ TypeOK /\ NextInv /\ RequestInv
           /\ RunningInv /\ OnceInv /\ PermissionInv /\ OutcomeInv

\* A step that neither runs nor answers a call, and leaves the past behind it.
LEMMA QuietKeepsGate ==
  ASSUME GateInv, UNCHANGED <<step, offered, executed>>, granted \subseteq granted',
         \A c \in Call : Before(c) => Before(c)',
         \/ UNCHANGED <<messages, calls, next>> /\ (phase' = phase \/ phase' = "raised")
            /\ (stage' = stage \/ (stage # "executed" /\ stage' # "executed"))
         \/ phase = "chat" /\ ~(phase' = "tools" /\ stage' = "executed"),
         phase' = "tools" /\ stage' = "approved" => Current' \in granted',
         messages' = messages \/
           \E m \in AssistantMessage : messages' = Append(messages, m)
  PROVE  RunningInv' /\ OnceInv' /\ PermissionInv' /\ OutcomeInv'
<1>1. /\ executed \in Seq(Call) /\ messages \in Seq(AssistantMessage \cup ToolMessage)
      /\ \A i \in DOMAIN executed : executed[i] \in Call
  BY DEF GateInv, TypeOK
<1>2. RunningInv'
  BY <1>1 DEF GateInv, RunningInv, Current, Before
<1>3. OnceInv'
  BY DEF GateInv, OnceInv
<1>4. PermissionInv'
  BY DEF GateInv, PermissionInv, Permitted
<1>5. \A c : Ran(c)' = Ran(c)
  BY DEF Ran
<1>6. \A k \in DOMAIN messages : messages[k].role = "tool" => messages[k].call \in Call
  BY <1>1 DEF AssistantMessage, ToolMessage
<1>7. messages' = messages => OutcomeInv'
  BY <1>5, <1>6 DEF GateInv, OutcomeInv
<1>8. ASSUME NEW m \in AssistantMessage, messages' = Append(messages, m)
      PROVE  OutcomeInv'
  <2>1. m.role = "assistant"
    BY DEF AssistantMessage
  <2>2. \A k \in DOMAIN messages' : messages'[k].role = "tool" =>
          k \in DOMAIN messages /\ messages'[k] = messages[k]
    BY <1>1, <1>8, <2>1
  <2> QED
    BY <1>5, <1>6, <2>2 DEF GateInv, OutcomeInv
<1> QED
  BY <1>2, <1>3, <1>4, <1>7, <1>8

\* The current call is not behind itself.
LEMMA CurrentIsNew ==
  ASSUME GateInv, phase = "tools"
  PROVE  /\ Current \in Call /\ ~Before(Current)
         /\ stage # "executed" => ~Ran(Current)
<1>1. Current \in Call /\ Current.step = step /\ Current.pos = next /\ step \in Nat /\ next \in Nat
  BY CurrentTyped DEF GateInv, NextInv, TypeOK, Current
<1>2. ~Before(Current)
  BY <1>1 DEF Before
<1> QED
  BY <1>1, <1>2 DEF GateInv, RunningInv, Ran

LEMMA ExecuteKeepsGate ==
  ASSUME GateInv, Execute
  PROVE  RunningInv' /\ OnceInv' /\ PermissionInv' /\ OutcomeInv'
<1>1. /\ phase = "tools" /\ stage # "executed" /\ stage' = "executed"
      /\ executed' = Append(executed, Current)
      /\ UNCHANGED <<offered, phase, step, messages, calls, next, granted>>
  BY DEF Execute, Handling, chatVars
<1>2. Current \in Call /\ ~Before(Current) /\ ~Ran(Current)
  BY <1>1, CurrentIsNew
<1>3. /\ DOMAIN executed = 1 .. Len(executed) /\ Len(executed) \in Nat
      /\ DOMAIN executed' = 1 .. Len(executed) + 1 /\ Len(executed') = Len(executed) + 1
      /\ executed'[Len(executed) + 1] = Current
      /\ \A i \in 1 .. Len(executed) : executed'[i] = executed[i]
  BY <1>1, <1>2 DEF GateInv, TypeOK
<1>4. Current' = Current /\ \A c : Before(c)' = Before(c)
  BY <1>1 DEF Current, Before
<1>5. RunningInv'
  BY <1>1, <1>3, <1>4 DEF GateInv, RunningInv
<1>6. OnceInv'
  BY <1>2, <1>3 DEF GateInv, OnceInv, Ran
<1>7. Permitted(Current)
  BY <1>1 DEF Execute, Handling, NeedsApproval, GateInv, PermissionInv, Permitted, Current
<1>8. PermissionInv'
  BY <1>1, <1>3, <1>7 DEF GateInv, PermissionInv, Permitted
<1>9. ASSUME NEW c, Before(c) PROVE Ran(c)' = Ran(c)
  <2>1. c # Current
    BY <1>2, <1>9
  <2> QED
    BY <1>3, <2>1 DEF Ran
<1>10. OutcomeInv'
  BY <1>1, <1>4, <1>9 DEF GateInv, OutcomeInv
<1> QED
  BY <1>5, <1>6, <1>8, <1>10

LEMMA SettleKeepsGate ==
  ASSUME GateInv, phase = "tools", NEW outcome \in Outcomes, Settle(outcome),
         outcome = "ran" <=> stage = "executed"
  PROVE  RunningInv' /\ OnceInv' /\ PermissionInv' /\ OutcomeInv'
<1> DEFINE m == [role |-> "tool", call |-> Current, outcome |-> outcome]
<1>1. /\ UNCHANGED <<offered, executed, granted>> /\ stage' = "announce"
      /\ messages' = Append(messages, m) /\ m \in ToolMessage
  BY CurrentIsNew DEF Settle, Proceed, chatVars, ToolMessage
<1>2. Current \in Call /\ Current.step = step /\ Current.pos = next
  BY CurrentIsNew DEF Current
<1>3. \A c \in Call : c = Current \/ Before(c) => Before(c)'
  BY <1>2 DEF Settle, Proceed, Before, Call, GateInv, TypeOK
<1>4. outcome = "ran" <=> Ran(Current)
  BY CurrentIsNew DEF GateInv, RunningInv, Ran, TypeOK
<1>5. RunningInv'
  BY <1>1, <1>3 DEF GateInv, RunningInv, TypeOK
<1>6. OnceInv' /\ PermissionInv'
  BY <1>1 DEF GateInv, OnceInv, PermissionInv, Permitted
<1>7. \A c : Ran(c)' = Ran(c)
  BY <1>1 DEF Ran
<1>8. /\ DOMAIN messages = 1 .. Len(messages) /\ Len(messages) \in Nat
      /\ DOMAIN messages' = 1 .. Len(messages) + 1
      /\ messages'[Len(messages) + 1] = m
      /\ \A k \in 1 .. Len(messages) : messages'[k] = messages[k]
      /\ \A k \in 1 .. Len(messages) : messages[k].role = "tool" => messages[k].call \in Call
  BY <1>1 DEF GateInv, TypeOK, AssistantMessage, ToolMessage
<1>9. OutcomeInv'
  BY <1>2, <1>3, <1>4, <1>7, <1>8 DEF GateInv, OutcomeInv
<1> QED
  BY <1>5, <1>6, <1>9

LEMMA StepKeepsGate == GateInv /\ [Next]_vars => GateInv'
<1> SUFFICES ASSUME GateInv, [Next]_vars
             PROVE  RunningInv' /\ OnceInv' /\ PermissionInv' /\ OutcomeInv'
  BY StepTyped, StepKeepsRequest DEF GateInv
<1>1. CASE (Ask \/ Wait) \/ UNCHANGED vars
  <2>1. UNCHANGED loopVars /\ UNCHANGED offered
    BY <1>1 DEF Ask, Wait, Invoke, StreamPart, StreamBreaks, TryNext, RequestFails, vars, chatVars
  <2>2. Current' = Current /\ \A c : Before(c)' = Before(c)
    BY <2>1 DEF loopVars, Current, Before
  <2>3. phase' = "tools" /\ stage' = "approved" => Current' \in granted'
    BY <2>1, <2>2 DEF loopVars, GateInv, PermissionInv
  <2>4. UNCHANGED <<step, offered, executed, messages, calls, next, phase, stage, granted>>
    BY <2>1 DEF loopVars
  <2> QED
    BY <2>2, <2>3, <2>4, QuietKeepsGate
<1>2. CASE ModelFails
  BY <1>2, QuietKeepsGate DEF ModelFails, AllFailed, RequestFails, Before
<1>3. ASSUME NEW length, NEW requested, Reply(requested, length)
      PROVE  phase = "chat" /\ UNCHANGED offered
  BY <1>3 DEF Reply, StreamReply, PlainReply, FallbackReply, GateInv, RequestInv
<1>4. ASSUME NEW length, Answer(length)
      PROVE  RunningInv' /\ OnceInv' /\ PermissionInv' /\ OutcomeInv'
  <2>1. [role |-> "assistant", step |-> step, calls |-> <<>>] \in AssistantMessage
    BY DEF AssistantMessage, GateInv, TypeOK
  <2>2. phase = "chat" /\ UNCHANGED offered /\ phase' = "returned" /\ UNCHANGED <<step, executed, granted>>
    BY <1>3, <1>4 DEF Answer
  <2>3. \A c \in Call : Before(c) => Before(c)'
    BY <2>2 DEF Before
  <2> QED
    BY <1>4, <2>1, <2>2, <2>3, QuietKeepsGate DEF Answer
<1>5. ASSUME NEW length, NEW requested \in SeqOf(Tools, MaxCalls), CallTools(length, requested)
      PROVE  RunningInv' /\ OnceInv' /\ PermissionInv' /\ OutcomeInv'
  <2>1. [role |-> "assistant", step |-> step, calls |-> requested] \in AssistantMessage
    BY RequestedTyped DEF AssistantMessage, GateInv, TypeOK
  <2>2. /\ phase = "chat" /\ phase' = "tools" /\ stage' = "announce"
        /\ UNCHANGED <<offered, step, executed, granted>>
    BY <1>3, <1>5 DEF CallTools
  <2>3. \A c \in Call : Before(c) => Before(c)'
    BY <2>2 DEF Before
  <2> QED
    BY <1>5, <2>1, <2>2, <2>3, QuietKeepsGate DEF CallTools
<1>6. CASE Announce
  <2>1. /\ UNCHANGED <<offered, phase, step, messages, calls, next, granted, executed>>
        /\ stage # "executed" /\ stage' = "decide"
    BY <1>6 DEF Announce, Handling, chatVars
  <2> QED
    BY <2>1, QuietKeepsGate DEF Before
<1>7. CASE Approve
  <2>1. /\ UNCHANGED <<offered, phase, step, messages, calls, next, executed>>
        /\ stage # "executed" /\ stage' = "approved"
        /\ granted' = granted \cup {Current} /\ Current' = Current
    BY <1>7 DEF Approve, Handling, chatVars, Current
  <2> QED
    BY <2>1, QuietKeepsGate DEF Before
<1>8. CASE Execute
  BY <1>8, ExecuteKeepsGate
<1>9. CASE ToolRaises
  <2>1. /\ UNCHANGED <<offered, step, messages, calls, next, stage, granted, executed>>
        /\ phase = "tools" /\ phase' = "raised"
    BY <1>9 DEF ToolRaises, Handling, chatVars
  <2> QED
    BY <2>1, QuietKeepsGate DEF Before
<1>10. CASE ToolReturns \/ Deny \/ UnknownTool
  BY <1>10, SettleKeepsGate DEF ToolReturns, Deny, UnknownTool, Handling, Outcomes
<1> QED
  BY <1>1, <1>2, <1>4, <1>5, <1>6, <1>7, <1>8, <1>9, <1>10 DEF Next, Ended

\* A handler runs at most once for a call, only for a registered tool, and, when there
\* is a user to ask, for a high-risk tool only after this very call was approved; the
\* transcript says "ran" of exactly the calls that ran (loop.py 101-112).
THEOREM ToolsAreGated == Spec => []ToolsGated
<1>1. Init => GateInv
  BY InitTyped DEF Init, ChatInit, GateInv, RequestInv, RunningInv, OnceInv, PermissionInv,
     OutcomeInv
<1>2. GateInv /\ [Next]_vars => GateInv'
  BY StepKeepsGate
<1>3. GateInv => ToolsGated
  BY DEF GateInv, OnceInv, PermissionInv, Permitted, OutcomeInv, Ran, ToolsGated
<1> QED
  BY <1>1, <1>2, <1>3, PTL DEF Spec
-----------------------------------------------------------------------------
(* The endpoints *)

\* The errors of a call are those of the endpoints before the one being tried.
TriedInv ==
  /\ \A k \in DOMAIN errors : errors[k] = k
  /\ mode # "idle" => Len(errors) = endpoint - 1
  /\ phase = "raised" => {errors[k] : k \in DOMAIN errors} = Candidates \/ stage = "executed"

FailoverInv == TypeOK /\ NextInv /\ RequestInv /\ TriedInv

\* An endpoint that fails is the next one in the list of errors.
LEMMA FailureIsKept ==
  ASSUME FailoverInv, RequestFails
  PROVE  /\ errors' \in Seq(Candidates) /\ Len(errors') = endpoint
         /\ \A k \in DOMAIN errors' : errors'[k] = k
         /\ DOMAIN errors' = 1 .. endpoint
<1>1. errors \in Seq(Candidates) /\ endpoint \in Candidates /\ endpoint \in Nat
  BY FirstIsCandidate DEF FailoverInv, TypeOK, ChatTypeOK
<1>2. mode # "idle" /\ errors' = Append(errors, endpoint)
  BY DEF RequestFails
<1>3. Len(errors) = endpoint - 1 /\ \A k \in DOMAIN errors : errors[k] = k
  BY <1>2 DEF FailoverInv, TriedInv
<1>4. /\ errors' \in Seq(Candidates) /\ Len(errors') = Len(errors) + 1
      /\ \A k \in 1 .. Len(errors) : errors'[k] = errors[k]
      /\ errors'[Len(errors) + 1] = endpoint
  BY <1>1, <1>2, AppendProperties
<1>5. DOMAIN errors' = 1 .. endpoint
  BY <1>1, <1>3, <1>4
<1> QED
  BY <1>1, <1>3, <1>4, <1>5

\* The candidates are the first endpoints.
LEMMA CandidatesUpTo ==
  ASSUME NEW e \in Candidates, e + 1 \notin Candidates
  PROVE  Candidates = 1 .. e
BY ChatAssumption DEF Candidates

LEMMA StepKeepsFailover == FailoverInv /\ [Next]_vars => FailoverInv'
<1> SUFFICES ASSUME FailoverInv, [Next]_vars
             PROVE  TriedInv'
  BY StepTyped, StepKeepsRequest DEF FailoverInv
<1> USE DEF FailoverInv
<1>1. CASE Ask
  <2>1. errors' = <<>> /\ endpoint' = 1 /\ phase' = "chat" /\ phase = "chat"
    BY <1>1 DEF Ask, Invoke, loopVars
  <2> QED
    BY <2>1, EmptySeq DEF TriedInv
<1>2. CASE Wait
  <2>1. phase' = phase /\ stage' = stage /\ mode # "idle"
    BY <1>2 DEF Wait, loopVars, StreamPart, StreamBreaks, TryNext, RequestFails
  <2>2. phase = "chat"
    BY <2>1 DEF RequestInv
  <2>3. CASE StreamPart \/ StreamBreaks
    BY <2>1, <2>2, <2>3 DEF StreamPart, StreamBreaks, TriedInv
  <2>4. CASE TryNext
    <3>1. RequestFails /\ endpoint' = endpoint + 1 /\ endpoint \in Nat
      BY <2>4, FirstIsCandidate DEF TryNext, TypeOK, ChatTypeOK
    <3> QED
      BY <2>1, <2>2, <3>1, FailureIsKept DEF TriedInv
  <2> QED
    BY <1>2, <2>3, <2>4 DEF Wait
<1>3. CASE ModelFails
  <2>1. RequestFails /\ endpoint + 1 \notin Candidates /\ mode' = "idle"
    BY <1>3 DEF ModelFails, AllFailed
  <2>2. Candidates = 1 .. endpoint
    BY <2>1, CandidatesUpTo DEF TypeOK, ChatTypeOK
  <2>3. {errors'[k] : k \in DOMAIN errors'} = 1 .. endpoint
    BY <2>1, FailureIsKept
  <2> QED
    BY <2>1, <2>2, <2>3, FailureIsKept DEF TriedInv
<1>4. CASE UNCHANGED errors /\ mode' = "idle" /\ phase' # "raised"
  BY <1>4 DEF TriedInv
<1>5. ASSUME NEW length, NEW requested, Reply(requested, length)
      PROVE  UNCHANGED errors /\ mode' = "idle"
  BY <1>5 DEF Reply, StreamReply, PlainReply, FallbackReply
<1>6. CASE \E length \in 0 .. MaxParts + 1 :
             Answer(length) \/ \E requested \in SeqOf(Tools, MaxCalls) : CallTools(length, requested)
  BY <1>4, <1>5, <1>6 DEF Answer, CallTools
<1>7. CASE UNCHANGED vars
  BY <1>7 DEF vars, chatVars, loopVars, TriedInv
<1>8. CASE Handling("announce") \/ Handling("decide") \/ Handling("approved") \/ Handling("executed")
  <2>1. phase = "tools" /\ mode = "idle"
    BY <1>8 DEF Handling, RequestInv, TypeOK, ChatTypeOK
  <2>2. CASE UNCHANGED chatVars /\ phase' # "raised"
    BY <2>1, <2>2 DEF chatVars, TriedInv
  <2>3. CASE ToolRaises
    BY <2>1, <2>3 DEF ToolRaises, Handling, chatVars, TriedInv
  <2>4. CASE Announce \/ Approve \/ Execute \/ ToolReturns \/ Deny \/ UnknownTool
    BY <2>1, <2>2, <2>4 DEF Announce, Approve, Execute, ToolReturns, Deny, UnknownTool, Settle, Proceed
  <2> QED
    BY <1>1, <1>2, <1>3, <1>6, <1>7, <2>3, <2>4 DEF Next, Ended
<1> QED
  BY <1>1, <1>2, <1>3, <1>6, <1>8, <1>7
  DEF Next, Ended, Announce, Approve, Execute, ToolRaises, ToolReturns, Deny, UnknownTool

\* The endpoints of a call are tried in order and each at most once, and a run that
\* raises without a handler's exception has tried them all (manager.py 241-322).
THEOREM FailoverIsInOrder == Spec => []FailoverInOrder
<1>1. Init => FailoverInv
  BY InitTyped, EmptySeq DEF Init, ChatInit, FailoverInv, RequestInv, TriedInv
<1>2. FailoverInv /\ [Next]_vars => FailoverInv'
  BY StepKeepsFailover
<1>3. FailoverInv => FailoverInOrder
  BY DEF FailoverInv, TriedInv, FailoverInOrder
<1> QED
  BY <1>1, <1>2, <1>3, PTL DEF Spec
-----------------------------------------------------------------------------
(* The answer and what was shown *)

ShownBefore(k) ==
  /\ shown[k].of.chat <= chat
  /\ shown[k].of.chat = chat => shown[k].of.endpoint <= endpoint

\* The stream's chunks are the last that were shown; a plain request begins with
\* nothing shown for its endpoint.
ShownInv ==
  /\ \A k \in DOMAIN shown : ShownBefore(k)
  /\ mode = "plain" => \A k \in DOMAIN shown :
       <<shown[k].of.chat, shown[k].of.endpoint>> # <<chat, endpoint>>
  /\ mode = "stream" =>
       /\ parts <= Len(shown)
       /\ \A k \in 1 .. parts : shown[(Len(shown) - parts) + k] = [of |-> InFlight, part |-> k]
  /\ mode = "fallback" /\ parts > 0 =>
       /\ shown # <<>>
       /\ Last(shown).of = [chat |-> chat, endpoint |-> endpoint, mode |-> "stream"]

AnswerInv == TypeOK /\ NextInv /\ RequestInv /\ ShownInv /\ AnswerIsShown

LEMMA SuffixByIndex ==
  ASSUME NEW X, NEW s \in Seq(X), NEW t \in Seq(X), Len(s) <= Len(t),
         \A k \in 1 .. Len(s) : t[(Len(t) - Len(s)) + k] = s[k]
  PROVE  IsSuffix(s, t)
<1> DEFINE m == Len(s)
           n == Len(t)
           A == SubSeq(Reverse(s), 1, m)
           B == SubSeq(Reverse(t), 1, m)
<1>1. m \in Nat /\ n \in Nat
  OBVIOUS
<1>2. /\ Reverse(s) \in Seq(X) /\ Len(Reverse(s)) = m
      /\ \A i \in 1 .. m : Reverse(s)[i] = s[(m - i) + 1]
  <2>1. \A i \in 1 .. m : s[(m - i) + 1] \in X
    BY <1>1, ElementOfSeq
  <2> QED
    BY <1>1, <2>1, IsASeq DEF Reverse
<1>3. /\ Reverse(t) \in Seq(X) /\ Len(Reverse(t)) = n
      /\ \A i \in 1 .. n : Reverse(t)[i] = t[(n - i) + 1]
  <2>1. \A i \in 1 .. n : t[(n - i) + 1] \in X
    BY <1>1, ElementOfSeq
  <2> QED
    BY <1>1, <2>1, IsASeq DEF Reverse
<1> HIDE DEF m, n
<1>4. m <= n /\ \A k \in 1 .. m : t[(n - m) + k] = s[k]
  BY DEF m, n
<1>5. \A i \in 1 .. m : Reverse(s)[i] = Reverse(t)[i]
  <2> SUFFICES ASSUME NEW i \in 1 .. m
               PROVE  Reverse(s)[i] = Reverse(t)[i]
    OBVIOUS
  <2>1. (m - i) + 1 \in 1 .. m /\ i \in 1 .. n /\ (n - m) + ((m - i) + 1) = (n - i) + 1
    BY <1>1, <1>4
  <2> QED
    BY <1>2, <1>3, <1>4, <2>1
<1>6. /\ A \in Seq(X) /\ Len(A) = m /\ \A i \in 1 .. m : A[i] = Reverse(s)[i]
      /\ B \in Seq(X) /\ Len(B) = m /\ \A i \in 1 .. m : B[i] = Reverse(t)[i]
  <2>1. \A i \in 1 .. m : Reverse(s)[i] \in X /\ Reverse(t)[i] \in X
    BY <1>1, <1>2, <1>3, <1>4, ElementOfSeq
  <2>2. m - 1 + 1 = m /\ (1 <= m \/ m = 0) /\ \A i \in 1 .. m : 1 + i - 1 = i
    BY <1>1
  <2> QED
    BY <1>1, <2>1, <2>2, SubSeqProperties
<1>7. A = B
  <2> HIDE DEF A, B
  <2> QED
    BY <1>5, <1>6, SeqEqual
<1> QED
  BY <1>2, <1>3, <1>4, <1>7 DEF IsSuffix, IsPrefix

LEMMA WholeTyped ==
  ASSUME NEW text, text.of \in Response, text.length \in Nat
  PROVE  /\ Whole(text) \in Seq(Token) /\ Len(Whole(text)) = text.length
         /\ \A k \in 1 .. text.length : Whole(text)[k] = [of |-> text.of, part |-> k]
<1>1. \A k \in 1 .. text.length : [of |-> text.of, part |-> k] \in Token
  BY DEF Token
<1> QED
  BY <1>1, IsASeq DEF Whole

LEMMA ShownBounds ==
  ASSUME TypeOK, NEW k \in DOMAIN shown
  PROVE  /\ shown[k].of.chat \in Nat /\ shown[k].of.endpoint \in Nat
         /\ chat \in Nat /\ endpoint \in Nat
<1>1. shown[k] \in Token
  BY DEF TypeOK, ChatTypeOK
<1> QED
  BY <1>1, FirstIsCandidate DEF Token, Response, TypeOK, ChatTypeOK

\* A token that is appended is the last one, of the request in flight.
LEMMA TokenAppended ==
  ASSUME TypeOK, NEW n \in Nat, shown' = Append(shown, [of |-> InFlight, part |-> n])
  PROVE  /\ Len(shown) \in Nat /\ Len(shown') = Len(shown) + 1
         /\ DOMAIN shown = 1 .. Len(shown) /\ DOMAIN shown' = 1 .. Len(shown')
         /\ \A k \in 1 .. Len(shown) : shown'[k] = shown[k]
         /\ shown'[Len(shown) + 1] = [of |-> InFlight, part |-> n]
         /\ shown'[Len(shown) + 1].of.chat = chat
         /\ shown'[Len(shown) + 1].of.endpoint = endpoint
         /\ shown' \in Seq(Token) /\ shown' # <<>>
<1>1. [of |-> InFlight, part |-> n] \in Token
  BY InFlightTyped DEF Token
<1>2. shown \in Seq(Token)
  BY DEF TypeOK, ChatTypeOK
<1> QED
  BY <1>1, <1>2, AppendProperties DEF InFlight

LEMMA BeforeKept ==
  ASSUME AnswerInv, NEW n \in Nat, UNCHANGED <<chat, endpoint>>,
         shown' = shown \/ shown' = Append(shown, [of |-> InFlight, part |-> n])
  PROVE  \A k \in DOMAIN shown' : ShownBefore(k)'
<1> USE DEF AnswerInv, ShownInv
<1>1. CASE shown' = shown
  BY <1>1 DEF ShownBefore
<1>2. CASE shown' = Append(shown, [of |-> InFlight, part |-> n])
  <2>1. /\ \A k \in DOMAIN shown' : k \in DOMAIN shown \/ k = Len(shown) + 1
        /\ \A k \in DOMAIN shown : shown'[k] = shown[k]
    BY <1>2, TokenAppended
  <2>2. chat \in Nat /\ endpoint \in Nat
    BY FirstIsCandidate DEF TypeOK, ChatTypeOK
  <2>3. chat <= chat /\ endpoint <= endpoint
    BY <2>2
  <2>4. /\ shown'[Len(shown) + 1].of.chat = chat
        /\ shown'[Len(shown) + 1].of.endpoint = endpoint
    BY <1>2, TokenAppended
  <2> QED
    BY <2>1, <2>3, <2>4 DEF ShownBefore
<1> QED
  BY <1>1, <1>2

\* A request is made: of a new call, or of the next endpoint.
LEMMA RequestKeepsShown ==
  ASSUME AnswerInv, Invoke \/ TryNext
  PROVE  ShownInv'
<1> USE DEF AnswerInv
<1>1. chat \in Nat /\ endpoint \in Nat /\ shown \in Seq(Token) /\ Len(shown) \in Nat
  BY FirstIsCandidate DEF TypeOK, ChatTypeOK
<1>2. parts' = 0 /\ shown' = shown /\ mode' \in {"stream", "plain"}
  BY DEF Invoke, TryNext, RequestFails, FirstMode
<1>3. \/ chat' = chat + 1
      \/ chat' = chat /\ endpoint' = endpoint + 1
  BY DEF Invoke, TryNext, RequestFails
<1>4. ASSUME NEW k \in DOMAIN shown
      PROVE  /\ ShownBefore(k)'
             /\ <<shown[k].of.chat, shown[k].of.endpoint>> # <<chat', endpoint'>>
  <2>1. /\ shown[k].of.chat \in Nat /\ shown[k].of.endpoint \in Nat
        /\ shown[k].of.chat <= chat
        /\ shown[k].of.chat = chat => shown[k].of.endpoint <= endpoint
    BY ShownBounds DEF ShownInv, ShownBefore
  <2> QED
    BY <1>1, <1>2, <1>3, <2>1 DEF ShownBefore
<1>5. parts' <= Len(shown') /\ 1 .. parts' = {}
  BY <1>1, <1>2
<1> QED
  BY <1>2, <1>4, <1>5 DEF ShownInv

LEMMA StreamKeepsShown ==
  ASSUME AnswerInv, StreamPart \/ StreamBreaks
  PROVE  ShownInv'
<1> USE DEF AnswerInv
<1>1. parts \in Nat /\ shown \in Seq(Token) /\ Len(shown) \in Nat
  BY DEF TypeOK, ChatTypeOK
<1>2. /\ parts <= Len(shown)
      /\ \A k \in 1 .. parts : shown[(Len(shown) - parts) + k] = [of |-> InFlight, part |-> k]
  BY DEF ShownInv, StreamPart, StreamBreaks
<1>3. CASE StreamPart
  <2>1. /\ parts' = parts + 1 /\ mode' = "stream" /\ UNCHANGED <<chat, endpoint>>
        /\ shown' = Append(shown, [of |-> InFlight, part |-> parts + 1])
        /\ InFlight' = InFlight
    BY <1>3 DEF StreamPart, InFlight
  <2>2. parts + 1 \in Nat
    BY <1>1
  <2>3. \A k \in DOMAIN shown' : ShownBefore(k)'
    BY <2>1, <2>2, BeforeKept
  <2>4. /\ Len(shown') = Len(shown) + 1
        /\ \A k \in 1 .. Len(shown) : shown'[k] = shown[k]
        /\ shown'[Len(shown) + 1] = [of |-> InFlight, part |-> parts + 1]
    BY <2>1, <2>2, TokenAppended
  <2>5. ASSUME NEW k \in 1 .. parts + 1
        PROVE  shown'[(Len(shown') - (parts + 1)) + k] = [of |-> InFlight, part |-> k]
    <3>1. CASE k = parts + 1
      <4>1. (Len(shown') - (parts + 1)) + k = Len(shown) + 1
        BY <1>1, <2>4, <3>1
      <4> QED
        BY <2>4, <3>1, <4>1
    <3>2. CASE k # parts + 1
      <4>1. /\ k \in 1 .. parts
            /\ (Len(shown') - (parts + 1)) + k = (Len(shown) - parts) + k
            /\ (Len(shown) - parts) + k \in 1 .. Len(shown)
        BY <1>1, <1>2, <2>4, <3>2
      <4> QED
        BY <1>2, <2>4, <4>1
    <3> QED
      BY <3>1, <3>2
  <2>6. parts + 1 <= Len(shown')
    BY <1>1, <1>2, <2>4
  <2> QED
    BY <2>1, <2>3, <2>5, <2>6 DEF ShownInv
<1>4. CASE StreamBreaks
  <2>1. /\ parts' = parts /\ mode = "stream" /\ mode' = "fallback" /\ UNCHANGED <<chat, endpoint, shown>>
    BY <1>4 DEF StreamBreaks
  <2>2. ASSUME parts > 0
        PROVE  /\ shown # <<>>
               /\ Last(shown).of = [chat |-> chat, endpoint |-> endpoint, mode |-> "stream"]
    <3>1. parts \in 1 .. parts /\ (Len(shown) - parts) + parts = Len(shown) /\ Len(shown) > 0
      BY <1>1, <1>2, <2>2
    <3>2. shown[Len(shown)] = [of |-> InFlight, part |-> parts]
      BY <1>2, <3>1
    <3>3. shown # <<>>
      BY <3>1, EmptySeq
    <3> QED
      BY <2>1, <3>2, <3>3 DEF Last, InFlight
  <2>3. \A k \in DOMAIN shown : ShownBefore(k)'
    BY <2>1 DEF ShownInv, ShownBefore
  <2> QED
    BY <2>1, <2>2, <2>3 DEF ShownInv
<1> QED
  BY <1>3, <1>4

\* What AnswerIsShown asks of the text of length chunks that the request in flight gave.
Shows(length) ==
  LET text == [kind |-> "answer", of |-> InFlight, length |-> length]
  IN  \/ IsSuffix(Whole(text), shown')
      \/ /\ mode = "plain"
         /\ \A k \in DOMAIN shown' :
              <<shown'[k].of.chat, shown'[k].of.endpoint>> # <<chat, endpoint>>
      \/ /\ mode = "fallback"
         /\ shown' # <<>>
         /\ Last(shown').of = [chat |-> chat, endpoint |-> endpoint, mode |-> "stream"]

LEMMA ReplyIsShown ==
  ASSUME AnswerInv, NEW length \in Nat, NEW requested, Reply(requested, length)
  PROVE  ShownInv' /\ (length > 0 => Shows(length))
<1> USE DEF AnswerInv
<1> DEFINE text == [kind |-> "answer", of |-> InFlight, length |-> length]
<1>1. parts \in Nat /\ shown \in Seq(Token) /\ Len(shown) \in Nat
  BY DEF TypeOK, ChatTypeOK
<1>2. /\ mode' = "idle" /\ UNCHANGED <<chat, endpoint>>
      /\ shown' = shown \/ shown' = Append(shown, [of |-> InFlight, part |-> 1])
  BY DEF Reply, StreamReply, PlainReply, FallbackReply
<1>3. ShownInv'
  <2>1. \A k \in DOMAIN shown' : ShownBefore(k)'
    BY <1>2, BeforeKept
  <2> QED
    BY <1>2, <2>1 DEF ShownInv
<1>4. /\ Whole(text) \in Seq(Token) /\ Len(Whole(text)) = length
      /\ \A k \in 1 .. length : Whole(text)[k] = [of |-> InFlight, part |-> k]
  <2>1. text.of = InFlight /\ text.length = length /\ InFlight \in Response
    BY InFlightTyped
  <2> HIDE DEF text
  <2> QED
    BY <2>1, WholeTyped
<1>5. CASE StreamReply(requested, length)
  <2>1. mode = "stream" /\ length = parts /\ shown' = shown
    BY <1>5 DEF StreamReply
  <2>2. /\ parts <= Len(shown)
        /\ \A k \in 1 .. parts : shown[(Len(shown) - parts) + k] = [of |-> InFlight, part |-> k]
    BY <2>1 DEF ShownInv
  <2>3. IsSuffix(Whole(text), shown)
    <3> HIDE DEF text
    <3> QED
      BY <1>1, <1>4, <2>1, <2>2, SuffixByIndex
  <2> QED
    BY <1>3, <2>1, <2>3 DEF Shows
<1>6. CASE PlainReply(requested, length)
  BY <1>3, <1>6 DEF PlainReply, Shows, ShownInv
<1>7. CASE FallbackReply(requested, length) /\ parts = 0 /\ length > 0
  <2>1. length = 1 /\ shown' = Append(shown, [of |-> InFlight, part |-> 1])
    BY <1>7 DEF FallbackReply
  <2>2. /\ Len(shown') = Len(shown) + 1 /\ shown' \in Seq(Token)
        /\ shown'[Len(shown) + 1] = [of |-> InFlight, part |-> 1]
    BY <2>1, TokenAppended
  <2>3. /\ 1 <= Len(shown')
        /\ \A k \in 1 .. 1 : (Len(shown') - 1) + k = Len(shown) + 1 /\ k = 1
    BY <1>1, <2>2
  <2>4. IsSuffix(Whole(text), shown')
    <3>1. \A k \in 1 .. 1 : shown'[(Len(shown') - 1) + k] = Whole(text)[k]
      BY <1>4, <2>1, <2>2, <2>3
    <3> HIDE DEF text
    <3> QED
      BY <1>4, <2>1, <2>2, <2>3, <3>1, SuffixByIndex
  <2> QED
    BY <1>3, <2>4 DEF Shows
<1>8. CASE FallbackReply(requested, length) /\ parts > 0
  <2>1. mode = "fallback" /\ shown' = shown
    BY <1>1, <1>8 DEF FallbackReply
  <2> QED
    BY <1>3, <1>8, <2>1 DEF Shows, ShownInv
<1> QED
  BY <1>1, <1>3, <1>5, <1>6, <1>7, <1>8 DEF Reply

LEMMA StepKeepsAnswer == AnswerInv /\ [Next]_vars => AnswerInv'
<1> SUFFICES ASSUME AnswerInv, [Next]_vars
             PROVE  ShownInv' /\ AnswerIsShown'
  BY StepTyped, StepKeepsRequest DEF AnswerInv
<1> USE DEF AnswerInv
<1>1. CASE Ask
  <2>1. phase' # "returned"
    BY <1>1 DEF Ask, loopVars
  <2> QED
    BY <1>1, <2>1, RequestKeepsShown DEF Ask, AnswerIsShown
<1>2. CASE Wait
  <2>1. phase' = "chat"
    BY <1>2 DEF Wait, loopVars, StreamPart, StreamBreaks, TryNext, RequestFails, RequestInv
  <2> QED
    BY <1>2, <2>1, RequestKeepsShown, StreamKeepsShown DEF Wait, AnswerIsShown
<1>3. CASE ModelFails
  <2>1. mode' = "idle" /\ phase' = "raised" /\ UNCHANGED <<chat, endpoint, shown>>
    BY <1>3 DEF ModelFails, AllFailed, RequestFails
  <2> QED
    BY <2>1 DEF ShownInv, ShownBefore, AnswerIsShown
<1>4. ASSUME NEW length \in 0 .. MaxParts + 1, Answer(length)
      PROVE  ShownInv' /\ AnswerIsShown'
  <2>1. length \in Nat
    BY ChatAssumption
  <2>2. ShownInv' /\ (length > 0 => Shows(length))
    BY <1>4, <2>1, ReplyIsShown DEF Answer
  <2>3. CASE length = 0
    BY <1>4, <2>2, <2>3 DEF Answer, AnswerIsShown
  <2>4. CASE length > 0
    <3>1. final' = [kind |-> "answer", of |-> InFlight, length |-> length]
      BY <1>4, <2>4 DEF Answer
    <3>2. /\ final'.of.mode = mode /\ final'.of.chat = chat /\ final'.of.endpoint = endpoint
          /\ [final'.of EXCEPT !.mode = "stream"]
               = [chat |-> chat, endpoint |-> endpoint, mode |-> "stream"]
      BY <3>1 DEF InFlight
    <3>3. Whole(final') = Whole([kind |-> "answer", of |-> InFlight, length |-> length])
      BY <3>1
    <3> QED
      BY <2>2, <2>4, <3>2, <3>3 DEF Shows, AnswerIsShown, Whole
  <2> QED
    BY <2>1, <2>3, <2>4
<1>5. ASSUME NEW length \in 0 .. MaxParts + 1, NEW requested, CallTools(length, requested)
      PROVE  ShownInv' /\ AnswerIsShown'
  <2>1. length \in Nat /\ phase' = "tools"
    BY <1>5, ChatAssumption DEF CallTools
  <2> QED
    BY <1>5, <2>1, ReplyIsShown DEF CallTools, AnswerIsShown
<1>6. CASE phase = "tools" /\ UNCHANGED chatVars
           /\ (phase' = "returned" => final' = [kind |-> "unable"])
  BY <1>6 DEF chatVars, ShownInv, ShownBefore, InFlight, AnswerIsShown
<1>7. CASE Announce \/ Approve \/ Execute \/ ToolRaises \/ ToolReturns \/ Deny \/ UnknownTool
  <2>1. phase = "tools" /\ UNCHANGED chatVars
    BY <1>7 DEF Announce, Approve, Execute, ToolRaises, ToolReturns, Deny, UnknownTool,
       Handling, Settle
  <2>2. phase' = "returned" => final' = [kind |-> "unable"]
    BY <1>7, <2>1 DEF Announce, Approve, Execute, ToolRaises, ToolReturns, Deny, UnknownTool,
       Handling, Settle, Proceed
  <2> QED
    BY <1>6, <2>1, <2>2
<1>8. CASE UNCHANGED vars
  BY <1>8 DEF vars, chatVars, loopVars, ShownInv, ShownBefore, InFlight, AnswerIsShown
<1> QED
  BY <1>1, <1>2, <1>3, <1>4, <1>5, <1>7, <1>8 DEF Next, Ended

\* The answer of a streamed run is what its caller was shown last, whole and in order,
\* but for the endpoints that do not stream and the streams that broke (native.py 244-256).
THEOREM AnswersAreShown == Spec => []AnswerIsShown
<1>1. Init => AnswerInv
  BY InitTyped, EmptySeq DEF Init, ChatInit, AnswerInv, RequestInv, ShownInv, AnswerIsShown
<1>2. AnswerInv /\ [Next]_vars => AnswerInv'
  BY StepKeepsAnswer
<1>3. AnswerInv => AnswerIsShown
  BY DEF AnswerInv
<1> QED
  BY <1>1, <1>2, <1>3, PTL DEF Spec
-----------------------------------------------------------------------------
(* The events *)

Answered(k) == Cardinality(ToolMessages(k))

Settled == ToolMessages(Len(messages))

\* Each tool message has its two events, and the call that is handled its first.
EventsInv ==
  Streaming =>
    /\ Len(events) = 2 * Cardinality(Settled) + (IF stage = "announce" THEN 0 ELSE 1)
    /\ stage # "announce" => events[Len(events)] = [type |-> "tool_call", call |-> Current]
    /\ \A k \in Settled :
         /\ events[2 * Answered(k) - 1] = [type |-> "tool_call", call |-> messages[k].call]
         /\ events[2 * Answered(k)] = [type |-> "tool_result", call |-> messages[k].call]

\* Only a call being handled, or one whose handler raised, is past its announcement.
StageInv == phase \in {"chat", "returned"} => stage = "announce"

ToldInv == TypeOK /\ NextInv /\ RequestInv /\ StageInv /\ EventsInv

LEMMA AnsweredTyped ==
  ASSUME NEW n \in Nat
  PROVE  /\ IsFiniteSet(ToolMessages(n)) /\ Answered(n) \in Nat
         /\ \A k \in ToolMessages(n) : k \in 1 .. n /\ Answered(k) \in 1 .. Answered(n)
<1>1. \A m \in Nat : IsFiniteSet(ToolMessages(m)) /\ Answered(m) \in Nat
  <2>1. \A m \in Nat : IsFiniteSet(1 .. m)
    BY FS_Interval
  <2>2. \A m \in Nat : ToolMessages(m) \in SUBSET (1 .. m)
    BY DEF ToolMessages
  <2> QED
    BY <2>1, <2>2, FS_Subset, FS_CardinalityType DEF Answered
<1>2. ASSUME NEW k \in ToolMessages(n)
      PROVE  k \in 1 .. n /\ Answered(k) \in 1 .. Answered(n)
  <2>1. k \in 1 .. n /\ k \in Nat /\ k \in ToolMessages(k)
    BY DEF ToolMessages
  <2>2. ToolMessages(k) \in SUBSET ToolMessages(n)
    BY <2>1 DEF ToolMessages
  <2>3. Answered(k) <= Answered(n)
    BY <1>1, <2>2, FS_Subset DEF Answered
  <2>4. Answered(k) # 0
    BY <1>1, <2>1, FS_EmptySet DEF Answered
  <2> QED
    BY <1>1, <2>1, <2>3, <2>4
<1> QED
  BY <1>1, <1>2

\* The messages before the one that is appended count as they did.
LEMMA AnsweredAppend ==
  ASSUME TypeOK, NEW m \in AssistantMessage \cup ToolMessage, messages' = Append(messages, m)
  PROVE  /\ Len(messages) \in Nat
         /\ \A k \in 1 .. Len(messages) : messages'[k] = messages[k]
         /\ messages'[Len(messages) + 1] = m
         /\ \A k \in 0 .. Len(messages) : ToolMessages(k)' = ToolMessages(k)
         /\ m.role # "tool" => Settled' = Settled
         /\ m.role = "tool" =>
              /\ Settled' = Settled \cup {Len(messages) + 1}
              /\ Cardinality(Settled') = Cardinality(Settled) + 1
<1>1. messages \in Seq(AssistantMessage \cup ToolMessage) /\ Len(messages) \in Nat
  BY DEF TypeOK
<1>2. /\ Len(messages') = Len(messages) + 1
      /\ \A k \in 1 .. Len(messages) : messages'[k] = messages[k]
      /\ messages'[Len(messages) + 1] = m
  BY <1>1, AppendProperties
<1>3. \A k \in 0 .. Len(messages) : ToolMessages(k)' = ToolMessages(k)
  <2> SUFFICES ASSUME NEW k \in 0 .. Len(messages)
               PROVE  ToolMessages(k)' = ToolMessages(k)
    OBVIOUS
  <2>1. \A j \in 1 .. k : messages'[j] = messages[j]
    BY <1>1, <1>2
  <2> QED
    BY <2>1 DEF ToolMessages
<1>4. Settled' = {j \in 1 .. Len(messages) + 1 : messages'[j].role = "tool"}
  BY <1>2 DEF Settled, ToolMessages
<1>5. \A j : j \in 1 .. Len(messages) + 1 <=> j \in 1 .. Len(messages) \/ j = Len(messages) + 1
  BY <1>1
<1>6. m.role # "tool" => Settled' = Settled
  BY <1>2, <1>4, <1>5 DEF Settled, ToolMessages
<1>7. m.role = "tool" => Settled' = Settled \cup {Len(messages) + 1}
  BY <1>2, <1>4, <1>5 DEF Settled, ToolMessages
<1>8. Cardinality(Settled \cup {Len(messages) + 1}) = Cardinality(Settled) + 1
  <2>1. IsFiniteSet(Settled) /\ Len(messages) + 1 \notin Settled
    BY <1>1, AnsweredTyped DEF Settled
  <2> QED
    BY <2>1, FS_AddElement
<1> QED
  BY <1>1, <1>2, <1>3, <1>6, <1>7, <1>8

\* The result of a call is told behind its announcement.
LEMMA SettleTells ==
  ASSUME ToldInv, phase = "tools", stage # "announce", NEW outcome \in Outcomes, Settle(outcome)
  PROVE  EventsInv'
<1> USE DEF ToldInv
<1> DEFINE m == [role |-> "tool", call |-> Current, outcome |-> outcome]
           e == [type |-> "tool_result", call |-> Current]
           N == Cardinality(Settled)
<1> SUFFICES ASSUME Streaming
             PROVE  EventsInv'
  BY DEF EventsInv
<1>1. m \in ToolMessage /\ m.role = "tool" /\ m.call = Current /\ e \in Event
  BY CurrentTyped DEF NextInv, ToolMessage, Event
<1>2. messages' = Append(messages, m) /\ events' = Append(events, e) /\ stage' = "announce"
  BY DEF Settle, Tell, Proceed
<1>3. /\ Len(messages) \in Nat
      /\ \A k \in 1 .. Len(messages) : messages'[k] = messages[k]
      /\ messages'[Len(messages) + 1].call = Current
      /\ \A k \in 0 .. Len(messages) : ToolMessages(k)' = ToolMessages(k)
      /\ Settled' = Settled \cup {Len(messages) + 1}
      /\ Cardinality(Settled') = N + 1
  <2> HIDE DEF m
  <2> QED
    BY <1>1, <1>2, AnsweredAppend
<1>4. N \in Nat /\ \A k \in Settled : k \in 1 .. Len(messages) /\ Answered(k) \in 1 .. N
  BY <1>3, AnsweredTyped DEF Settled, Answered
<1>5. Len(events) = 2 * N + 1 /\ events[2 * N + 1] = [type |-> "tool_call", call |-> Current]
  BY DEF EventsInv
<1>6. /\ Len(events') = 2 * N + 2
      /\ \A i \in 1 .. 2 * N + 1 : events'[i] = events[i]
      /\ events'[2 * N + 2] = e
  <2>1. events \in Seq(Event)
    BY DEF TypeOK
  <2>2. /\ Len(events') = Len(events) + 1
        /\ \A i \in 1 .. Len(events) : events'[i] = events[i]
        /\ events'[Len(events) + 1] = e
    BY <1>1, <1>2, <2>1, AppendProperties
  <2>3. 2 * N + 1 + 1 = 2 * N + 2
    BY <1>4
  <2> QED
    BY <1>5, <2>2, <2>3
<1> HIDE DEF m, e, N
<1>7. ASSUME NEW k \in Settled
      PROVE  /\ events'[2 * Answered(k)' - 1] = [type |-> "tool_call", call |-> messages'[k].call]
             /\ events'[2 * Answered(k)'] = [type |-> "tool_result", call |-> messages'[k].call]
  <2>1. Answered(k)' = Answered(k) /\ messages'[k] = messages[k]
    BY <1>3, <1>4 DEF Answered
  <2>2. Answered(k) \in 1 .. N
    BY <1>4
  <2>3. 2 * Answered(k) - 1 \in 1 .. 2 * N + 1 /\ 2 * Answered(k) \in 1 .. 2 * N + 1
    BY <1>4, <2>2
  <2> QED
    BY <1>6, <2>1, <2>3 DEF EventsInv
<1>8. /\ events'[2 * (N + 1) - 1] = [type |-> "tool_call", call |-> Current]
      /\ events'[2 * (N + 1)] = [type |-> "tool_result", call |-> Current]
  <2>1. 2 * (N + 1) - 1 = 2 * N + 1 /\ 2 * (N + 1) = 2 * N + 2 /\ 2 * N + 1 \in 1 .. 2 * N + 1
    BY <1>4
  <2> QED
    BY <1>5, <1>6, <2>1 DEF e
<1>9. ASSUME NEW k, k = Len(messages) + 1
      PROVE  Answered(k)' = N + 1
  <2>1. Len(messages') = Len(messages) + 1
    BY <1>2 DEF TypeOK
  <2>2. ToolMessages(k)' = Settled'
    BY <1>9, <2>1 DEF Settled, ToolMessages
  <2> QED
    BY <1>3, <2>2 DEF Answered
<1>10. Len(events') = 2 * Cardinality(Settled') + 0
  BY <1>3, <1>4, <1>6
<1> QED
  BY <1>2, <1>3, <1>7, <1>8, <1>9, <1>10 DEF EventsInv

LEMMA AnnounceTells ==
  ASSUME ToldInv, Announce
  PROVE  EventsInv'
<1> USE DEF ToldInv
<1> DEFINE e == [type |-> "tool_call", call |-> Current]
<1> SUFFICES ASSUME Streaming
             PROVE  EventsInv'
  BY DEF EventsInv
<1>1. e \in Event
  BY CurrentTyped DEF NextInv, Event, Announce, Handling
<1>2. /\ events' = Append(events, e) /\ stage = "announce" /\ stage' = "decide"
      /\ UNCHANGED <<phase, step, messages, calls, next>> /\ Current' = Current
  BY DEF Announce, Handling, Tell, Current
<1>3. /\ \A k : Answered(k)' = Answered(k) /\ ToolMessages(k)' = ToolMessages(k)
      /\ Settled' = Settled /\ Cardinality(Settled') = Cardinality(Settled)
  BY <1>2 DEF Answered, ToolMessages, Settled
<1>4. /\ Cardinality(Settled) \in Nat
      /\ \A k \in Settled : Answered(k) \in 1 .. Cardinality(Settled)
  BY AnsweredTyped DEF Settled, Answered, TypeOK
<1>5. Len(events) = 2 * Cardinality(Settled)
  BY <1>2, <1>4 DEF EventsInv
<1>6. /\ Len(events') = Len(events) + 1
      /\ \A i \in 1 .. Len(events) : events'[i] = events[i]
      /\ events'[Len(events) + 1] = e
  BY <1>1, <1>2, AppendProperties DEF TypeOK
<1>7. ASSUME NEW k \in Settled
      PROVE  events'[2 * Answered(k) - 1] = events[2 * Answered(k) - 1]
             /\ events'[2 * Answered(k)] = events[2 * Answered(k)]
  <2>1. 2 * Answered(k) - 1 \in 1 .. Len(events) /\ 2 * Answered(k) \in 1 .. Len(events)
    <3>1. \A a, n \in Nat : a \in 1 .. n => 2 * a - 1 \in 1 .. 2 * n /\ 2 * a \in 1 .. 2 * n
      OBVIOUS
    <3> QED
      BY <1>4, <1>5, <3>1
  <2> QED
    BY <1>6, <2>1
<1>8. \A k \in Settled : messages'[k] = messages[k]
  BY <1>2
<1> HIDE DEF e
<1>9. /\ Len(events') = 2 * Cardinality(Settled') + 1 /\ events'[Len(events')] = e
  BY <1>3, <1>5, <1>6
<1>10. e = [type |-> "tool_call", call |-> Current']
  BY <1>2 DEF e
<1> QED
  BY <1>2, <1>3, <1>7, <1>8, <1>9, <1>10 DEF EventsInv

\* An assistant message is no answer.
LEMMA AssistantTells ==
  ASSUME ToldInv, stage = "announce", stage' = "announce", UNCHANGED events,
         NEW m \in AssistantMessage, messages' = Append(messages, m)
  PROVE  EventsInv'
<1> USE DEF ToldInv
<1>1. m.role # "tool"
  BY DEF AssistantMessage
<1>2. /\ Len(messages) \in Nat
      /\ \A k \in 1 .. Len(messages) : messages'[k] = messages[k]
      /\ \A k \in 0 .. Len(messages) : ToolMessages(k)' = ToolMessages(k)
      /\ Settled' = Settled
  BY <1>1, AnsweredAppend
<1>3. \A k \in Settled : k \in 1 .. Len(messages)
  BY <1>2, AnsweredTyped DEF Settled
<1>4. \A k \in Settled : Answered(k)' = Answered(k) /\ messages'[k] = messages[k]
  BY <1>2, <1>3 DEF Answered
<1> QED
  BY <1>2, <1>4 DEF EventsInv

\* A step that neither tells nor answers, and keeps the call.
LEMMA SilentTells ==
  ASSUME ToldInv, UNCHANGED <<events, messages, step, calls, next>>,
         stage = "announce" <=> stage' = "announce"
  PROVE  EventsInv'
<1>1. \A k : Answered(k)' = Answered(k)
  BY DEF Answered, ToolMessages
<1>2. Settled' = Settled /\ Current' = Current
  BY DEF Settled, ToolMessages, Current
<1> QED
  BY <1>1, <1>2 DEF ToldInv, EventsInv

LEMMA StepKeepsTold == ToldInv /\ [Next]_vars => ToldInv'
<1> SUFFICES ASSUME ToldInv, [Next]_vars
             PROVE  StageInv' /\ EventsInv'
  BY StepTyped, StepKeepsRequest DEF ToldInv
<1> USE DEF ToldInv
<1>1. CASE Ask \/ Wait \/ UNCHANGED vars
  <2>1. UNCHANGED loopVars
    BY <1>1 DEF Ask, Wait, vars
  <2> QED
    BY <2>1, SilentTells DEF loopVars, StageInv
<1>2. CASE ModelFails
  BY <1>2, SilentTells DEF ModelFails, StageInv
<1>3. ASSUME NEW length, NEW requested, Reply(requested, length)
      PROVE  phase = "chat" /\ stage = "announce"
  BY <1>3 DEF Reply, StreamReply, PlainReply, FallbackReply, RequestInv, StageInv
<1>4. ASSUME NEW length, Answer(length)
      PROVE  StageInv' /\ EventsInv'
  <2>1. [role |-> "assistant", step |-> step, calls |-> <<>>] \in AssistantMessage
    BY DEF AssistantMessage, TypeOK
  <2>2. stage = "announce" /\ stage' = "announce" /\ UNCHANGED events
    BY <1>3, <1>4 DEF Answer
  <2> QED
    BY <1>4, <2>1, <2>2, AssistantTells DEF Answer, StageInv
<1>5. ASSUME NEW length, NEW requested \in SeqOf(Tools, MaxCalls), CallTools(length, requested)
      PROVE  StageInv' /\ EventsInv'
  <2>1. [role |-> "assistant", step |-> step, calls |-> requested] \in AssistantMessage
    BY RequestedTyped DEF AssistantMessage, TypeOK
  <2>2. stage = "announce" /\ stage' = "announce" /\ UNCHANGED events
    BY <1>3, <1>5 DEF CallTools
  <2> QED
    BY <1>5, <2>1, <2>2, AssistantTells DEF CallTools, StageInv
<1>6. CASE Announce
  BY <1>6, AnnounceTells DEF Announce, Handling, StageInv
<1>7. CASE Approve \/ Execute \/ ToolRaises
  BY <1>7, SilentTells DEF Approve, Execute, ToolRaises, Handling, StageInv
<1>8. CASE ToolReturns \/ Deny \/ UnknownTool
  BY <1>8, SettleTells DEF ToolReturns, Deny, UnknownTool, Handling, Outcomes, StageInv,
     Settle, Proceed
<1> QED
  BY <1>1, <1>2, <1>4, <1>5, <1>6, <1>7, <1>8 DEF Next, Ended

\* The events of a streamed run tell its transcript: each answered call as its tool_call
\* and its tool_result, in order, and at most one call that is not answered yet.
THEOREM EventsAreTold == Spec => []EventsTellTranscript
<1>1. Init => ToldInv
  <2> SUFFICES ASSUME Init PROVE StageInv /\ EventsInv
    BY InitTyped DEF Init, ChatInit, ToldInv, RequestInv
  <2>1. Settled = {} /\ Cardinality(Settled) = 0
    <3>1. Len(messages) = 0
      BY EmptySeq DEF Init
    <3>2. Settled = {}
      BY <3>1 DEF Settled, ToolMessages
    <3> QED
      BY <3>2, FS_EmptySet
  <2>2. Len(events) = 0 /\ stage = "announce"
    BY EmptySeq DEF Init
  <2> QED
    BY <2>1, <2>2 DEF StageInv, EventsInv
<1>2. ToldInv /\ [Next]_vars => ToldInv'
  BY StepKeepsTold
<1>3. ToldInv => EventsTellTranscript
  <2> SUFFICES ASSUME ToldInv, Streaming PROVE EventsTellTranscript
    BY DEF EventsTellTranscript
  <2>1. Cardinality(Settled) \in Nat
    BY AnsweredTyped DEF Settled, Answered, ToldInv, TypeOK
  <2>2. Len(events) - 2 * Cardinality(Settled) \in {0, 1}
    BY <2>1 DEF ToldInv, EventsInv
  <2> QED
    BY <2>2 DEF ToldInv, EventsInv, EventsTellTranscript, Settled, Answered
<1> QED
  BY <1>1, <1>2, <1>3, PTL DEF Spec
-----------------------------------------------------------------------------
(***************************************************************************)
(* Towards the end of a run.  That a run comes to an end is for TLC; here, *)
(* what makes it so for every budget and any number of endpoints and tool  *)
(* calls: each step leaves less of the run, in the lexicographic order of  *)
(* what is left, from the model's replies down to the chunks of a stream.  *)
(***************************************************************************)

PhaseLeft ==
  IF phase = "chat" THEN IF mode = "idle" THEN 3 ELSE 2
  ELSE IF phase = "tools" THEN 1
  ELSE 0

\* Endpoints to try, or calls to handle.
PlaceLeft ==
  IF phase = "chat" THEN Len(Client) - endpoint
  ELSE IF phase = "tools" THEN Len(calls) - next
  ELSE 0

\* The request behind a stream, or the stages of a call.
StageLeft ==
  IF phase = "tools"
  THEN IF stage = "announce" THEN 3
       ELSE IF stage = "decide" THEN 2
       ELSE IF stage = "approved" THEN 1
       ELSE 0
  ELSE IF mode = "stream" THEN 1
  ELSE 0

PartsLeft == IF mode = "stream" THEN MaxParts - parts ELSE 0

Left == <<MaxSteps - step, PhaseLeft, PlaceLeft, StageLeft, PartsLeft>>

\* a comes before b in the lexicographic order.
Below(a, b) == \E k \in DOMAIN a : a[k] < b[k] /\ \A j \in 1 .. k - 1 : a[j] = b[j]

BudgetInv ==
  /\ step <= MaxSteps
  /\ phase \in {"chat", "tools"} => step < MaxSteps
  /\ parts <= MaxParts

LEMMA StepKeepsBudget ==
  TypeOK /\ RequestInv /\ BudgetInv /\ [Next]_vars => BudgetInv'
<1> SUFFICES ASSUME TypeOK, RequestInv, BudgetInv, [Next]_vars
             PROVE  BudgetInv'
  OBVIOUS
<1>1. step \in Nat /\ MaxSteps \in Nat /\ parts \in Nat /\ MaxParts \in Nat
  BY LoopAssumption, ChatAssumption DEF TypeOK, ChatTypeOK
<1>2. CASE Ask
  BY <1>1, <1>2 DEF Ask, Invoke, loopVars, BudgetInv
<1>3. CASE Wait
  <2>1. step' = step /\ phase' = phase
    BY <1>3 DEF Wait, loopVars
  <2>2. (parts' = parts + 1 /\ parts < MaxParts) \/ parts' = parts \/ parts' = 0
    BY <1>3 DEF Wait, StreamPart, StreamBreaks, TryNext, RequestFails
  <2> QED
    BY <1>1, <2>1, <2>2 DEF BudgetInv
<1>4. CASE ModelFails
  BY <1>1, <1>4 DEF ModelFails, AllFailed, RequestFails, BudgetInv
<1>5. ASSUME NEW requested, NEW length, Reply(requested, length)
      PROVE  parts' = parts /\ phase = "chat"
  BY <1>5 DEF Reply, StreamReply, PlainReply, FallbackReply, RequestInv
<1>6. ASSUME NEW length, Answer(length)
      PROVE  BudgetInv'
  BY <1>1, <1>5, <1>6 DEF Answer, BudgetInv
<1>7. ASSUME NEW length, NEW requested, CallTools(length, requested)
      PROVE  BudgetInv'
  BY <1>1, <1>5, <1>7 DEF CallTools, BudgetInv
<1>8. CASE Announce \/ Approve \/ Execute \/ ToolRaises
  BY <1>1, <1>8 DEF Announce, Approve, Execute, ToolRaises, chatVars, BudgetInv
<1>9. ASSUME NEW outcome, phase = "tools", Settle(outcome)
      PROVE  BudgetInv'
  BY <1>1, <1>9 DEF Settle, Proceed, chatVars, BudgetInv
<1>10. CASE ToolReturns \/ Deny \/ UnknownTool
  BY <1>9, <1>10 DEF ToolReturns, Deny, UnknownTool, Handling
<1>11. CASE UNCHANGED vars
  BY <1>11 DEF vars, chatVars, loopVars, BudgetInv
<1> QED
  BY <1>2, <1>3, <1>4, <1>6, <1>7, <1>8, <1>10, <1>11 DEF Next, Ended

LEMMA LeftTyped ==
  ASSUME TypeOK, NextInv, BudgetInv
  PROVE  Left \in [1 .. 5 -> Nat]
<1>1. step \in Nat /\ MaxSteps \in Nat /\ parts \in Nat /\ MaxParts \in Nat /\ Len(calls) \in Nat
  BY LoopAssumption, ChatAssumption DEF TypeOK, ChatTypeOK
<1>2. MaxSteps - step \in Nat /\ MaxParts - parts \in Nat
  BY <1>1 DEF BudgetInv
<1>3. Len(Client) - endpoint \in Nat
  BY ChatAssumption DEF TypeOK, ChatTypeOK, Candidates
<1>4. phase = "tools" => Len(calls) - next \in Nat
  BY <1>1 DEF NextInv
<1>5. PhaseLeft \in Nat /\ PlaceLeft \in Nat /\ StageLeft \in Nat /\ PartsLeft \in Nat
  BY <1>2, <1>3, <1>4 DEF PhaseLeft, PlaceLeft, StageLeft, PartsLeft
<1> QED
  BY <1>2, <1>5 DEF Left

\* The field that drops, behind fields that stay.
LEMMA BelowAt ==
  ASSUME NEW a, NEW b, DOMAIN a = 1 .. 5,
         \/ a[1] < b[1]
         \/ a[1] = b[1] /\ a[2] < b[2]
         \/ a[1] = b[1] /\ a[2] = b[2] /\ a[3] < b[3]
         \/ a[1] = b[1] /\ a[2] = b[2] /\ a[3] = b[3] /\ a[4] < b[4]
         \/ a[1] = b[1] /\ a[2] = b[2] /\ a[3] = b[3] /\ a[4] = b[4] /\ a[5] < b[5]
  PROVE  Below(a, b)
<1>2. ASSUME NEW k \in 1 .. 5, a[k] < b[k], \A j \in 1 .. k - 1 : a[j] = b[j]
      PROVE  Below(a, b)
  BY <1>2 DEF Below
<1>3. CASE a[1] < b[1]
  BY <1>2, <1>3
<1>4. CASE a[1] = b[1] /\ a[2] < b[2]
  BY <1>2, <1>4
<1>5. CASE a[1] = b[1] /\ a[2] = b[2] /\ a[3] < b[3]
  BY <1>2, <1>5
<1>6. CASE a[1] = b[1] /\ a[2] = b[2] /\ a[3] = b[3] /\ a[4] < b[4]
  BY <1>2, <1>6
<1>7. CASE a[1] = b[1] /\ a[2] = b[2] /\ a[3] = b[3] /\ a[4] = b[4] /\ a[5] < b[5]
  BY <1>2, <1>7
<1> QED
  BY <1>3, <1>4, <1>5, <1>6, <1>7

LEMMA StepShortens ==
  ASSUME TypeOK, NextInv, RequestInv, BudgetInv, Next
  PROVE  \/ MaxSteps - step' < MaxSteps - step
         \/ step' = step /\ PhaseLeft' < PhaseLeft
         \/ step' = step /\ PhaseLeft' = PhaseLeft /\ PlaceLeft' < PlaceLeft
         \/ /\ step' = step /\ PhaseLeft' = PhaseLeft /\ PlaceLeft' = PlaceLeft
            /\ StageLeft' < StageLeft
         \/ /\ step' = step /\ PhaseLeft' = PhaseLeft /\ PlaceLeft' = PlaceLeft
            /\ StageLeft' = StageLeft /\ PartsLeft' < PartsLeft
         \/ UNCHANGED vars
<1>1. step \in Nat /\ MaxSteps \in Nat /\ parts \in Nat /\ MaxParts \in Nat /\ Len(calls) \in Nat
      /\ next \in Nat /\ endpoint \in Nat /\ Len(Client) \in Nat
  BY LoopAssumption, ChatAssumption, FirstIsCandidate DEF TypeOK, ChatTypeOK
<1>2. CASE Ask
  <2>1. step' = step /\ phase' = phase /\ phase = "chat" /\ mode = "idle" /\ mode' # "idle"
    BY <1>2 DEF Ask, Invoke, loopVars, FirstMode
  <2> QED
    BY <2>1 DEF PhaseLeft
<1>3. CASE Wait
  <2>1. step' = step /\ phase' = phase /\ mode # "idle" /\ mode' # "idle"
    BY <1>3 DEF Wait, loopVars, StreamPart, StreamBreaks, TryNext, RequestFails, FirstMode
  <2>2. phase = "chat" /\ phase' = "chat" /\ PhaseLeft' = PhaseLeft
    BY <2>1 DEF RequestInv, PhaseLeft
  <2>3. CASE StreamPart
    <3>1. mode = "stream" /\ mode' = mode /\ endpoint' = endpoint /\ parts' = parts + 1 /\ parts < MaxParts
      BY <2>3 DEF StreamPart
    <3>2. PlaceLeft' = PlaceLeft /\ StageLeft' = StageLeft
      BY <2>2, <3>1 DEF PlaceLeft, StageLeft
    <3>3. PartsLeft' < PartsLeft
      BY <1>1, <3>1 DEF PartsLeft
    <3> QED
      BY <2>1, <2>2, <3>2, <3>3
  <2>4. CASE StreamBreaks
    <3>1. PlaceLeft' = PlaceLeft /\ StageLeft' < StageLeft
      BY <2>2, <2>4 DEF StreamBreaks, PlaceLeft, StageLeft
    <3> QED
      BY <2>1, <2>2, <3>1
  <2>5. CASE TryNext
    <3>1. PlaceLeft' < PlaceLeft
      BY <1>1, <2>2, <2>5 DEF TryNext, PlaceLeft
    <3> QED
      BY <2>1, <2>2, <3>1
  <2> QED
    BY <1>3, <2>3, <2>4, <2>5 DEF Wait
<1>4. CASE ModelFails
  <2>1. step' = step /\ phase' = "raised" /\ mode # "idle"
    BY <1>4 DEF ModelFails, AllFailed, RequestFails
  <2> QED
    BY <2>1 DEF RequestInv, PhaseLeft
<1>5. ASSUME NEW requested, NEW length, Reply(requested, length)
      PROVE  mode # "idle" /\ phase = "chat"
  BY <1>5 DEF Reply, StreamReply, PlainReply, FallbackReply, RequestInv
<1>6. ASSUME NEW length, Answer(length)
      PROVE  step' = step /\ PhaseLeft' < PhaseLeft
  BY <1>5, <1>6 DEF Answer, PhaseLeft
<1>7. ASSUME NEW length, NEW requested, CallTools(length, requested)
      PROVE  step' = step /\ PhaseLeft' < PhaseLeft
  BY <1>5, <1>7 DEF CallTools, PhaseLeft
<1>8. CASE Announce \/ Approve \/ Execute
  <2>1. phase = "tools" /\ UNCHANGED <<phase, step, calls, next, mode>>
    BY <1>8 DEF Announce, Approve, Execute, Handling, chatVars
  <2>2. PhaseLeft' = PhaseLeft /\ PlaceLeft' = PlaceLeft
    BY <2>1 DEF PhaseLeft, PlaceLeft
  <2>3. StageLeft' < StageLeft
    BY <1>8, <2>1 DEF Announce, Approve, Execute, Handling, StageLeft
  <2> QED
    BY <2>1, <2>2, <2>3
<1>9. CASE ToolRaises
  <2>1. phase = "tools" /\ phase' = "raised" /\ step' = step
    BY <1>9 DEF ToolRaises, Handling
  <2> QED
    BY <2>1 DEF PhaseLeft
<1>10. ASSUME NEW outcome, phase = "tools", Settle(outcome)
       PROVE  \/ MaxSteps - step' < MaxSteps - step
              \/ step' = step /\ PhaseLeft' = PhaseLeft /\ PlaceLeft' < PlaceLeft
  <2>1. CASE next < Len(calls)
    <3>1. next' = next + 1 /\ UNCHANGED <<phase, step, calls>>
      BY <1>10, <2>1 DEF Settle, Proceed
    <3> QED
      BY <1>1, <1>10, <3>1 DEF PhaseLeft, PlaceLeft
  <2>2. CASE ~(next < Len(calls))
    <3>1. step' = step + 1
      BY <1>10, <2>2 DEF Settle, Proceed
    <3> QED
      BY <1>1, <3>1
  <2> QED
    BY <2>1, <2>2
<1>11. CASE ToolReturns \/ Deny \/ UnknownTool
  <2>1. PICK outcome \in Outcomes : Settle(outcome)
    BY <1>11 DEF ToolReturns, Deny, UnknownTool, Outcomes
  <2>2. phase = "tools"
    BY <1>11 DEF ToolReturns, Deny, UnknownTool, Handling
  <2> QED
    BY <1>10, <2>1, <2>2
<1> QED
  BY <1>2, <1>3, <1>4, <1>6, <1>7, <1>8, <1>9, <1>11 DEF Next, Ended

\* A run cannot go on for ever: every step of it leaves less, be it a chunk of a stream, a
\* request that fails and is made again elsewhere, a reply, or a stage of a tool call, for
\* any budget of steps and any number of endpoints, calls and chunks (loop.py 81-149,
\* manager.py 241-322).
THEOREM RunsGrowShorter ==
  Spec => [](Left \in [1 .. 5 -> Nat]) /\ [][Below(Left', Left)]_vars
<1> DEFINE Inv == TypeOK /\ NextInv /\ RequestInv /\ BudgetInv
<1>1. Init => Inv
  BY InitTyped, LoopAssumption, ChatAssumption DEF Init, ChatInit, RequestInv, BudgetInv
<1>2. Inv /\ [Next]_vars => Inv'
  BY StepTyped, StepKeepsRequest, StepKeepsBudget
<1>3. Inv => Left \in [1 .. 5 -> Nat]
  BY LeftTyped
<1>4. Inv /\ [Next]_vars => [Below(Left', Left)]_vars
  <2> SUFFICES ASSUME Inv, Next
               PROVE  UNCHANGED vars \/ Below(Left', Left)
    OBVIOUS
  <2>1. /\ Left[1] = MaxSteps - step /\ Left[2] = PhaseLeft /\ Left[3] = PlaceLeft
        /\ Left[4] = StageLeft /\ Left[5] = PartsLeft
    BY DEF Left
  <2>2. /\ Left'[1] = MaxSteps - step' /\ Left'[2] = PhaseLeft' /\ Left'[3] = PlaceLeft'
        /\ Left'[4] = StageLeft' /\ Left'[5] = PartsLeft' /\ DOMAIN Left' = 1 .. 5
    BY DEF Left
  <2>3. \/ Left'[1] < Left[1]
        \/ Left'[1] = Left[1] /\ Left'[2] < Left[2]
        \/ Left'[1] = Left[1] /\ Left'[2] = Left[2] /\ Left'[3] < Left[3]
        \/ /\ Left'[1] = Left[1] /\ Left'[2] = Left[2] /\ Left'[3] = Left[3]
           /\ Left'[4] < Left[4]
        \/ /\ Left'[1] = Left[1] /\ Left'[2] = Left[2] /\ Left'[3] = Left[3]
           /\ Left'[4] = Left[4] /\ Left'[5] < Left[5]
        \/ UNCHANGED vars
    BY <2>1, <2>2, StepShortens
  <2> QED
    BY <2>2, <2>3, BelowAt
<1> QED
  BY <1>1, <1>2, <1>3, <1>4, PTL DEF Spec
-----------------------------------------------------------------------------
(***************************************************************************)
(* The wire formats.  What a fold over the transcript has come to behind   *)
(* each of its messages is told by the place of the last assistant message *)
(* and the protocol of the transcript.                                     *)
(***************************************************************************)

\* A non-empty set of naturals has a least element.
LEMMA LeastNatural ==
  ASSUME NEW S \in SUBSET Nat, S # {}
  PROVE  \E m \in S : \A n \in S : m <= n
<1> DEFINE R == {p \in Nat \X Nat : p[1] < p[2]}
<1>1. IsWellFoundedOn(R, Nat)
  BY NatLessThanWellFounded DEF OpToRel
<1> HIDE DEF R
<1>2. PICK m \in S : \A n \in S : <<n, m>> \notin R
  BY <1>1, WFMin
<1>3. \A n \in S : ~(n < m)
  BY <1>2 DEF R
<1> QED
  BY <1>3

\* Induction up to n: a set that holds 0 and every successor holds all.
LEMMA CountUp ==
  ASSUME NEW n \in Nat, NEW S, 0 \in S, \A k \in 1..n : k - 1 \in S => k \in S
  PROVE  0..n \subseteq S
<1> DEFINE B == {k \in 0..n : k \notin S}
<1>1. SUFFICES ASSUME B # {} PROVE FALSE
  OBVIOUS
<1>2. B \in SUBSET Nat
  OBVIOUS
<1>3. PICK m \in B : \A k \in B : m <= k
  <2> HIDE DEF B
  <2> QED
    BY <1>1, <1>2, LeastNatural
<1>4. m \in 1..n /\ m - 1 \in 0..n
  BY <1>3
<1>5. m - 1 \notin B
  BY <1>3, <1>4
<1> QED
  BY <1>3, <1>4, <1>5

LEMMA MaxOfRange ==
  ASSUME NEW n \in Nat, NEW s \in SUBSET (1..n), s # {}
  PROVE  Max(s) \in s /\ \A y \in s : y <= Max(s)
<1> DEFINE D == {d \in 0..n : n - d \in s}
<1>1. D \in SUBSET Nat /\ D # {}
  <2>1. PICK y \in s : TRUE
    OBVIOUS
  <2>2. n - y \in 0..n /\ n - (n - y) = y
    BY <2>1
  <2>3. n - y \in D
    BY <2>1, <2>2
  <2>4. D \in SUBSET Nat
    OBVIOUS
  <2> QED
    BY <2>3, <2>4
<1>2. PICK d \in D : \A e \in D : d <= e
  <2> HIDE DEF D
  <2> QED
    BY <1>1, LeastNatural
<1>3. n - d \in s /\ \A y \in s : n - d >= y
  <2>1. ASSUME NEW y \in s PROVE n - d >= y
    <3>1. n - y \in 0..n /\ n - (n - y) = y
      OBVIOUS
    <3>2. n - y \in D
      BY <3>1
    <3> QED
      BY <1>2, <3>1, <3>2
  <2> QED
    BY <2>1
<1>4. \A y \in s : y \in Int
  OBVIOUS
<1>5. Max(s) \in s /\ \A y \in s : Max(s) >= y
  BY <1>3 DEF Max
<1> QED
  BY <1>4, <1>5

LEMMA MaxOfPrefix ==
  ASSUME NEW k \in Nat \ {0}
  PROVE  Max(1..k) = k /\ (1..k) \ {k} = 1..(k - 1)
<1>1. 1..k \in SUBSET (1..k) /\ 1..k # {}
  OBVIOUS
<1>2. Max(1..k) \in 1..k /\ \A y \in 1..k : y <= Max(1..k)
  BY <1>1, MaxOfRange
<1> QED
  BY <1>2

\* g is the fold of n items from base, where item k takes a result d to f[<<d, k>>]:
\* a function of the sets of items, as FoldLeft is defined.
IsFold(g, n, base, f) ==
  \A s \in SUBSET (1..n) :
    g[s] = IF s = {} THEN base ELSE f[<<g[s \ {Max(s)}], Max(s)>>]

\* The recursion behind a fold has a solution.
LEMMA FoldExists ==
  ASSUME NEW n \in Nat, NEW D, NEW base \in D, NEW f \in [D \X (1..n) -> D]
  PROVE  \E g \in [SUBSET (1..n) -> D] : IsFold(g, n, base, f)
<1> DEFINE Solves(g, m) == IsFold(g, m, base, f)
           S == {m \in 0..n : \E g \in [SUBSET (1..m) -> D] : Solves(g, m)}
<1>1. 0 \in S
  <2> DEFINE g == [s \in SUBSET (1..0) |-> base]
  <2>1. g \in [SUBSET (1..0) -> D] /\ Solves(g, 0)
    BY DEF IsFold
  <2>2. 0 \in 0..n
    OBVIOUS
  <2> HIDE DEF Solves, g
  <2> QED
    BY <2>1, <2>2
<1>2. ASSUME NEW m \in 1..n, m - 1 \in S PROVE m \in S
  <2>1. PICK g \in [SUBSET (1..(m - 1)) -> D] : Solves(g, m - 1)
    BY <1>2
  <2> DEFINE h == [s \in SUBSET (1..m) |-> IF m \in s THEN f[<<g[s \ {m}], m>>] ELSE g[s]]
  <2>2. \A s \in SUBSET (1..m) : s \ {m} \in SUBSET (1..(m - 1)) /\ (m \notin s => s \in SUBSET (1..(m - 1)))
    OBVIOUS
  <2>3. h \in [SUBSET (1..m) -> D]
    <3>1. ASSUME NEW s \in SUBSET (1..m) PROVE h[s] \in D
      <4>1. CASE m \in s
        <5>1. g[s \ {m}] \in D
          BY <2>1, <2>2
        <5> QED
          BY <4>1, <5>1
      <4>2. CASE m \notin s
        BY <2>1, <2>2, <4>2
      <4> QED
        BY <4>1, <4>2
    <3> QED
      BY <3>1
  <2>4. ASSUME NEW s \in SUBSET (1..m)
        PROVE  h[s] = IF s = {} THEN base ELSE f[<<h[s \ {Max(s)}], Max(s)>>]
    <3>1. CASE m \in s
      <4>1. Max(s) = m
        <5>1. m \in Nat /\ s \in SUBSET (1..m) /\ s # {}
          BY <3>1
        <5>2. Max(s) \in s /\ \A y \in s : y <= Max(s)
          BY <5>1, MaxOfRange
        <5>3. m <= Max(s)
          BY <3>1, <5>2
        <5>4. Max(s) \in 1..m
          BY <5>1, <5>2
        <5> QED
          BY <5>3, <5>4
      <4>2. h[s \ {m}] = g[s \ {m}]
        OBVIOUS
      <4>3. h[s] = f[<<g[s \ {m}], m>>]
        BY <3>1
      <4> QED
        BY <3>1, <4>1, <4>2, <4>3
    <3>2. CASE m \notin s
      <4>1. s \in SUBSET (1..(m - 1)) /\ s \ {Max(s)} \in SUBSET (1..(m - 1))
        BY <2>2, <3>2
      <4>2. h[s] = g[s] /\ h[s \ {Max(s)}] = g[s \ {Max(s)}]
        BY <3>2
      <4> HIDE DEF h
      <4> QED
        BY <2>1, <4>1, <4>2 DEF IsFold
    <3> QED
      BY ONLY <3>1, <3>2
  <2> HIDE DEF h
  <2>5. Solves(h, m)
    BY <2>4 DEF IsFold
  <2> HIDE DEF Solves
  <2> QED
    BY <2>3, <2>5
<1>3. n \in S
  <2> HIDE DEF S
  <2> QED
    BY <1>1, <1>2, CountUp
<1> QED
  BY <1>3

\* An assistant message that others follow asks for a tool.
AskedInv ==
  phase \in {"chat", "tools"} =>
    \A i \in DOMAIN messages : messages[i].role = "assistant" => messages[i].calls # <<>>

LEMMA AskedAppend ==
  ASSUME messages \in Seq(AssistantMessage \cup ToolMessage), AskedInv, phase \in {"chat", "tools"},
         NEW m \in AssistantMessage \cup ToolMessage, messages' = Append(messages, m),
         m.role = "assistant" => m.calls # <<>>
  PROVE  AskedInv'
<1>1. /\ messages' \in Seq(AssistantMessage \cup ToolMessage) /\ Len(messages') = Len(messages) + 1
      /\ messages'[Len(messages) + 1] = m /\ \A k \in 1..Len(messages) : messages'[k] = messages[k]
      /\ Len(messages) \in Nat
  BY AppendProperties
<1>2. DOMAIN messages' = 1..(Len(messages) + 1) /\ DOMAIN messages = 1..Len(messages)
  BY <1>1
<1>3. \A i \in 1..(Len(messages) + 1) : i = Len(messages) + 1 \/ i \in 1..Len(messages)
  BY <1>1
<1> QED
  BY <1>1, <1>2, <1>3 DEF AskedInv

LEMMA StepKeepsAsked == TranscriptInv /\ AskedInv /\ [Next]_vars => AskedInv'
<1> SUFFICES ASSUME TypeOK, NextInv, RequestInv, AskedInv, [Next]_vars PROVE AskedInv'
  BY DEF TranscriptInv
<1>1. CASE UNCHANGED <<phase, messages>>
  BY <1>1 DEF AskedInv
<1>2. CASE phase' \in {"returned", "raised"}
  BY <1>2 DEF AskedInv
<1>3. ASSUME NEW length, NEW requested \in SeqOf(Tools, MaxCalls), CallTools(length, requested)
      PROVE  AskedInv'
  <2> DEFINE m == [role |-> "assistant", step |-> step, calls |-> requested]
  <2>1. requested # <<>> /\ phase = "chat"
    BY <1>3 DEF CallTools, RequestInv, Reply, StreamReply, PlainReply, FallbackReply
  <2>2. m \in AssistantMessage /\ m.calls # <<>>
    <3>1. requested \in Seq(Tools) /\ step \in Nat
      BY RequestedTyped DEF TypeOK
    <3> QED
      BY <2>1, <3>1 DEF AssistantMessage
  <2>3. messages' = Append(messages, m)
    BY <1>3 DEF CallTools
  <2> HIDE DEF m
  <2> QED
    BY <2>1, <2>2, <2>3, AskedAppend DEF TypeOK
<1>4. ASSUME NEW outcome \in Outcomes, Settle(outcome), phase = "tools" PROVE AskedInv'
  <2> DEFINE m == [role |-> "tool", call |-> Current, outcome |-> outcome]
  <2>1. m \in ToolMessage /\ m.role # "assistant"
    <3>1. Current \in Call
      BY <1>4, CurrentTyped DEF NextInv
    <3> QED
      BY <3>1 DEF ToolMessage
  <2>2. messages' = Append(messages, m)
    BY <1>4 DEF Settle
  <2> HIDE DEF m
  <2> QED
    BY <1>4, <2>1, <2>2, AskedAppend DEF TypeOK
<1> QED
  BY <1>1, <1>2, <1>3, <1>4
  DEF Next, Ask, Wait, ModelFails, Answer, Announce, Approve, Execute, ToolRaises, ToolReturns, Deny,
      UnknownTool, Handling, Outcomes, loopVars, vars, Ended

WireMessage == [role : {"assistant"}, uses : Seq(Call)] \cup [role : {"user"}, results : Seq(Call)]

Converted == [result : Seq(WireMessage), pending : Seq(Call)]

\* What a run sends.
Message == [role : {"user"}] \cup AssistantMessage \cup ToolMessage

LEMMA CallsTyped ==
  ASSUME NEW m \in AssistantMessage
  PROVE  /\ CallsOf(m) \in Seq(Call) /\ Len(CallsOf(m)) = Len(m.calls)
         /\ \A p \in 1..Len(m.calls) : CallsOf(m)[p] = [step |-> m.step, pos |-> p, tool |-> m.calls[p]]
<1>1. m.calls \in Seq(Tools) /\ m.step \in Nat /\ DOMAIN m.calls = 1..Len(m.calls) /\ Len(m.calls) \in Nat
  BY DEF AssistantMessage
<1>2. \A p \in 1..Len(m.calls) : [step |-> m.step, pos |-> p, tool |-> m.calls[p]] \in Call
  BY <1>1 DEF Call
<1>3. CallsOf(m) \in [1..Len(m.calls) -> Call]
  BY <1>1, <1>2 DEF CallsOf
<1>4. CallsOf(m) \in Seq(Call) /\ Len(CallsOf(m)) = Len(m.calls)
  BY <1>1, <1>3
<1> QED
  BY <1>1, <1>4 DEF CallsOf

LEMMA FlushedTyped ==
  ASSUME NEW acc \in Converted
  PROVE  Flushed(acc) \in Converted
<1>1. acc.result \in Seq(WireMessage) /\ acc.pending \in Seq(Call)
  BY DEF Converted
<1>2. [role |-> "user", results |-> acc.pending] \in WireMessage
  BY <1>1 DEF WireMessage
<1>3. Append(acc.result, [role |-> "user", results |-> acc.pending]) \in Seq(WireMessage)
  BY <1>1, <1>2
<1>4. <<>> \in Seq(Call)
  OBVIOUS
<1> QED
  BY <1>3, <1>4 DEF Flushed, Converted

\* The message that m becomes in the list, if it is not a tool's.
Wire(m) == IF m.role = "user" THEN [role |-> "user", results |-> <<>>]
           ELSE [role |-> "assistant", uses |-> CallsOf(m)]

LEMMA ConvertedTyped ==
  ASSUME NEW acc \in Converted, NEW m \in Message
  PROVE  /\ ToAnthropic(acc, m) \in Converted
         /\ m.role = "tool" =>
              ToAnthropic(acc, m) = [result |-> acc.result, pending |-> Append(acc.pending, m.call)]
         /\ m.role # "tool" =>
              /\ Wire(m) \in WireMessage
              /\ ToAnthropic(acc, m) =
                   [result |-> Append(Flushed(acc).result, Wire(m)), pending |-> Flushed(acc).pending]
<1>1. acc.result \in Seq(WireMessage) /\ acc.pending \in Seq(Call)
      /\ acc = [result |-> acc.result, pending |-> acc.pending]
  BY DEF Converted
<1>2. Flushed(acc).result \in Seq(WireMessage) /\ Flushed(acc).pending \in Seq(Call)
      /\ Flushed(acc) = [result |-> Flushed(acc).result, pending |-> Flushed(acc).pending]
  BY FlushedTyped DEF Converted
<1>3. CASE m.role = "tool"
  <2>1. m.call \in Call
    BY <1>3 DEF Message, ToolMessage, AssistantMessage
  <2>2. Append(acc.pending, m.call) \in Seq(Call)
    BY <1>1, <2>1
  <2>3. ToAnthropic(acc, m) = [result |-> acc.result, pending |-> Append(acc.pending, m.call)]
    BY <1>1, <1>3 DEF ToAnthropic
  <2> QED
    BY <1>1, <1>3, <2>2, <2>3 DEF Converted
<1>4. CASE m.role # "tool"
  <2>1. m.role = "user" \/ (m.role = "assistant" /\ m \in AssistantMessage)
    BY <1>4 DEF Message, ToolMessage, AssistantMessage
  <2> DEFINE w == Wire(m)
  <2>2. w \in WireMessage
    <3>1. <<>> \in Seq(Call)
      OBVIOUS
    <3> QED
      BY <2>1, <3>1, CallsTyped DEF WireMessage, Wire
  <2>3. ToAnthropic(acc, m) = [Flushed(acc) EXCEPT !.result = Append(@, w)]
    BY <1>4, <2>1 DEF ToAnthropic, Wire
  <2> HIDE DEF w
  <2>4. Append(Flushed(acc).result, w) \in Seq(WireMessage)
    BY <1>2, <2>2
  <2>5. ToAnthropic(acc, m) = [result |-> Append(Flushed(acc).result, w), pending |-> Flushed(acc).pending]
    BY <1>2, <2>3
  <2> QED
    BY <1>2, <1>4, <2>2, <2>4, <2>5 DEF Converted, w
<1> QED
  BY <1>3, <1>4

\* What _to_anthropic_messages has made of the first k messages.
LEMMA AnthropicFold ==
  ASSUME NEW L \in Seq(Message)
  PROVE  \E g \in [0..Len(L) -> Converted] :
           /\ AnthropicMessages(L) = Flushed(g[Len(L)]).result /\ g[0] = NoMessages
           /\ \A k \in 1..Len(L) : g[k] = ToAnthropic(g[k - 1], L[k])
<1> DEFINE n == Len(L)
           b == NoMessages
           f == [p \in Converted \X (1..n) |-> ToAnthropic(p[1], L[p[2]])]
           h == CHOOSE h : h = [s \in SUBSET DOMAIN L |->
                  IF s = {} THEN b ELSE ToAnthropic(h[s \ {Max(s)}], L[Max(s)])]
<1>1. n \in Nat /\ DOMAIN L = 1..n /\ \A k \in 1..n : L[k] \in Message
  OBVIOUS
<1>2. b \in Converted
  <2>1. <<>> \in Seq(WireMessage) /\ <<>> \in Seq(Call)
    OBVIOUS
  <2> QED
    BY <2>1 DEF NoMessages, Converted
<1>3. f \in [Converted \X (1..n) -> Converted]
  <2>1. ASSUME NEW p \in Converted \X (1..n) PROVE ToAnthropic(p[1], L[p[2]]) \in Converted
    <3>1. p[1] \in Converted /\ p[2] \in 1..n
      OBVIOUS
    <3> QED
      BY <1>1, <3>1, ConvertedTyped
  <2> QED
    BY <2>1
<1>4. AnthropicMessages(L) = Flushed(h[DOMAIN L]).result
  BY Zenon DEF AnthropicMessages, FoldLeft, MapThenFoldSet
<1> HIDE DEF f, b, n
<1>5. PICK g \in [SUBSET (1..n) -> Converted] : IsFold(g, n, b, f)
  BY <1>1, <1>2, <1>3, FoldExists
<1>6. ASSUME NEW s \in SUBSET DOMAIN L
      PROVE  g[s] = IF s = {} THEN b ELSE ToAnthropic(g[s \ {Max(s)}], L[Max(s)])
  <2>1. s # {} => Max(s) \in 1..n /\ g[s \ {Max(s)}] \in Converted
    BY <1>1, <1>5, MaxOfRange
  <2>2. s # {} => f[<<g[s \ {Max(s)}], Max(s)>>] = ToAnthropic(g[s \ {Max(s)}], L[Max(s)])
    BY <2>1 DEF f
  <2> QED
    BY <1>1, <1>5, <2>2 DEF IsFold
<1>7. g = [s \in SUBSET DOMAIN L |->
             IF s = {} THEN b ELSE ToAnthropic(g[s \ {Max(s)}], L[Max(s)])]
  BY <1>1, <1>5, <1>6
<1>8. h = [s \in SUBSET DOMAIN L |->
             IF s = {} THEN b ELSE ToAnthropic(h[s \ {Max(s)}], L[Max(s)])]
  BY <1>7, Zenon
<1> HIDE DEF h
<1> DEFINE r == [k \in 0..n |-> h[1..k]]
<1>9. r[0] = b /\ AnthropicMessages(L) = Flushed(r[n]).result
  <2>1. 1..0 = {} /\ {} \in SUBSET DOMAIN L
    OBVIOUS
  <2>2. h[{}] = b
    BY <1>8, <2>1
  <2>3. 0 \in 0..n /\ n \in 0..n
    BY <1>1
  <2>4. r[0] = h[1..0] /\ r[n] = h[1..n]
    BY <2>3
  <2> HIDE DEF r
  <2> QED
    BY <1>1, <1>4, <2>1, <2>2, <2>4
<1>10. ASSUME NEW k \in 1..n PROVE r[k] = ToAnthropic(r[k - 1], L[k])
  <2>0. k \in Nat \ {0} /\ k <= n
    BY <1>1
  <2>1. 1..k \in SUBSET DOMAIN L /\ 1..k # {}
    <3>1. k \in 1..k
      BY <2>0
    <3>2. \A j \in 1..k : j \in DOMAIN L
      BY <1>1, <2>0
    <3> QED
      BY <3>1, <3>2
  <2>2. h[1..k] = ToAnthropic(h[(1..k) \ {Max(1..k)}], L[Max(1..k)])
    BY <1>8, <2>1
  <2>3. Max(1..k) = k /\ (1..k) \ {k} = 1..(k - 1)
    BY <2>0, MaxOfPrefix
  <2>4. k \in 0..n /\ k - 1 \in 0..n
    BY <1>1
  <2>5. r[k] = h[1..k] /\ r[k - 1] = h[1..(k - 1)]
    BY <2>4
  <2> QED
    BY <2>2, <2>3, <2>5
<1>11. DOMAIN r = 0..n /\ r = [k \in 0..n |-> r[k]]
  OBVIOUS
<1> HIDE DEF r
<1>12. r \in [0..n -> Converted]
  <2> DEFINE S == {k \in 0..n : r[k] \in Converted}
  <2>1. 0 \in S
    BY <1>1, <1>2, <1>9
  <2>2. ASSUME NEW k \in 1..n, k - 1 \in S PROVE k \in S
    <3>1. r[k - 1] \in Converted /\ L[k] \in Message
      BY <1>1, <2>2
    <3>2. ToAnthropic(r[k - 1], L[k]) \in Converted
      BY <3>1, ConvertedTyped
    <3>3. k \in 0..n
      BY <1>1
    <3> QED
      BY <1>10, <3>2, <3>3
  <2> HIDE DEF S
  <2>3. 0..n \subseteq S
    BY <1>1, <2>1, <2>2, CountUp
  <2> QED
    BY <1>11, <2>3 DEF S
<1> QED
  BY <1>9, <1>10, <1>12 DEF b, n

\* The roles take turns from the first given message on, and every user message has the
\* results of the calls before it.
Alternating(n, result) ==
  /\ Len(result) > 0
  /\ result[1].role = "user" <=> n % 2 = 0
  /\ \A i \in 1..Len(result) - 1 : Follows(result[i], result[i + 1])

LEMMA AlternatingAppend ==
  ASSUME NEW n \in Nat, NEW result \in Seq(WireMessage), Alternating(n, result), NEW w \in WireMessage,
         Follows(result[Len(result)], w)
  PROVE  /\ Alternating(n, Append(result, w)) /\ Append(result, w) \in Seq(WireMessage)
         /\ Len(Append(result, w)) = Len(result) + 1 /\ Append(result, w)[Len(result) + 1] = w
<1> DEFINE a == Append(result, w)
           l == Len(result)
<1>1. /\ a \in Seq(WireMessage) /\ Len(a) = l + 1 /\ a[l + 1] = w /\ \A k \in 1..l : a[k] = result[k]
      /\ l \in Nat /\ l > 0
  BY AppendProperties DEF Alternating
<1> HIDE DEF a, l
<1>2. ASSUME NEW i \in 1..Len(a) - 1 PROVE Follows(a[i], a[i + 1])
  <2>1. CASE i = l
    <3>1. i \in 1..l /\ Follows(result[l], w)
      BY <1>1, <2>1 DEF l
    <3> QED
      BY <1>1, <2>1, <3>1
  <2>2. CASE i # l
    <3>1. i \in 1..l /\ i + 1 \in 1..l /\ i \in 1..l - 1
      BY <1>1, <2>2
    <3>2. Follows(result[i], result[i + 1])
      BY <3>1 DEF Alternating, l
    <3> QED
      BY <1>1, <3>1, <3>2
  <2> QED
    BY <2>1, <2>2
<1>3. a[1] = result[1]
  <2>1. 1 \in 1..l
    BY <1>1
  <2> QED
    BY <1>1, <2>1
<1>4. Alternating(n, a)
  BY <1>1, <1>2, <1>3 DEF Alternating
<1> QED
  BY <1>1, <1>4 DEF a, l
-----------------------------------------------------------------------------
(* The messages given *)

LEMMA GivenTyped ==
  ASSUME NEW n \in Nat
  PROVE  /\ Given(n) \in Seq(Message) /\ Len(Given(n)) = n + 1
         /\ \A i \in 1..n + 1 :
              /\ Given(n)[i].role = IF (n + 1 - i) % 2 = 0 THEN "user" ELSE "assistant"
              /\ Given(n)[i].role = "assistant" => Given(n)[i] \in AssistantMessage /\ Given(n)[i].calls = <<>>
<1> DEFINE u == [role |-> "user"]
           a == [role |-> "assistant", step |-> 0, calls |-> <<>>]
<1>1. u \in Message /\ a \in Message /\ a \in AssistantMessage /\ u.role = "user" /\ a.role = "assistant"
      /\ a.calls = <<>>
  BY DEF Message, AssistantMessage
<1>2. Given(n) = [i \in 1..n + 1 |-> IF (n + 1 - i) % 2 = 0 THEN u ELSE a]
  BY DEF Given
<1> HIDE DEF u, a
<1>3. Given(n) \in [1..n + 1 -> Message]
  BY <1>1, <1>2
<1>4. n + 1 \in Nat
  OBVIOUS
<1>5. Given(n) \in Seq(Message) /\ Len(Given(n)) = n + 1
  BY <1>3, <1>4
<1> QED
  BY <1>1, <1>2, <1>5

LEMMA SentTyped ==
  ASSUME NEW n \in Nat, messages \in Seq(AssistantMessage \cup ToolMessage)
  PROVE  /\ Sent(n) \in Seq(Message) /\ Len(Sent(n)) = n + 1 + Len(messages)
         /\ \A i \in 1..n + 1 : Sent(n)[i] = Given(n)[i]
         /\ \A k \in 1..Len(messages) : Sent(n)[n + 1 + k] = messages[k]
<1>1. messages \in Seq(Message) /\ Len(messages) \in Nat
  <2>1. Len(messages) \in Nat /\ messages \in [1..Len(messages) -> AssistantMessage \cup ToolMessage]
    BY LenProperties
  <2>2. messages \in [1..Len(messages) -> Message]
    BY <2>1 DEF Message
  <2> QED
    BY <2>1, <2>2
<1>2. Given(n) \in Seq(Message) /\ Len(Given(n)) = n + 1
  BY GivenTyped
<1>3. /\ Sent(n) \in Seq(Message) /\ Len(Sent(n)) = n + 1 + Len(messages)
      /\ \A i \in 1..n + 1 + Len(messages) :
           Sent(n)[i] = IF i <= n + 1 THEN Given(n)[i] ELSE messages[i - (n + 1)]
  <2> DEFINE a == Given(n)
             b == messages
  <2>1. a \in Seq(Message) /\ b \in Seq(Message) /\ Len(a) = n + 1 /\ Len(b) \in Nat
    BY <1>1, <1>2
  <2>2. Sent(n) = a \o b
    BY DEF Sent
  <2> HIDE DEF a, b
  <2>3. /\ a \o b \in Seq(Message) /\ Len(a \o b) = Len(a) + Len(b)
        /\ \A i \in 1..Len(a) + Len(b) : (a \o b)[i] = IF i <= Len(a) THEN a[i] ELSE b[i - Len(a)]
    BY <2>1, ConcatProperties
  <2>4. /\ Len(Sent(n)) = (n + 1) + Len(b)
        /\ \A i \in 1..(n + 1) + Len(b) : Sent(n)[i] = IF i <= n + 1 THEN a[i] ELSE b[i - (n + 1)]
    BY <2>1, <2>2, <2>3
  <2>5. Sent(n) \in Seq(Message)
    BY <2>2, <2>3
  <2> QED
    BY <2>4, <2>5 DEF a, b
<1>4. ASSUME NEW i \in 1..n + 1 PROVE Sent(n)[i] = Given(n)[i]
  <2>1. i \in 1..n + 1 + Len(messages) /\ i <= n + 1
    BY <1>1
  <2> QED
    BY <1>3, <2>1
<1>5. ASSUME NEW k \in 1..Len(messages) PROVE Sent(n)[n + 1 + k] = messages[k]
  <2>1. n + 1 + k \in 1..n + 1 + Len(messages) /\ ~(n + 1 + k <= n + 1) /\ (n + 1 + k) - (n + 1) = k
    BY <1>1
  <2> QED
    BY <1>3, <2>1
<1> QED
  BY <1>3, <1>4, <1>5

\* A list that ends with the user's message, all results in their place.
Ready(n, acc) ==
  /\ acc \in Converted /\ acc.pending = <<>> /\ Alternating(n, acc.result)
  /\ acc.result[Len(acc.result)].role = "user"

\* The given messages leave such a list.
LEMMA GivenReady ==
  ASSUME NEW n \in Nat, NEW l \in Nat, l >= n + 1, NEW g \in [0..l -> Converted], g[0] = NoMessages,
         \A k \in 1..n + 1 : g[k] = ToAnthropic(g[k - 1], Given(n)[k])
  PROVE  Ready(n, g[n + 1])
<1> DEFINE G == Given(n)
           Opened(k) == /\ g[k].pending = <<>> /\ Alternating(n, g[k].result)
                        /\ Len(g[k].result) = k /\ g[k].result[k] = Wire(G[k])
<1>1. \A k \in 1..n + 1 :
        /\ G[k] \in Message /\ G[k].role # "tool"
        /\ G[k].role = IF (n + 1 - k) % 2 = 0 THEN "user" ELSE "assistant"
        /\ G[k].role = "assistant" => CallsOf(G[k]) = <<>>
  <2>1. ASSUME NEW k \in 1..n + 1, G[k].role = "assistant" PROVE CallsOf(G[k]) = <<>>
    <3>1. G[k] \in AssistantMessage /\ G[k].calls = <<>>
      BY <2>1, GivenTyped
    <3>2. CallsOf(G[k]) \in Seq(Call) /\ Len(CallsOf(G[k])) = Len(G[k].calls) /\ Len(<<>>) = 0
      BY <3>1, CallsTyped
    <3> QED
      BY <3>1, <3>2, EmptySeq
  <2>2. \A k \in 1..n + 1 : G[k] \in Message
    BY GivenTyped, ElementOfSeq
  <2> QED
    BY <2>1, <2>2, GivenTyped
<1> HIDE DEF G
<1>2. ASSUME NEW k \in 1..n + 1
      PROVE  /\ Wire(G[k]).role = (IF (n + 1 - k) % 2 = 0 THEN "user" ELSE "assistant")
             /\ Wire(G[k]).role = "assistant" => Wire(G[k]).uses = <<>>
             /\ Wire(G[k]).role = "user" => Wire(G[k]) = [role |-> "user", results |-> <<>>]
             /\ Wire(G[k]) \in WireMessage
  <2>1. G[k] \in Message /\ G[k].role # "tool" /\ G[k].role \in {"user", "assistant"}
    BY <1>1
  <2>2. NoMessages \in Converted
    <3>1. <<>> \in Seq(WireMessage) /\ <<>> \in Seq(Call)
      OBVIOUS
    <3> QED
      BY <3>1 DEF NoMessages, Converted
  <2>3. Wire(G[k]) \in WireMessage
    BY <2>1, <2>2, ConvertedTyped
  <2> QED
    BY <1>1, <2>1, <2>3 DEF Wire
<1>3. ASSUME NEW k \in 1..n + 1, g[k - 1].pending = <<>>
      PROVE  g[k].result = Append(g[k - 1].result, Wire(G[k])) /\ g[k].pending = <<>>
             /\ g[k - 1].result \in Seq(WireMessage)
  <2>1. k - 1 \in 0..l /\ g[k - 1] \in Converted
    OBVIOUS
  <2>2. Flushed(g[k - 1]) = g[k - 1]
    BY <1>3 DEF Flushed
  <2>3. g[k] = ToAnthropic(g[k - 1], G[k])
    BY DEF G
  <2>4. G[k] \in Message /\ G[k].role # "tool"
    BY <1>1
  <2>5. ToAnthropic(g[k - 1], G[k]) = [result |-> Append(g[k - 1].result, Wire(G[k])), pending |-> <<>>]
    <3> DEFINE acc == g[k - 1]
               m == G[k]
    <3>1. acc \in Converted /\ m \in Message /\ m.role # "tool"
      BY <2>1, <2>4
    <3>2. acc.pending = <<>> /\ Flushed(acc) = acc
      BY <1>3, <2>2
    <3> HIDE DEF acc, m
    <3>3. ToAnthropic(acc, m) =
            [result |-> Append(Flushed(acc).result, Wire(m)), pending |-> Flushed(acc).pending]
      BY <3>1, ConvertedTyped
    <3>4. ToAnthropic(acc, m) = [result |-> Append(acc.result, Wire(m)), pending |-> <<>>]
      BY <3>2, <3>3
    <3> QED
      BY <3>4 DEF acc, m
  <2>6. g[k - 1].result \in Seq(WireMessage)
    BY <2>1 DEF Converted
  <2> QED
    BY <2>3, <2>5, <2>6
<1> DEFINE S == {k \in 0..n + 1 : IF k = 0 THEN TRUE ELSE Opened(k)}
<1>4. 0 \in S
  OBVIOUS
<1>5. ASSUME NEW k \in 1..n + 1, k - 1 \in S PROVE k \in S
  <2>0. k # 0 /\ k \in 0..n + 1 /\ k - 1 \in Nat
    OBVIOUS
  <2>1. CASE k = 1
    <3>1. g[k - 1] = NoMessages /\ NoMessages.pending = <<>> /\ NoMessages.result = <<>>
      BY <2>1 DEF NoMessages
    <3>2. g[k].result = Append(<<>>, Wire(G[k])) /\ g[k].pending = <<>>
      BY <1>3, <3>1
    <3>3. <<>> \in Seq(WireMessage) /\ Len(<<>>) = 0 /\ Wire(G[k]) \in WireMessage
      BY <1>2
    <3>4. Len(g[k].result) = 1 /\ g[k].result[1] = Wire(G[k])
      BY <3>2, <3>3, AppendProperties
    <3>5. 1..Len(g[k].result) - 1 = {} /\ n + 1 - k = n
      BY <2>1, <3>4
    <3>6. Wire(G[k]).role = "user" <=> n % 2 = 0
      BY <1>2, <3>5
    <3>7. Alternating(n, g[k].result)
      BY <3>4, <3>5, <3>6 DEF Alternating
    <3>8. Opened(k)
      BY <2>1, <3>2, <3>4, <3>7
    <3> HIDE DEF Opened
    <3> QED
      BY <2>0, <3>8
  <2>2. CASE k # 1
    <3> DEFINE h == k - 1
               R == g[h].result
               w == Wire(G[k])
    <3>1. h \in 1..n + 1 /\ h # 0 /\ k = h + 1
      BY <2>2
    <3>2. Opened(h)
      BY <1>5, <3>1
    <3>3. R \in Seq(WireMessage) /\ g[k].result = Append(R, w) /\ g[k].pending = <<>> /\ w \in WireMessage
      BY <1>2, <1>3, <3>2
    <3>4. Follows(R[Len(R)], w)
      <4>1. R[Len(R)] = Wire(G[h])
        BY <3>2
      <4>2. (n + 1 - h) % 2 = 0 <=> ~((n + 1 - k) % 2 = 0)
        BY <3>1
      <4>3. /\ Wire(G[h]).role = (IF (n + 1 - h) % 2 = 0 THEN "user" ELSE "assistant")
            /\ Wire(G[h]).role = "assistant" => Wire(G[h]).uses = <<>>
        BY <1>2, <3>1
      <4>4. /\ w.role = (IF (n + 1 - k) % 2 = 0 THEN "user" ELSE "assistant")
            /\ w.role = "user" => w = [role |-> "user", results |-> <<>>]
        BY <1>2
      <4> HIDE DEF h, R, w
      <4> QED
        BY <4>1, <4>2, <4>3, <4>4 DEF Follows
    <3>5. Alternating(n, R) /\ Len(R) = h
      BY <3>2
    <3> HIDE DEF h, R, w
    <3>6. /\ Alternating(n, Append(R, w)) /\ Len(Append(R, w)) = Len(R) + 1
          /\ Append(R, w)[Len(R) + 1] = w
      BY <3>3, <3>4, <3>5, AlternatingAppend
    <3>7. Opened(k)
      BY <3>1, <3>3, <3>5, <3>6 DEF w
    <3> HIDE DEF Opened
    <3> QED
      BY <2>0, <3>7
  <2> QED
    BY <2>1, <2>2
<1>6. 0..n + 1 \subseteq S
  <2> HIDE DEF S
  <2>1. n + 1 \in Nat
    OBVIOUS
  <2> QED
    BY <1>4, <1>5, <2>1, CountUp
<1>7. Opened(n + 1)
  <2>1. n + 1 \in S /\ n + 1 # 0
    BY <1>6
  <2> QED
    BY <2>1
<1>8. n + 1 \in 1..n + 1 /\ (n + 1) - (n + 1) = 0 /\ 0 % 2 = 0 /\ n + 1 \in 0..l
  OBVIOUS
<1>9. Wire(G[n + 1]).role = "user"
  BY <1>2, <1>8
<1> QED
  BY <1>7, <1>8, <1>9 DEF Ready

-----------------------------------------------------------------------------
(* The messages of the run *)

\* acc has what was given and the run's first k messages, the last assistant message among
\* them at i.
Reached(n, acc, k, i) ==
  /\ messages[i].role = "assistant" /\ k - i <= Len(messages[i].calls)
  /\ Alternating(n, acc.result)
  /\ acc.result[Len(acc.result)] = [role |-> "assistant", uses |-> CallsOf(messages[i])]
  /\ Len(acc.pending) = k - i
  /\ \A p \in 1..(k - i) : acc.pending[p] = CallsOf(messages[i])[p]

Protocol ==
  /\ messages \in Seq(AssistantMessage \cup ToolMessage)
  /\ \A i \in DOMAIN messages :
       IF messages[i].role = "assistant" THEN AnswersAll(i) /\ messages[i].calls # <<>>
       ELSE AnswersSome(i)

\* The results of an assistant message are complete when the next one comes.
LEMMA FlushReached ==
  ASSUME Protocol, NEW n \in Nat, NEW k \in Nat, NEW i \in DOMAIN messages, NEW acc \in Converted,
         Reached(n, acc, k, i), k - i = Len(messages[i].calls)
  PROVE  Ready(n, Flushed(acc))
<1> DEFINE u == [role |-> "user", results |-> acc.pending]
           a == [role |-> "assistant", uses |-> CallsOf(messages[i])]
           R == acc.result
<1>1. acc.pending \in Seq(Call) /\ R \in Seq(WireMessage)
  BY DEF Converted
<1>2. messages[i] \in AssistantMessage /\ messages[i].calls # <<>> /\ messages[i].role = "assistant"
  BY DEF Protocol, Reached, ToolMessage
<1>3. /\ CallsOf(messages[i]) \in Seq(Call) /\ Len(CallsOf(messages[i])) = Len(messages[i].calls)
      /\ messages[i].calls \in Seq(Tools)
  BY <1>2, CallsTyped DEF AssistantMessage
<1>4. acc.pending = CallsOf(messages[i])
  BY <1>1, <1>3, SeqEqual DEF Reached
<1>5. acc.pending # <<>>
  <2>1. Len(messages[i].calls) # 0
    BY <1>2, <1>3, EmptySeq
  <2> QED
    BY <1>3, <1>4, <2>1, EmptySeq
<1>6. u \in WireMessage /\ u.role = "user"
  BY <1>1 DEF WireMessage
<1>7. Alternating(n, R) /\ R[Len(R)] = a
  BY DEF Reached
<1>8. a.role = "assistant" /\ u = [role |-> "user", results |-> a.uses]
  BY <1>4
<1>9. Flushed(acc) = [result |-> Append(R, u), pending |-> <<>>]
  BY <1>5 DEF Flushed
<1> HIDE DEF u, R, a
<1>10. Follows(R[Len(R)], u)
  BY <1>7, <1>8 DEF Follows
<1>11. /\ Alternating(n, Append(R, u)) /\ Len(Append(R, u)) = Len(R) + 1
       /\ Append(R, u)[Len(R) + 1] = u
  BY <1>1, <1>6, <1>7, <1>10, AlternatingAppend
<1>12. Flushed(acc) \in Converted
  BY FlushedTyped
<1>13. Flushed(acc).result = Append(R, u) /\ Flushed(acc).pending = <<>>
  BY <1>9
<1> QED
  BY <1>6, <1>11, <1>12, <1>13 DEF Ready

\* The next message is the answer to a call of the last assistant message.
LEMMA ReachTool ==
  ASSUME Protocol, NEW n \in Nat, NEW k \in Nat, k + 1 \in DOMAIN messages, NEW i \in 1..k, NEW acc \in Converted,
         Reached(n, acc, k, i), messages[k + 1].role # "assistant"
  PROVE  Reached(n, ToAnthropic(acc, messages[k + 1]), k + 1, i)
<1> DEFINE m == messages[k + 1]
           b == ToAnthropic(acc, m)
           c == CallsOf(messages[i])
<1>1. DOMAIN messages = 1..Len(messages) /\ Len(messages) \in Nat /\ i \in DOMAIN messages
  BY DEF Protocol
<1>2. /\ messages[i] \in AssistantMessage /\ messages[i].role = "assistant"
      /\ AnswersAll(i) /\ messages[i].calls \in Seq(Tools) /\ Len(messages[i].calls) \in Nat
  BY <1>1 DEF Protocol, Reached, ToolMessage, AssistantMessage
<1>3. PICK j \in 1..k : messages[j].role = "assistant" /\ (k + 1) - j <= Len(messages[j].calls)
  <2>1. AnswersSome(k + 1)
    BY DEF Protocol
  <2>2. (k + 1) - 1 = k
    OBVIOUS
  <2> QED
    BY <2>1, <2>2 DEF AnswersSome
<1>4. j \in DOMAIN messages /\ messages[j] \in AssistantMessage /\ AnswersAll(j)
      /\ Len(messages[j].calls) \in Nat
  <2>1. j \in DOMAIN messages
    BY <1>1
  <2>2. messages[j] \in AssistantMessage /\ AnswersAll(j)
    BY <1>3, <2>1 DEF Protocol, ToolMessage
  <2> QED
    BY <2>1, <2>2 DEF AssistantMessage
<1>5. j = i
  <2>1. ASSUME j < i PROVE FALSE
    <3>1. i - j \in 1..Len(messages[j].calls) /\ j + (i - j) = i
      BY <1>3, <1>4, <2>1
    <3>2. messages[i].role = "tool"
      BY <1>4, <3>1 DEF AnswersAll
    <3> QED
      BY <1>2, <3>2
  <2>2. ASSUME i < j PROVE FALSE
    <3>1. j - i \in 1..Len(messages[i].calls) /\ i + (j - i) = j
      BY <1>2, <2>2 DEF Reached
    <3>2. messages[j].role = "tool"
      BY <1>2, <3>1 DEF AnswersAll
    <3> QED
      BY <1>3, <3>2
  <2> QED
    BY <2>1, <2>2
<1>6. (k + 1) - i \in 1..Len(messages[i].calls) /\ i + ((k + 1) - i) = k + 1
  BY <1>2, <1>3, <1>5
<1>7. /\ m.role = "tool"
      /\ m.call = [step |-> messages[i].step, pos |-> (k + 1) - i, tool |-> messages[i].calls[(k + 1) - i]]
  BY <1>2, <1>6 DEF AnswersAll
<1>8. m.call = c[(k + 1) - i]
  BY <1>2, <1>6, <1>7, CallsTyped
<1>9. m \in AssistantMessage \cup ToolMessage /\ m \in Message
  BY DEF Protocol, Message
<1>10. b = [result |-> acc.result, pending |-> Append(acc.pending, m.call)]
  BY <1>7, <1>9, ConvertedTyped
<1>11. acc.pending \in Seq(Call) /\ m.call \in Call
  BY <1>7, <1>9 DEF Converted, ToolMessage, AssistantMessage
<1> HIDE DEF b, c, m
<1>12. /\ Len(b.pending) = Len(acc.pending) + 1 /\ b.pending[Len(acc.pending) + 1] = m.call
       /\ \A p \in 1..Len(acc.pending) : b.pending[p] = acc.pending[p]
  BY <1>10, <1>11, AppendProperties
<1>13. Len(acc.pending) = k - i /\ \A p \in 1..(k - i) : acc.pending[p] = c[p]
  BY DEF Reached, c
<1>14. \A p \in 1..((k + 1) - i) : p \in 1..(k - i) \/ p = (k - i) + 1
  OBVIOUS
<1>15. (k + 1) - i = (k - i) + 1
  OBVIOUS
<1>16. Len(b.pending) = (k + 1) - i /\ \A p \in 1..((k + 1) - i) : b.pending[p] = c[p]
  BY <1>8, <1>12, <1>13, <1>14, <1>15
<1>17. b.result = acc.result
  BY <1>10
<1>18. (k + 1) - i <= Len(messages[i].calls)
  BY <1>3, <1>5
<1> QED
  BY <1>16, <1>17, <1>18 DEF Reached, b, c, m

\* The next message is an assistant's: it opens a turn.
LEMMA ReachAssistant ==
  ASSUME Protocol, NEW n \in Nat, NEW k \in Nat, k + 1 \in DOMAIN messages, NEW acc \in Converted,
         Ready(n, acc) \/ \E i \in 1..k : Reached(n, acc, k, i),
         messages[k + 1].role = "assistant"
  PROVE  Reached(n, ToAnthropic(acc, messages[k + 1]), k + 1, k + 1)
<1> DEFINE m == messages[k + 1]
           w == [role |-> "assistant", uses |-> CallsOf(m)]
           F == Flushed(acc)
<1>1. DOMAIN messages = 1..Len(messages) /\ Len(messages) \in Nat
  BY DEF Protocol
<1>2. m \in AssistantMessage /\ m \in Message
  BY DEF Protocol, ToolMessage, Message
<1>3. Ready(n, F)
  <2>1. CASE Ready(n, acc)
    <3>1. F = acc
      BY <2>1 DEF Flushed, Ready
    <3> QED
      BY <2>1, <3>1
  <2>2. CASE \E i \in 1..k : Reached(n, acc, k, i)
    <3>1. PICK i \in 1..k : Reached(n, acc, k, i)
      BY <2>2
    <3>2. i \in DOMAIN messages /\ AnswersAll(i) /\ messages[i] \in AssistantMessage
      BY <1>1, <3>1 DEF Protocol, Reached, ToolMessage
    <3>3. Len(messages[i].calls) \in Nat
      BY <3>2 DEF AssistantMessage
    <3>4. k - i = Len(messages[i].calls)
      <4>1. ASSUME k - i < Len(messages[i].calls) PROVE FALSE
        <5>1. (k + 1) - i \in 1..Len(messages[i].calls) /\ i + ((k + 1) - i) = k + 1
          BY <3>3, <4>1
        <5>2. messages[k + 1].role = "tool"
          BY <3>2, <5>1 DEF AnswersAll
        <5> QED
          BY <5>2
      <4>2. k - i <= Len(messages[i].calls)
        BY <3>1 DEF Reached
      <4> QED
        BY <3>3, <4>1, <4>2
    <3> QED
      BY <3>1, <3>2, <3>4, FlushReached
  <2> QED
    BY <2>1, <2>2
<1>4. /\ F.result \in Seq(WireMessage) /\ F.pending = <<>> /\ Alternating(n, F.result)
      /\ F.result[Len(F.result)].role = "user"
  BY <1>3 DEF Ready, Converted
<1>5. w \in WireMessage /\ w.role = "assistant" /\ w.uses = CallsOf(m)
  BY <1>2, CallsTyped DEF WireMessage
<1>6. m.role # "tool" /\ Wire(m) = w
  BY DEF Wire
<1> DEFINE b == ToAnthropic(acc, m)
           R == Append(F.result, w)
<1>7. b = [result |-> R, pending |-> <<>>]
  <2>1. b = [result |-> Append(F.result, Wire(m)), pending |-> F.pending]
    BY <1>2, <1>6, ConvertedTyped
  <2> QED
    BY <1>4, <1>6, <2>1
<1>8. w = [role |-> "assistant", uses |-> CallsOf(m)]
  OBVIOUS
<1> HIDE DEF F, w
<1>9. Follows(F.result[Len(F.result)], w)
  BY <1>4, <1>5 DEF Follows
<1>10. Alternating(n, R) /\ Len(R) = Len(F.result) + 1 /\ R[Len(F.result) + 1] = w
  BY <1>4, <1>5, <1>9, AlternatingAppend
<1>11. m.calls \in Seq(Tools) /\ (k + 1) - (k + 1) = 0 /\ Len(<<>>) = 0
  BY <1>2 DEF AssistantMessage
<1>12. Len(m.calls) >= 0 /\ 1..0 = {}
  BY <1>11
<1> HIDE DEF b, R
<1>13. b.result = R /\ b.pending = <<>>
  BY <1>7
<1>14. b.result[Len(b.result)] = [role |-> "assistant", uses |-> CallsOf(m)]
  BY <1>8, <1>10, <1>13
<1> QED
  BY <1>10, <1>11, <1>12, <1>13, <1>14 DEF Reached, b

\* Anthropic: all calls of a message are answered in the next one.
LEMMA AnthropicAccepted ==
  ASSUME Protocol, NEW n \in Nat
  PROVE  /\ Alternating(n, AnthropicMessages(Sent(n))) /\ AnthropicMessages(Sent(n)) \in Seq(WireMessage)
         /\ AnthropicMessages(Sent(n))[Len(AnthropicMessages(Sent(n)))].role = "user"
<1> DEFINE l == Len(messages)
           L == Sent(n)
           o == n + 1
<1>1. l \in Nat /\ DOMAIN messages = 1..l /\ messages \in Seq(AssistantMessage \cup ToolMessage)
  BY DEF Protocol
<1>2. /\ L \in Seq(Message) /\ Len(L) = o + l
      /\ \A i \in 1..o : L[i] = Given(n)[i]
      /\ \A k \in 1..l : L[o + k] = messages[k]
  BY <1>1, SentTyped
<1> HIDE DEF l, L
<1>3. PICK g \in [0..o + l -> Converted] :
        /\ AnthropicMessages(L) = Flushed(g[o + l]).result /\ g[0] = NoMessages
        /\ \A k \in 1..o + l : g[k] = ToAnthropic(g[k - 1], L[k])
  BY <1>2, AnthropicFold
<1>4. Ready(n, g[o])
  <2>1. ASSUME NEW k \in 1..o PROVE g[k] = ToAnthropic(g[k - 1], Given(n)[k])
    <3>1. k \in 1..o + l
      BY <1>1
    <3> QED
      BY <1>2, <1>3, <3>1
  <2>2. o + l \in Nat /\ o + l >= o
    BY <1>1
  <2> DEFINE m == o + l
  <2> HIDE DEF m
  <2>3. m \in Nat /\ m >= n + 1 /\ g \in [0..m -> Converted]
    BY <1>3, <2>2 DEF m
  <2> QED
    BY <1>3, <2>1, <2>3, GivenReady
<1> DEFINE G == [k \in 0..l |-> g[o + k]]
<1>5. /\ G[0] = g[o] /\ G[l] = g[o + l]
      /\ \A k \in 0..l : G[k] \in Converted
      /\ \A k \in 1..l : G[k] = ToAnthropic(G[k - 1], messages[k])
  <2>1. 0 \in 0..l /\ l \in 0..l /\ o + 0 = o
    BY <1>1
  <2>2. ASSUME NEW k \in 0..l PROVE G[k] \in Converted
    <3>1. o + k \in 0..o + l
      BY <1>1
    <3> QED
      BY <1>3, <3>1
  <2>3. ASSUME NEW k \in 1..l PROVE G[k] = ToAnthropic(G[k - 1], messages[k])
    <3>1. o + k \in 1..o + l /\ (o + k) - 1 = o + (k - 1) /\ k \in 0..l /\ k - 1 \in 0..l
      BY <1>1
    <3>2. G[k] = g[o + k] /\ G[k - 1] = g[o + (k - 1)]
      BY <3>1
    <3>3. g[o + k] = ToAnthropic(g[(o + k) - 1], L[o + k])
      BY <1>3, <3>1
    <3> HIDE DEF G, o
    <3> QED
      BY <1>2, <3>1, <3>2, <3>3
  <2>4. G[0] = g[o] /\ G[l] = g[o + l]
    BY <2>1
  <2> QED
    BY <2>2, <2>3, <2>4
<1> HIDE DEF G, o
<1> DEFINE S == {k \in 0..l : k > 0 => \E i \in 1..k : Reached(n, G[k], k, i)}
<1>6. 0 \in S
  BY <1>1
<1>7. ASSUME NEW k \in 1..l, k - 1 \in S PROVE k \in S
  <2> DEFINE h == k - 1
             acc == G[h]
  <2>1. h \in Nat /\ h \in 0..l /\ k = h + 1 /\ k \in DOMAIN messages /\ k \in 0..l
    BY <1>1
  <2>2. acc \in Converted
    BY <1>5, <2>1
  <2>3. Ready(n, acc) \/ \E i \in 1..h : Reached(n, acc, h, i)
    <3>1. h = 0 => Ready(n, acc)
      BY <1>4, <1>5
    <3>2. h > 0 => \E i \in 1..h : Reached(n, acc, h, i)
      BY <1>7
    <3> QED
      BY <2>1, <3>1, <3>2
  <2>4. G[k] = ToAnthropic(acc, messages[h + 1])
    BY <1>5, <2>1
  <2> HIDE DEF h, acc
  <2>5. CASE messages[h + 1].role = "assistant"
    <3>1. Reached(n, G[k], k, k)
      BY <2>1, <2>2, <2>3, <2>4, <2>5, ReachAssistant
    <3>2. k \in 1..k
      BY <1>1
    <3> QED
      BY <2>1, <3>1, <3>2
  <2>6. CASE messages[h + 1].role # "assistant"
    <3>1. AnswersSome(h + 1)
      BY <2>1, <2>6 DEF Protocol
    <3>2. h # 0
      <4>1. ASSUME h = 0 PROVE FALSE
        <5>1. 1..((h + 1) - 1) = {}
          BY <4>1
        <5> QED
          BY <3>1, <5>1 DEF AnswersSome
      <4> QED
        BY <4>1
    <3>3. PICK i \in 1..h : Reached(n, acc, h, i)
      <4>1. h > 0 => \E i \in 1..h : Reached(n, acc, h, i)
        BY <1>7 DEF h, acc
      <4> QED
        BY <2>1, <3>2, <4>1
    <3>4. Reached(n, G[k], k, i)
      BY <2>1, <2>2, <2>4, <2>6, <3>3, ReachTool
    <3>5. i \in 1..k
      BY <2>1, <3>3
    <3> QED
      BY <2>1, <3>4, <3>5
  <2> QED
    BY <2>5, <2>6
<1>8. l \in S
  <2> HIDE DEF S
  <2>1. 0..l \subseteq S
    BY <1>1, <1>6, <1>7, CountUp
  <2> QED
    BY <1>1, <2>1
<1> DEFINE F == Flushed(G[l])
<1>9. l \in 0..l /\ G[l] \in Converted
  BY <1>1, <1>5
<1>10. Ready(n, F)
  <2>1. CASE l = 0
    <3>1. Ready(n, G[l])
      BY <1>4, <1>5, <2>1
    <3>2. F = G[l]
      BY <3>1 DEF Flushed, Ready
    <3> QED
      BY <3>1, <3>2
  <2>2. CASE l # 0
    <3>1. PICK i \in 1..l : Reached(n, G[l], l, i)
      <4>1. l > 0
        BY <1>1, <2>2
      <4> QED
        BY <1>8, <4>1
    <3>2. i \in DOMAIN messages /\ AnswersAll(i) /\ messages[i] \in AssistantMessage
      BY <1>1, <3>1 DEF Protocol, Reached, ToolMessage
    <3>3. Len(messages[i].calls) \in Nat
      BY <3>2 DEF AssistantMessage
    <3>4. l - i = Len(messages[i].calls)
      <4>1. l - i <= Len(messages[i].calls)
        BY <3>1 DEF Reached
      <4>2. ASSUME l - i < Len(messages[i].calls) PROVE FALSE
        <5>1. (l - i) + 1 \in 1..Len(messages[i].calls)
          BY <1>1, <3>3, <4>2
        <5>2. i + ((l - i) + 1) <= l
          BY <3>2, <5>1 DEF AnswersAll, l
        <5> QED
          BY <1>1, <5>2
      <4> QED
        BY <1>1, <3>3, <4>1, <4>2
    <3> QED
      BY <1>1, <1>9, <3>1, <3>2, <3>4, FlushReached
  <2> QED
    BY <2>1, <2>2
<1>11. AnthropicMessages(L) = F.result
  BY <1>3, <1>5
<1> HIDE DEF F
<1>12. /\ Alternating(n, F.result) /\ F.result \in Seq(WireMessage)
       /\ F.result[Len(F.result)].role = "user"
  BY <1>10 DEF Ready, Converted
<1> QED
  BY <1>11, <1>12 DEF L

\* OpenAI: each call is answered by a tool message behind it, before anything else.
CallsAnswered(sent) ==
  \A i \in DOMAIN sent : sent[i].role = "assistant" =>
    \A p \in DOMAIN sent[i].calls : \E j \in i + 1 .. Len(sent) :
      /\ sent[j] = [role |-> "tool", call |-> sent[i].calls[p]]
      /\ \A k \in i + 1 .. j : sent[k].role = "tool"

LEMMA CallAnswered ==
  ASSUME Protocol, NEW n \in Nat, NEW sent, sent = OpenAIMessages(Sent(n)),
         NEW i \in DOMAIN sent, sent[i].role = "assistant", NEW p \in DOMAIN sent[i].calls
  PROVE  \E j \in i + 1 .. Len(sent) :
           /\ sent[j] = [role |-> "tool", call |-> sent[i].calls[p]]
           /\ \A k \in i + 1 .. j : sent[k].role = "tool"
<1> DEFINE l == Len(messages)
           o == n + 1
           L == Sent(n)
<1>1. l \in Nat /\ DOMAIN messages = 1..l /\ messages \in Seq(AssistantMessage \cup ToolMessage)
  BY DEF Protocol
<1>2. /\ L \in Seq(Message) /\ Len(L) = o + l
      /\ \A k \in 1..o : L[k] = Given(n)[k]
      /\ \A k \in 1..l : L[o + k] = messages[k]
  BY <1>1, SentTyped
<1>3. sent = [k \in DOMAIN L |-> ToOpenAI(L[k])]
  BY DEF OpenAIMessages
<1> HIDE DEF l, L
<1>4. /\ DOMAIN L = 1..o + l /\ o + l \in Nat
      /\ DOMAIN sent = 1..o + l /\ Len(sent) = o + l /\ i \in 1..o + l
      /\ \A k \in 1..o + l : sent[k] = ToOpenAI(L[k]) /\ L[k] \in Message
  <2>1. DOMAIN L = 1..o + l /\ o + l \in Nat
    BY <1>1, <1>2
  <2>2. DOMAIN sent = 1..o + l /\ \A k \in 1..o + l : sent[k] = ToOpenAI(L[k])
    BY <1>3, <2>1
  <2>3. Len(sent) = o + l
    BY <1>3, <2>1
  <2>4. \A k \in 1..o + l : L[k] \in Message
    BY <1>2, ElementOfSeq
  <2> QED
    BY <2>1, <2>2, <2>3, <2>4
<1>5. L[i].role = "assistant" /\ L[i] \in AssistantMessage /\ sent[i].calls = CallsOf(L[i])
  <2>1. sent[i] = ToOpenAI(L[i]) /\ L[i] \in Message /\ L[i].role \in {"user", "assistant", "tool"}
    BY <1>4 DEF Message, AssistantMessage, ToolMessage
  <2>2. L[i].role = "assistant"
    BY <2>1 DEF ToOpenAI
  <2>3. sent[i] = [role |-> "assistant", calls |-> CallsOf(L[i])]
    BY <2>1, <2>2 DEF ToOpenAI
  <2> QED
    BY <2>1, <2>2, <2>3 DEF Message, ToolMessage
<1>6. /\ CallsOf(L[i]) \in Seq(Call) /\ Len(CallsOf(L[i])) = Len(L[i].calls)
      /\ Len(L[i].calls) \in Nat
  BY <1>5, CallsTyped DEF AssistantMessage
<1>7. p \in 1..Len(L[i].calls)
  BY <1>5, <1>6
<1>8. ~(i \in 1..o)
  <2>1. ASSUME i \in 1..o PROVE FALSE
    <3>1. L[i] = Given(n)[i] /\ Given(n)[i].calls = <<>>
      BY <1>2, <1>5, <2>1, GivenTyped
    <3>2. L[i].calls = <<>> /\ Len(<<>>) = 0
      BY <3>1
    <3> QED
      BY <1>7, <3>2
  <2> QED
    BY <2>1
<1> DEFINE h == i - o
<1>9. h \in 1..l /\ i = o + h /\ L[i] = messages[h]
  <2>1. h \in 1..l /\ i = o + h
    BY <1>1, <1>4, <1>8
  <2> QED
    BY <1>2, <2>1
<1> HIDE DEF h
<1>10. AnswersAll(h)
  BY <1>1, <1>5, <1>9 DEF Protocol
<1>11. \A q \in 1..p : h + q \in 1..l /\ messages[h + q].role = "tool"
                       /\ messages[h + q].call = CallsOf(messages[h])[q]
  <2>1. ASSUME NEW q \in 1..p PROVE h + q \in 1..l /\ messages[h + q].role = "tool"
                                    /\ messages[h + q].call = CallsOf(messages[h])[q]
    <3>1. q \in 1..Len(messages[h].calls)
      BY <1>6, <1>7, <1>9
    <3>2. h + q <= l /\ messages[h + q].role = "tool"
          /\ messages[h + q].call = [step |-> messages[h].step, pos |-> q, tool |-> messages[h].calls[q]]
      BY <1>10, <3>1 DEF AnswersAll, l
    <3>3. messages[h + q].call = CallsOf(messages[h])[q]
      BY <1>5, <1>9, <3>1, <3>2, CallsTyped
    <3>4. h + q \in 1..l
      BY <1>1, <1>9, <3>1, <3>2
    <3> QED
      BY <3>2, <3>3, <3>4
  <2> QED
    BY <2>1
<1>12. \A q \in 1..p : i + q \in 1..o + l
                       /\ sent[i + q] = [role |-> "tool", call |-> CallsOf(messages[h])[q]]
  <2>1. ASSUME NEW q \in 1..p
        PROVE  i + q \in 1..o + l /\ sent[i + q] = [role |-> "tool", call |-> CallsOf(messages[h])[q]]
    <3>1. h + q \in 1..l /\ messages[h + q].role = "tool"
          /\ messages[h + q].call = CallsOf(messages[h])[q]
      BY <1>11
    <3>2. i + q = o + (h + q) /\ i + q \in 1..o + l
      BY <1>1, <1>7, <1>9, <3>1
    <3>3. L[i + q] = messages[h + q]
      BY <1>2, <3>1, <3>2
    <3>4. sent[i + q] = ToOpenAI(messages[h + q])
      BY <1>4, <3>2, <3>3
    <3>5. ToOpenAI(messages[h + q]) = [role |-> "tool", call |-> messages[h + q].call]
      BY <3>1 DEF ToOpenAI
    <3> QED
      BY <3>1, <3>2, <3>4, <3>5
  <2> QED
    BY <2>1
<1> HIDE DEF o
<1>13. i \in Nat /\ p \in Nat \ {0} /\ p \in 1..p
  BY <1>4, <1>6, <1>7
<1>14. \A k \in i + 1 .. i + p : sent[k].role = "tool"
  <2>1. ASSUME NEW k \in i + 1 .. i + p PROVE sent[k].role = "tool"
    <3> DEFINE q == k - i
    <3>1. q \in 1..p /\ i + q = k
      BY <1>13
    <3> HIDE DEF q
    <3>2. sent[i + q] = [role |-> "tool", call |-> CallsOf(messages[h])[q]]
      BY <1>12, <3>1
    <3>3. sent[i + q].role = "tool"
      BY <3>2
    <3> QED
      BY <3>1, <3>3
  <2> QED
    BY <2>1
<1>15. sent[i + p] = [role |-> "tool", call |-> sent[i].calls[p]]
  BY <1>5, <1>9, <1>12, <1>13
<1>16. i + p \in i + 1 .. Len(sent)
  <2> DEFINE e == o + l
  <2>1. e \in Nat /\ Len(sent) = e
    BY <1>4
  <2>2. i + p \in 1..e
    BY <1>12, <1>13
  <2> HIDE DEF e
  <2> QED
    BY <1>13, <2>1, <2>2
<1> QED
  BY <1>14, <1>15, <1>16

LEMMA OpenAIAccepted ==
  ASSUME Protocol, NEW n \in Nat
  PROVE  CallsAnswered(OpenAIMessages(Sent(n)))
<1> DEFINE sent == OpenAIMessages(Sent(n))
<1>1. sent = OpenAIMessages(Sent(n))
  OBVIOUS
<1> HIDE DEF sent
<1>2. ASSUME NEW i \in DOMAIN sent, sent[i].role = "assistant", NEW p \in DOMAIN sent[i].calls
      PROVE  \E j \in i + 1 .. Len(sent) :
               /\ sent[j] = [role |-> "tool", call |-> sent[i].calls[p]]
               /\ \A k \in i + 1 .. j : sent[k].role = "tool"
  BY <1>1, <1>2, CallAnswered
<1> QED
  BY <1>2 DEF sent, CallsAnswered

\* However many recent turns a run is given, whatever the model asks for and however its calls
\* end, for any number of steps, calls and endpoints: both conversions of what is sent keep the
\* protocol of their wire format whenever the model is asked (native.py 568-667).
THEOREM RequestsAreAccepted == Spec => []RequestsAccepted
<1>1. Init => TranscriptInv /\ AskedInv
  BY InitTyped DEF Init, ChatInit, TranscriptInv, RequestInv, TurnInv, AnsweredInv, AskedInv
<1>2. TranscriptInv /\ AskedInv => RequestsAccepted
  <2> SUFFICES ASSUME TranscriptInv, AskedInv, phase = "chat", NEW n \in 0..MaxRecent
               PROVE  LET openai == OpenAIMessages(Sent(n))
                          anthropic == AnthropicMessages(Sent(n))
                      IN  /\ \A i \in DOMAIN openai : openai[i].role = "assistant" =>
                               \A p \in DOMAIN openai[i].calls : \E j \in i + 1 .. Len(openai) :
                                 /\ openai[j] = [role |-> "tool", call |-> openai[i].calls[p]]
                                 /\ \A k \in i + 1 .. j : openai[k].role = "tool"
                          /\ \A i \in 1 .. Len(anthropic) - 1 : Follows(anthropic[i], anthropic[i + 1])
                          /\ anthropic[1].role = "user" <=> n % 2 = 0
                          /\ anthropic[Len(anthropic)].role = "user"
    BY DEF RequestsAccepted
  <2>0. n \in Nat
    BY RecentAssumption
  <2>1. TranscriptProtocol
    BY DEF TranscriptInv, AnsweredInv, TranscriptProtocol
  <2>2. Protocol
    BY <2>1 DEF Protocol, AskedInv, TranscriptProtocol, TranscriptInv, TypeOK
  <2> DEFINE openai == OpenAIMessages(Sent(n))
             anthropic == AnthropicMessages(Sent(n))
  <2>3. Alternating(n, anthropic) /\ anthropic[Len(anthropic)].role = "user"
    BY <2>0, <2>2, AnthropicAccepted
  <2>4. CallsAnswered(openai)
    BY <2>0, <2>2, OpenAIAccepted
  <2> HIDE DEF openai, anthropic
  <2>5. /\ \A i \in 1 .. Len(anthropic) - 1 : Follows(anthropic[i], anthropic[i + 1])
        /\ anthropic[1].role = "user" <=> n % 2 = 0
    BY <2>3 DEF Alternating
  <2> QED
    BY <2>3, <2>4, <2>5 DEF openai, anthropic, CallsAnswered
<1> QED
  BY <1>1, <1>2, StepKeepsTranscript, StepKeepsAsked, PTL DEF Spec
-----------------------------------------------------------------------------
(***************************************************************************)
(* The terminals.  Both screens are folds over logs that are themselves    *)
(* flattened, filtered sequences, so the argument has three layers:        *)
(*   - a fold is a function of its run: it can be cut at any place, and    *)
(*     what its steps keep it keeps;                                       *)
(*   - LogInv, the invariant of the loop: the tokens are in the order of   *)
(*     calls and endpoints, the events in that of the steps, no step is    *)
(*     ahead of its call, and an answer is of the last endpoint, so that   *)
(*     what is kept call by call is all that was shown and told;           *)
(*   - what each handler makes of a screen, an attempt and a call.         *)
(***************************************************************************)

(* Folds as functions *)

\* r holds what the fold of s from base has come to behind each item.
IsRun(r, F, base, s) ==
  r[0] = base /\ \A k \in 1..Len(s) : r[k] = F[<<r[k - 1], s[k]>>]

\* The fold of s from base, whose step is the function F of the result so far and the item.
FoldOf(F, base, s) == (CHOOSE r : IsRun(r, F, base, s))[Len(s)]

\* A run with results in D ends in v, as the fold does.
RunsTo(F, D, base, s, v) ==
  v = FoldOf(F, base, s) /\ \E r \in [0..Len(s) -> D] : IsRun(r, F, base, s) /\ r[Len(s)] = v

LEMMA RunUnique ==
  ASSUME NEW s, Len(s) \in Nat, NEW F, NEW base, NEW r, NEW q,
         IsRun(r, F, base, s), IsRun(q, F, base, s)
  PROVE  \A k \in 0..Len(s) : r[k] = q[k]
<1> DEFINE n == Len(s)
           S == {k \in 0..n : r[k] = q[k]}
<1>1. 0 \in S
  BY DEF IsRun
<1>2. ASSUME NEW k \in 1..n, k - 1 \in S PROVE k \in S
  <2>1. r[k] = F[<<r[k - 1], s[k]>>] /\ q[k] = F[<<q[k - 1], s[k]>>] /\ k \in 0..n
    BY DEF IsRun
  <2> QED
    BY <1>2, <2>1
<1> HIDE DEF S
<1>3. 0..n \subseteq S
  BY <1>1, <1>2, CountUp
<1> QED
  BY <1>3 DEF S

\* g solves the recursion behind the fold of s: it is a function of the sets of its places.
IsGraph(g, F, base, s) ==
  g = [t \in SUBSET DOMAIN s |-> IF t = {} THEN base ELSE F[<<g[t \ {Max(t)}], s[Max(t)]>>]]

\* h does, as far as its results are in D.
Solves(h, F, D, base, s) ==
  /\ h[{}] = base
  /\ \A t \in SUBSET DOMAIN s : t # {} /\ h[t \ {Max(t)}] \in D =>
       h[t] = F[<<h[t \ {Max(t)}], s[Max(t)]>>]

LEMMA FoldHasGraph ==
  ASSUME NEW X, NEW D, NEW F \in [D \X X -> D], NEW base \in D, NEW s \in Seq(X)
  PROVE  \E g \in [SUBSET DOMAIN s -> D] : IsGraph(g, F, base, s)
<1> DEFINE n == Len(s)
           f == [p \in D \X (1..n) |-> F[<<p[1], s[p[2]]>>]]
<1>1. n \in Nat /\ DOMAIN s = 1..n /\ \A k \in 1..n : s[k] \in X
  OBVIOUS
<1>2. f \in [D \X (1..n) -> D]
  BY <1>1
<1> HIDE DEF f, n
<1>3. PICK g \in [SUBSET (1..n) -> D] : IsFold(g, n, base, f)
  BY <1>1, <1>2, FoldExists
<1>4. ASSUME NEW t \in SUBSET DOMAIN s
      PROVE  g[t] = IF t = {} THEN base ELSE F[<<g[t \ {Max(t)}], s[Max(t)]>>]
  <2>1. t # {} => Max(t) \in 1..n /\ g[t \ {Max(t)}] \in D
    BY <1>1, <1>3, MaxOfRange
  <2>2. t # {} => f[<<g[t \ {Max(t)}], Max(t)>>] = F[<<g[t \ {Max(t)}], s[Max(t)]>>]
    BY <2>1 DEF f
  <2> QED
    BY <1>1, <1>3, <2>2 DEF IsFold
<1>5. g = [t \in SUBSET DOMAIN s |->
             IF t = {} THEN base ELSE F[<<g[t \ {Max(t)}], s[Max(t)]>>]]
  BY <1>1, <1>3, <1>4
<1>6. g \in [SUBSET DOMAIN s -> D]
  BY <1>1, <1>3
<1> QED
  BY <1>5, <1>6 DEF IsGraph

\* Whatever solves it, as far as its results are of the type, ends in the fold.
LEMMA GraphEndsInFold ==
  ASSUME NEW X, NEW D, NEW F \in [D \X X -> D], NEW base \in D, NEW s \in Seq(X),
         NEW h, Solves(h, F, D, base, s)
  PROVE  RunsTo(F, D, base, s, h[DOMAIN s])
<1> DEFINE n == Len(s)
           r == [k \in 0..n |-> h[1..k]]
           S == {k \in 0..n : r[k] \in D}
<1>1. n \in Nat /\ DOMAIN s = 1..n /\ \A k \in 1..n : s[k] \in X
  OBVIOUS
<1>2. r[0] = base /\ 0 \in S /\ r[n] = h[DOMAIN s]
  <2>1. 1..0 = {}
    OBVIOUS
  <2>2. r[0] = h[1..0] /\ r[n] = h[1..n]
    BY <1>1
  <2> HIDE DEF r
  <2>3. r[0] = base
    BY <2>1, <2>2 DEF Solves
  <2> QED
    BY <1>1, <2>2, <2>3
<1>3. ASSUME NEW k \in 1..n, k - 1 \in S PROVE k \in S /\ r[k] = F[<<r[k - 1], s[k]>>]
  <2>0. k \in Nat \ {0} /\ k \in 0..n /\ k - 1 \in 0..n
    BY <1>1
  <2>1. 1..k \in SUBSET DOMAIN s /\ 1..k # {}
    <3>1. k \in 1..k /\ \A j \in 1..k : j \in 1..n
      BY <1>1, <2>0
    <3> HIDE DEF n
    <3> QED
      BY <1>1, <3>1
  <2>2. Max(1..k) = k /\ (1..k) \ {k} = 1..(k - 1)
    BY <2>0, MaxOfPrefix
  <2>3. r[k] = h[1..k] /\ r[k - 1] = h[1..(k - 1)]
    BY <2>0
  <2>4. r[k - 1] \in D
    BY <1>3
  <2> HIDE DEF r
  <2>5. h[1..k] = F[<<h[(1..k) \ {Max(1..k)}], s[Max(1..k)]>>]
    BY <2>1, <2>2, <2>3, <2>4 DEF Solves
  <2>6. r[k] = F[<<r[k - 1], s[k]>>]
    BY <2>2, <2>3, <2>5
  <2>7. r[k] \in D
    BY <1>1, <2>4, <2>6
  <2> QED
    BY <2>0, <2>6, <2>7
<1>4. 0..n \subseteq S
  <2> HIDE DEF S, r, n
  <2> QED
    BY <1>1, <1>2, <1>3, CountUp
<1>5. IsRun(r, F, base, s)
  <2>1. ASSUME NEW k \in 1..n PROVE r[k] = F[<<r[k - 1], s[k]>>]
    <3>1. k - 1 \in 0..n
      BY <1>1
    <3>2. k - 1 \in S
      BY <1>4, <3>1
    <3> HIDE DEF S, r
    <3> QED
      BY <1>3, <3>2
  <2> HIDE DEF r
  <2> QED
    BY <1>2, <2>1 DEF IsRun
<1>6. r \in [0..n -> D]
  BY <1>4
<1>7. FoldOf(F, base, s) = r[n]
  <2> DEFINE q == CHOOSE q : IsRun(q, F, base, s)
  <2> HIDE DEF r
  <2>1. IsRun(q, F, base, s)
    BY <1>5
  <2>2. FoldOf(F, base, s) = q[n]
    BY DEF FoldOf
  <2> HIDE DEF q
  <2>3. n \in 0..n
    BY <1>1
  <2> QED
    BY <1>1, <1>5, <2>1, <2>2, <2>3, RunUnique
<1> HIDE DEF r, n
<1> QED
  BY <1>2, <1>5, <1>6, <1>7 DEF n, RunsTo

\* A fold has a run, whose last result it is.
LEMMA FoldOfRun ==
  ASSUME NEW X, NEW D, NEW F \in [D \X X -> D], NEW base \in D, NEW s \in Seq(X)
  PROVE  RunsTo(F, D, base, s, FoldOf(F, base, s))
<1>1. PICK g \in [SUBSET DOMAIN s -> D] : IsGraph(g, F, base, s)
  BY FoldHasGraph
<1>2. Solves(g, F, D, base, s)
  <2>1. {} \in SUBSET DOMAIN s
    OBVIOUS
  <2> QED
    BY <1>1, <2>1 DEF IsGraph, Solves
<1>3. RunsTo(F, D, base, s, g[DOMAIN s])
  BY <1>2, GraphEndsInFold
<1> QED
  BY <1>3 DEF RunsTo

\* F is a step of a fold whose results are in D.
IsStep(F, X, D) == F \in [D \X X -> D]

\* Nothing is folded to the base, one item to one step from it.
LEMMA FoldOfStarts ==
  ASSUME NEW X, NEW D, NEW F, IsStep(F, X, D), NEW base \in D
  PROVE  /\ FoldOf(F, base, <<>>) = base
         /\ \A x \in X : FoldOf(F, base, <<x>>) = F[<<base, x>>]
<1> USE DEF IsStep
<1>1. <<>> \in Seq(X) /\ Len(<<>>) = 0
  OBVIOUS
<1>2. PICK r \in [0..Len(<<>>) -> D] :
        IsRun(r, F, base, <<>>) /\ r[Len(<<>>)] = FoldOf(F, base, <<>>)
  <2>1. RunsTo(F, D, base, <<>>, FoldOf(F, base, <<>>))
    BY <1>1, FoldOfRun
  <2> QED
    BY <2>1 DEF RunsTo
<1>3. FoldOf(F, base, <<>>) = base
  BY <1>1, <1>2 DEF IsRun
<1>4. ASSUME NEW x \in X PROVE FoldOf(F, base, <<x>>) = F[<<base, x>>]
  <2> DEFINE s == <<x>>
  <2>1. s \in Seq(X) /\ Len(s) = 1 /\ s[1] = x
    OBVIOUS
  <2> HIDE DEF s
  <2>2. PICK q \in [0..Len(s) -> D] : IsRun(q, F, base, s) /\ q[Len(s)] = FoldOf(F, base, s)
    <3>1. RunsTo(F, D, base, s, FoldOf(F, base, s))
      BY <2>1, FoldOfRun
    <3> QED
      BY <3>1 DEF RunsTo
  <2>3. q[0] = base /\ q[1] = F[<<q[1 - 1], s[1]>>]
    BY <2>1, <2>2 DEF IsRun
  <2>4. FoldOf(F, base, s) = F[<<base, x>>]
    BY <2>1, <2>2, <2>3
  <2> QED
    BY <2>4 DEF s
<1> QED
  BY <1>3, <1>4

LEMMA FoldOfTyped ==
  ASSUME NEW X, NEW D, NEW F, IsStep(F, X, D), NEW base \in D, NEW s \in Seq(X)
  PROVE  FoldOf(F, base, s) \in D
<1> USE DEF IsStep
<1>1. PICK r \in [0..Len(s) -> D] : IsRun(r, F, base, s) /\ r[Len(s)] = FoldOf(F, base, s)
  <2>1. RunsTo(F, D, base, s, FoldOf(F, base, s))
    BY FoldOfRun
  <2> QED
    BY <2>1 DEF RunsTo
<1>2. Len(s) \in 0..Len(s)
  OBVIOUS
<1> QED
  BY <1>1, <1>2

\* The fold of b goes on from where the fold of a has come to.
LEMMA FoldOfConcat ==
  ASSUME NEW X, NEW D, NEW F, IsStep(F, X, D), NEW base \in D, NEW a \in Seq(X), NEW b \in Seq(X)
  PROVE  FoldOf(F, base, a \o b) = FoldOf(F, FoldOf(F, base, a), b)
<1> USE DEF IsStep
<1> DEFINE mid == FoldOf(F, base, a)
           s == a \o b
           m == Len(a)
           n == Len(b)
<1>1. /\ s \in Seq(X) /\ Len(s) = m + n /\ m \in Nat /\ n \in Nat
      /\ \A k \in 1..m : s[k] = a[k]
      /\ \A k \in 1..n : s[m + k] = b[k]
  BY ConcatProperties
<1>2. mid \in D
  BY FoldOfTyped
<1>3. PICK p : IsRun(p, F, base, a) /\ p[m] = mid
  <2>1. RunsTo(F, D, base, a, FoldOf(F, base, a))
    BY FoldOfRun
  <2> QED
    BY <2>1 DEF RunsTo
<1> HIDE DEF mid, s
<1>4. PICK q : IsRun(q, F, mid, b) /\ q[n] = FoldOf(F, mid, b)
  <2>1. RunsTo(F, D, mid, b, FoldOf(F, mid, b))
    BY <1>2, FoldOfRun
  <2> QED
    BY <2>1 DEF RunsTo
<1>5. PICK r : IsRun(r, F, base, s) /\ r[Len(s)] = FoldOf(F, base, s)
  <2>1. RunsTo(F, D, base, s, FoldOf(F, base, s))
    BY <1>1, FoldOfRun
  <2> QED
    BY <2>1 DEF RunsTo
<1>6. IsRun(r, F, base, a)
  <2>1. \A k \in 1..m : k \in 1..(m + n)
    BY <1>1
  <2>2. \A k \in 1..m : r[k] = F[<<r[k - 1], a[k]>>]
    BY <1>1, <1>5, <2>1 DEF IsRun
  <2> QED
    BY <1>5, <2>2 DEF IsRun
<1>7. r[m] = mid
  <2>1. m \in 0..Len(a)
    BY <1>1
  <2> QED
    BY <1>1, <1>3, <1>6, <2>1, RunUnique
<1> DEFINE t == [k \in 0..n |-> r[m + k]]
<1>8. IsRun(t, F, mid, b)
  <2>1. t[0] = mid
    BY <1>1, <1>7
  <2>2. ASSUME NEW k \in 1..n PROVE t[k] = F[<<t[k - 1], b[k]>>]
    <3>1. /\ k \in 0..n /\ k - 1 \in 0..n /\ m + k \in 1..(m + n)
          /\ (m + k) - 1 = m + (k - 1)
      BY <1>1
    <3>2. r[m + k] = F[<<r[(m + k) - 1], s[m + k]>>]
      BY <1>1, <1>5, <3>1 DEF IsRun
    <3> QED
      BY <1>1, <3>1, <3>2
  <2> HIDE DEF t
  <2> QED
    BY <2>1, <2>2 DEF IsRun
<1>9. t[n] = r[m + n] /\ n \in 0..n
  BY <1>1
<1> HIDE DEF t, m, n
<1>10. t[n] = q[n]
  BY <1>1, <1>4, <1>8, <1>9, RunUnique DEF n
<1> QED
  BY <1>1, <1>4, <1>5, <1>9, <1>10 DEF mid, s, m, n
-----------------------------------------------------------------------------
(* Keeping the elements of a set is a fold *)

Keeping(X, S) ==
  [p \in Seq(X) \X X |-> IF p[2] \in S THEN Append(p[1], p[2]) ELSE p[1]]

LEMMA KeepingTyped ==
  ASSUME NEW X, NEW S
  PROVE  Keeping(X, S) \in [Seq(X) \X X -> Seq(X)]
<1>1. \A d \in Seq(X), x \in X : Append(d, x) \in Seq(X)
  OBVIOUS
<1> QED
  BY <1>1 DEF Keeping

\* What is kept is such a fold.
LEMMA AmongIsFold ==
  ASSUME NEW X, NEW S, NEW s \in Seq(X)
  PROVE  Among(s, S) = FoldOf(Keeping(X, S), <<>>, s)
<1> DEFINE F == Keeping(X, S)
           h == CHOOSE h : h = [t \in SUBSET DOMAIN s |->
                  IF t = {} THEN <<>>
                  ELSE IF s[Max(t)] \in S THEN Append(h[t \ {Max(t)}], s[Max(t)])
                       ELSE h[t \ {Max(t)}]]
<1>0. /\ F \in [Seq(X) \X X -> Seq(X)]
      /\ \A d \in Seq(X), x \in X : F[<<d, x>>] = IF x \in S THEN Append(d, x) ELSE d
  <2>1. Keeping(X, S) \in [Seq(X) \X X -> Seq(X)]
    BY KeepingTyped
  <2>2. \A d \in Seq(X), x \in X :
          Keeping(X, S)[<<d, x>>] = IF x \in S THEN Append(d, x) ELSE d
    BY DEF Keeping
  <2> QED
    BY <2>1, <2>2
<1>1. <<>> \in Seq(X)
  OBVIOUS
<1>2. Among(s, S) = h[DOMAIN s]
  BY Zenon DEF Among, FoldLeft, MapThenFoldSet
<1> HIDE DEF F
<1>3. PICK g \in [SUBSET DOMAIN s -> Seq(X)] : IsGraph(g, F, <<>>, s)
  BY <1>0, <1>1, FoldHasGraph
<1>4. \A t \in SUBSET DOMAIN s : t # {} => s[Max(t)] \in X
  <2>1. Len(s) \in Nat /\ DOMAIN s = 1..Len(s)
    OBVIOUS
  <2> QED
    <3>1. \A t \in SUBSET DOMAIN s : t # {} => Max(t) \in 1..Len(s)
      BY <2>1, MaxOfRange
    <3> QED
      BY <2>1, <3>1
<1>5. g = [t \in SUBSET DOMAIN s |->
             IF t = {} THEN <<>>
             ELSE IF s[Max(t)] \in S THEN Append(g[t \ {Max(t)}], s[Max(t)])
                  ELSE g[t \ {Max(t)}]]
  <2>1. ASSUME NEW t \in SUBSET DOMAIN s
        PROVE  g[t] = IF t = {} THEN <<>>
                      ELSE IF s[Max(t)] \in S THEN Append(g[t \ {Max(t)}], s[Max(t)])
                           ELSE g[t \ {Max(t)}]
    <3>1. g[t] = IF t = {} THEN <<>> ELSE F[<<g[t \ {Max(t)}], s[Max(t)]>>]
      BY <1>3 DEF IsGraph
    <3>2. g[t \ {Max(t)}] \in Seq(X)
      OBVIOUS
    <3> QED
      BY <1>0, <1>4, <3>1, <3>2
  <2> QED
    BY <2>1
<1>6. h = [t \in SUBSET DOMAIN s |->
             IF t = {} THEN <<>>
             ELSE IF s[Max(t)] \in S THEN Append(h[t \ {Max(t)}], s[Max(t)])
                  ELSE h[t \ {Max(t)}]]
  BY <1>5, Zenon
<1> HIDE DEF h
<1>7. Solves(h, F, Seq(X), <<>>, s)
  <2>1. {} \in SUBSET DOMAIN s
    OBVIOUS
  <2>2. h[{}] = <<>>
    BY <1>6, <2>1
  <2>3. ASSUME NEW t \in SUBSET DOMAIN s, t # {}, h[t \ {Max(t)}] \in Seq(X)
        PROVE  h[t] = F[<<h[t \ {Max(t)}], s[Max(t)]>>]
    BY <1>0, <1>4, <1>6, <2>3
  <2> QED
    BY <2>2, <2>3 DEF Solves
<1>8. RunsTo(F, Seq(X), <<>>, s, h[DOMAIN s])
  BY <1>0, <1>1, <1>7, GraphEndsInFold
<1> QED
  BY <1>2, <1>8 DEF RunsTo, F
-----------------------------------------------------------------------------
(* The folds of the two terminals *)

\* What the TUI has come to behind the events of log.
TuiAfter(base, log) == FoldLeft(TuiHandle, base, log)

TuiStep(D, X) == [p \in D \X X |-> TuiHandle(p[1], p[2])]

\* It is a fold in the sense above.
LEMMA TuiAfterIsFold ==
  ASSUME NEW X, NEW D, \A d \in D, x \in X : TuiHandle(d, x) \in D,
         NEW base \in D, NEW s \in Seq(X)
  PROVE  TuiAfter(base, s) = FoldOf(TuiStep(D, X), base, s) /\ TuiStep(D, X) \in [D \X X -> D]
<1> DEFINE F == TuiStep(D, X)
           h == CHOOSE h : h = [t \in SUBSET DOMAIN s |->
                  IF t = {} THEN base ELSE TuiHandle(h[t \ {Max(t)}], s[Max(t)])]
<1>1. F \in [D \X X -> D] /\ \A d \in D, x \in X : F[<<d, x>>] = TuiHandle(d, x)
  <2>1. \A p \in D \X X : p[1] \in D /\ p[2] \in X
    OBVIOUS
  <2>2. \A p \in D \X X : TuiHandle(p[1], p[2]) \in D
    BY <2>1
  <2>3. F \in [D \X X -> D]
    BY <2>2 DEF TuiStep
  <2>4. ASSUME NEW d \in D, NEW x \in X PROVE F[<<d, x>>] = TuiHandle(d, x)
    BY DEF TuiStep
  <2> QED
    BY <2>3, <2>4
<1>2. TuiAfter(base, s) = h[DOMAIN s]
  BY Zenon DEF TuiAfter, FoldLeft, MapThenFoldSet
<1> HIDE DEF F
<1>3. PICK g \in [SUBSET DOMAIN s -> D] : IsGraph(g, F, base, s)
  BY <1>1, FoldHasGraph
<1>4. \A t \in SUBSET DOMAIN s : t # {} => s[Max(t)] \in X
  <2>1. Len(s) \in Nat /\ DOMAIN s = 1..Len(s)
    OBVIOUS
  <2>2. \A t \in SUBSET DOMAIN s : t # {} => Max(t) \in 1..Len(s)
    BY <2>1, MaxOfRange
  <2> QED
    BY <2>1, <2>2
<1>5. g = [t \in SUBSET DOMAIN s |->
             IF t = {} THEN base ELSE TuiHandle(g[t \ {Max(t)}], s[Max(t)])]
  <2>1. ASSUME NEW t \in SUBSET DOMAIN s
        PROVE  g[t] = IF t = {} THEN base ELSE TuiHandle(g[t \ {Max(t)}], s[Max(t)])
    <3>1. g[t] = IF t = {} THEN base ELSE F[<<g[t \ {Max(t)}], s[Max(t)]>>]
      BY <1>3 DEF IsGraph
    <3>2. g[t \ {Max(t)}] \in D
      OBVIOUS
    <3> QED
      BY <1>1, <1>4, <3>1, <3>2
  <2> QED
    BY <2>1
<1>6. h = [t \in SUBSET DOMAIN s |->
             IF t = {} THEN base ELSE TuiHandle(h[t \ {Max(t)}], s[Max(t)])]
  BY <1>5, Zenon
<1> HIDE DEF h
<1>7. Solves(h, F, D, base, s)
  <2>1. {} \in SUBSET DOMAIN s
    OBVIOUS
  <2>2. h[{}] = base
    BY <1>6, <2>1
  <2>3. ASSUME NEW t \in SUBSET DOMAIN s, t # {}, h[t \ {Max(t)}] \in D
        PROVE  h[t] = F[<<h[t \ {Max(t)}], s[Max(t)]>>]
    BY <1>1, <1>4, <1>6, <2>3
  <2> QED
    BY <2>2, <2>3 DEF Solves
<1>8. RunsTo(F, D, base, s, h[DOMAIN s])
  BY <1>1, <1>7, GraphEndsInFold
<1> QED
  BY <1>1, <1>2, <1>8 DEF RunsTo, F

TuiCloses(D, X) == \A d \in D, x \in X : TuiHandle(d, x) \in D

\* It keeps to a set that its steps keep to, and goes on where it came to.
LEMMA TuiAfterFacts ==
  ASSUME NEW X, NEW D, TuiCloses(D, X), NEW base \in D
  PROVE  /\ \A s \in Seq(X) : TuiAfter(base, s) \in D
         /\ \A a, b \in Seq(X) : TuiAfter(base, a \o b) = TuiAfter(TuiAfter(base, a), b)
         /\ TuiAfter(base, <<>>) = base
         /\ \A x \in X : TuiAfter(base, <<x>>) = TuiHandle(base, x)
<1> USE DEF TuiCloses
<1> DEFINE F == TuiStep(D, X)
<1>0. <<>> \in Seq(X)
  OBVIOUS
<1>1. IsStep(F, X, D)
  BY <1>0, TuiAfterIsFold DEF IsStep
<1>2. \A d \in D, s \in Seq(X) : TuiAfter(d, s) = FoldOf(F, d, s)
  BY TuiAfterIsFold
<1>3. \A x \in X : F[<<base, x>>] = TuiHandle(base, x)
  BY DEF TuiStep
<1> HIDE DEF F
<1>4. \A s \in Seq(X) : TuiAfter(base, s) \in D
  BY <1>1, <1>2, FoldOfTyped
<1>5. ASSUME NEW a \in Seq(X), NEW b \in Seq(X)
      PROVE  TuiAfter(base, a \o b) = TuiAfter(TuiAfter(base, a), b)
  <2>1. a \o b \in Seq(X)
    OBVIOUS
  <2>2. FoldOf(F, base, a \o b) = FoldOf(F, FoldOf(F, base, a), b)
    BY <1>1, FoldOfConcat
  <2>3. FoldOf(F, base, a) \in D
    BY <1>1, FoldOfTyped
  <2> QED
    BY <1>2, <2>1, <2>2, <2>3
<1>6. /\ FoldOf(F, base, <<>>) = base
      /\ \A x \in X : FoldOf(F, base, <<x>>) = F[<<base, x>>]
  BY <1>1, FoldOfStarts
<1>7. \A x \in X : <<x>> \in Seq(X)
  OBVIOUS
<1>8. TuiAfter(base, <<>>) = base
  BY <1>0, <1>2, <1>6
<1>9. \A x \in X : TuiAfter(base, <<x>>) = TuiHandle(base, x)
  BY <1>2, <1>3, <1>6, <1>7
<1> QED
  BY <1>4, <1>5, <1>8, <1>9

\* What the CLI has come to behind the events of log.
CliAfter(base, log) == FoldLeft(CliHandle, base, log)

CliStep(D, X) == [p \in D \X X |-> CliHandle(p[1], p[2])]

\* It is a fold in the sense above.
LEMMA CliAfterIsFold ==
  ASSUME NEW X, NEW D, \A d \in D, x \in X : CliHandle(d, x) \in D,
         NEW base \in D, NEW s \in Seq(X)
  PROVE  CliAfter(base, s) = FoldOf(CliStep(D, X), base, s) /\ CliStep(D, X) \in [D \X X -> D]
<1> DEFINE F == CliStep(D, X)
           h == CHOOSE h : h = [t \in SUBSET DOMAIN s |->
                  IF t = {} THEN base ELSE CliHandle(h[t \ {Max(t)}], s[Max(t)])]
<1>1. F \in [D \X X -> D] /\ \A d \in D, x \in X : F[<<d, x>>] = CliHandle(d, x)
  <2>1. \A p \in D \X X : p[1] \in D /\ p[2] \in X
    OBVIOUS
  <2>2. \A p \in D \X X : CliHandle(p[1], p[2]) \in D
    BY <2>1
  <2>3. F \in [D \X X -> D]
    BY <2>2 DEF CliStep
  <2>4. ASSUME NEW d \in D, NEW x \in X PROVE F[<<d, x>>] = CliHandle(d, x)
    BY DEF CliStep
  <2> QED
    BY <2>3, <2>4
<1>2. CliAfter(base, s) = h[DOMAIN s]
  BY Zenon DEF CliAfter, FoldLeft, MapThenFoldSet
<1> HIDE DEF F
<1>3. PICK g \in [SUBSET DOMAIN s -> D] : IsGraph(g, F, base, s)
  BY <1>1, FoldHasGraph
<1>4. \A t \in SUBSET DOMAIN s : t # {} => s[Max(t)] \in X
  <2>1. Len(s) \in Nat /\ DOMAIN s = 1..Len(s)
    OBVIOUS
  <2>2. \A t \in SUBSET DOMAIN s : t # {} => Max(t) \in 1..Len(s)
    BY <2>1, MaxOfRange
  <2> QED
    BY <2>1, <2>2
<1>5. g = [t \in SUBSET DOMAIN s |->
             IF t = {} THEN base ELSE CliHandle(g[t \ {Max(t)}], s[Max(t)])]
  <2>1. ASSUME NEW t \in SUBSET DOMAIN s
        PROVE  g[t] = IF t = {} THEN base ELSE CliHandle(g[t \ {Max(t)}], s[Max(t)])
    <3>1. g[t] = IF t = {} THEN base ELSE F[<<g[t \ {Max(t)}], s[Max(t)]>>]
      BY <1>3 DEF IsGraph
    <3>2. g[t \ {Max(t)}] \in D
      OBVIOUS
    <3> QED
      BY <1>1, <1>4, <3>1, <3>2
  <2> QED
    BY <2>1
<1>6. h = [t \in SUBSET DOMAIN s |->
             IF t = {} THEN base ELSE CliHandle(h[t \ {Max(t)}], s[Max(t)])]
  BY <1>5, Zenon
<1> HIDE DEF h
<1>7. Solves(h, F, D, base, s)
  <2>1. {} \in SUBSET DOMAIN s
    OBVIOUS
  <2>2. h[{}] = base
    BY <1>6, <2>1
  <2>3. ASSUME NEW t \in SUBSET DOMAIN s, t # {}, h[t \ {Max(t)}] \in D
        PROVE  h[t] = F[<<h[t \ {Max(t)}], s[Max(t)]>>]
    BY <1>1, <1>4, <1>6, <2>3
  <2> QED
    BY <2>2, <2>3 DEF Solves
<1>8. RunsTo(F, D, base, s, h[DOMAIN s])
  BY <1>1, <1>7, GraphEndsInFold
<1> QED
  BY <1>1, <1>2, <1>8 DEF RunsTo, F

CliCloses(D, X) == \A d \in D, x \in X : CliHandle(d, x) \in D

\* It keeps to a set that its steps keep to, and goes on where it came to.
LEMMA CliAfterFacts ==
  ASSUME NEW X, NEW D, CliCloses(D, X), NEW base \in D
  PROVE  /\ \A s \in Seq(X) : CliAfter(base, s) \in D
         /\ \A a, b \in Seq(X) : CliAfter(base, a \o b) = CliAfter(CliAfter(base, a), b)
         /\ CliAfter(base, <<>>) = base
         /\ \A x \in X : CliAfter(base, <<x>>) = CliHandle(base, x)
<1> USE DEF CliCloses
<1> DEFINE F == CliStep(D, X)
<1>0. <<>> \in Seq(X)
  OBVIOUS
<1>1. IsStep(F, X, D)
  BY <1>0, CliAfterIsFold DEF IsStep
<1>2. \A d \in D, s \in Seq(X) : CliAfter(d, s) = FoldOf(F, d, s)
  BY CliAfterIsFold
<1>3. \A x \in X : F[<<base, x>>] = CliHandle(base, x)
  BY DEF CliStep
<1> HIDE DEF F
<1>4. \A s \in Seq(X) : CliAfter(base, s) \in D
  BY <1>1, <1>2, FoldOfTyped
<1>5. ASSUME NEW a \in Seq(X), NEW b \in Seq(X)
      PROVE  CliAfter(base, a \o b) = CliAfter(CliAfter(base, a), b)
  <2>1. a \o b \in Seq(X)
    OBVIOUS
  <2>2. FoldOf(F, base, a \o b) = FoldOf(F, FoldOf(F, base, a), b)
    BY <1>1, FoldOfConcat
  <2>3. FoldOf(F, base, a) \in D
    BY <1>1, FoldOfTyped
  <2> QED
    BY <1>2, <2>1, <2>2, <2>3
<1>6. /\ FoldOf(F, base, <<>>) = base
      /\ \A x \in X : FoldOf(F, base, <<x>>) = F[<<base, x>>]
  BY <1>1, FoldOfStarts
<1>7. \A x \in X : <<x>> \in Seq(X)
  OBVIOUS
<1>8. CliAfter(base, <<>>) = base
  BY <1>0, <1>2, <1>6
<1>9. \A x \in X : CliAfter(base, <<x>>) = CliHandle(base, x)
  BY <1>2, <1>3, <1>6, <1>7
<1> QED
  BY <1>4, <1>5, <1>8, <1>9

\* What the CLI's listener has come to behind the model events of log.
ListenerAfter(base, log) == FoldLeft(CliModelEvent, base, log)

ListenerStep(D, X) == [p \in D \X X |-> CliModelEvent(p[1], p[2])]

\* It is a fold in the sense above.
LEMMA ListenerAfterIsFold ==
  ASSUME NEW X, NEW D, \A d \in D, x \in X : CliModelEvent(d, x) \in D,
         NEW base \in D, NEW s \in Seq(X)
  PROVE  ListenerAfter(base, s) = FoldOf(ListenerStep(D, X), base, s) /\ ListenerStep(D, X) \in [D \X X -> D]
<1> DEFINE F == ListenerStep(D, X)
           h == CHOOSE h : h = [t \in SUBSET DOMAIN s |->
                  IF t = {} THEN base ELSE CliModelEvent(h[t \ {Max(t)}], s[Max(t)])]
<1>1. F \in [D \X X -> D] /\ \A d \in D, x \in X : F[<<d, x>>] = CliModelEvent(d, x)
  <2>1. \A p \in D \X X : p[1] \in D /\ p[2] \in X
    OBVIOUS
  <2>2. \A p \in D \X X : CliModelEvent(p[1], p[2]) \in D
    BY <2>1
  <2>3. F \in [D \X X -> D]
    BY <2>2 DEF ListenerStep
  <2>4. ASSUME NEW d \in D, NEW x \in X PROVE F[<<d, x>>] = CliModelEvent(d, x)
    BY DEF ListenerStep
  <2> QED
    BY <2>3, <2>4
<1>2. ListenerAfter(base, s) = h[DOMAIN s]
  BY Zenon DEF ListenerAfter, FoldLeft, MapThenFoldSet
<1> HIDE DEF F
<1>3. PICK g \in [SUBSET DOMAIN s -> D] : IsGraph(g, F, base, s)
  BY <1>1, FoldHasGraph
<1>4. \A t \in SUBSET DOMAIN s : t # {} => s[Max(t)] \in X
  <2>1. Len(s) \in Nat /\ DOMAIN s = 1..Len(s)
    OBVIOUS
  <2>2. \A t \in SUBSET DOMAIN s : t # {} => Max(t) \in 1..Len(s)
    BY <2>1, MaxOfRange
  <2> QED
    BY <2>1, <2>2
<1>5. g = [t \in SUBSET DOMAIN s |->
             IF t = {} THEN base ELSE CliModelEvent(g[t \ {Max(t)}], s[Max(t)])]
  <2>1. ASSUME NEW t \in SUBSET DOMAIN s
        PROVE  g[t] = IF t = {} THEN base ELSE CliModelEvent(g[t \ {Max(t)}], s[Max(t)])
    <3>1. g[t] = IF t = {} THEN base ELSE F[<<g[t \ {Max(t)}], s[Max(t)]>>]
      BY <1>3 DEF IsGraph
    <3>2. g[t \ {Max(t)}] \in D
      OBVIOUS
    <3> QED
      BY <1>1, <1>4, <3>1, <3>2
  <2> QED
    BY <2>1
<1>6. h = [t \in SUBSET DOMAIN s |->
             IF t = {} THEN base ELSE CliModelEvent(h[t \ {Max(t)}], s[Max(t)])]
  BY <1>5, Zenon
<1> HIDE DEF h
<1>7. Solves(h, F, D, base, s)
  <2>1. {} \in SUBSET DOMAIN s
    OBVIOUS
  <2>2. h[{}] = base
    BY <1>6, <2>1
  <2>3. ASSUME NEW t \in SUBSET DOMAIN s, t # {}, h[t \ {Max(t)}] \in D
        PROVE  h[t] = F[<<h[t \ {Max(t)}], s[Max(t)]>>]
    BY <1>1, <1>4, <1>6, <2>3
  <2> QED
    BY <2>2, <2>3 DEF Solves
<1>8. RunsTo(F, D, base, s, h[DOMAIN s])
  BY <1>1, <1>7, GraphEndsInFold
<1> QED
  BY <1>1, <1>2, <1>8 DEF RunsTo, F

ListenerCloses(D, X) == \A d \in D, x \in X : CliModelEvent(d, x) \in D

\* It keeps to a set that its steps keep to, and goes on where it came to.
LEMMA ListenerAfterFacts ==
  ASSUME NEW X, NEW D, ListenerCloses(D, X), NEW base \in D
  PROVE  /\ \A s \in Seq(X) : ListenerAfter(base, s) \in D
         /\ \A a, b \in Seq(X) : ListenerAfter(base, a \o b) = ListenerAfter(ListenerAfter(base, a), b)
         /\ ListenerAfter(base, <<>>) = base
         /\ \A x \in X : ListenerAfter(base, <<x>>) = CliModelEvent(base, x)
<1> USE DEF ListenerCloses
<1> DEFINE F == ListenerStep(D, X)
<1>0. <<>> \in Seq(X)
  OBVIOUS
<1>1. IsStep(F, X, D)
  BY <1>0, ListenerAfterIsFold DEF IsStep
<1>2. \A d \in D, s \in Seq(X) : ListenerAfter(d, s) = FoldOf(F, d, s)
  BY ListenerAfterIsFold
<1>3. \A x \in X : F[<<base, x>>] = CliModelEvent(base, x)
  BY DEF ListenerStep
<1> HIDE DEF F
<1>4. \A s \in Seq(X) : ListenerAfter(base, s) \in D
  BY <1>1, <1>2, FoldOfTyped
<1>5. ASSUME NEW a \in Seq(X), NEW b \in Seq(X)
      PROVE  ListenerAfter(base, a \o b) = ListenerAfter(ListenerAfter(base, a), b)
  <2>1. a \o b \in Seq(X)
    OBVIOUS
  <2>2. FoldOf(F, base, a \o b) = FoldOf(F, FoldOf(F, base, a), b)
    BY <1>1, FoldOfConcat
  <2>3. FoldOf(F, base, a) \in D
    BY <1>1, FoldOfTyped
  <2> QED
    BY <1>2, <2>1, <2>2, <2>3
<1>6. /\ FoldOf(F, base, <<>>) = base
      /\ \A x \in X : FoldOf(F, base, <<x>>) = F[<<base, x>>]
  BY <1>1, FoldOfStarts
<1>7. \A x \in X : <<x>> \in Seq(X)
  OBVIOUS
<1>8. ListenerAfter(base, <<>>) = base
  BY <1>0, <1>2, <1>6
<1>9. \A x \in X : ListenerAfter(base, <<x>>) = CliModelEvent(base, x)
  BY <1>2, <1>3, <1>6, <1>7
<1> QED
  BY <1>4, <1>5, <1>8, <1>9
-----------------------------------------------------------------------------
(* What is kept of a sequence, and what it ends with *)

\* An item that is appended behind b is appended behind what is before b.
AppendsInside(a, b, x) == Append(a \o b, x) = a \o Append(b, x)

LEMMA AppendToConcat ==
  ASSUME NEW X, NEW a \in Seq(X), NEW b \in Seq(X), NEW x \in X
  PROVE  AppendsInside(a, b, x)
BY DEF AppendsInside

\* q holds what is kept of s behind each item.
Keeps(q, s, S) ==
  /\ q[0] = <<>> /\ q[Len(s)] = Among(s, S)
  /\ \A k \in 1..Len(s) : q[k] = IF s[k] \in S THEN Append(q[k - 1], s[k]) ELSE q[k - 1]

LEMMA AmongRun ==
  ASSUME NEW X, NEW S, NEW s \in Seq(X)
  PROVE  \E q \in [0..Len(s) -> Seq(X)] : Keeps(q, s, S)
<1> DEFINE F == Keeping(X, S)
<1>1. /\ IsStep(F, X, Seq(X)) /\ <<>> \in Seq(X)
      /\ \A d \in Seq(X), x \in X : F[<<d, x>>] = IF x \in S THEN Append(d, x) ELSE d
  <2>1. IsStep(F, X, Seq(X))
    BY KeepingTyped DEF IsStep
  <2>2. \A d \in Seq(X), x \in X : F[<<d, x>>] = IF x \in S THEN Append(d, x) ELSE d
    BY DEF Keeping
  <2> QED
    BY <2>1, <2>2
<1>2. Among(s, S) = FoldOf(F, <<>>, s)
  BY AmongIsFold
<1> HIDE DEF F
<1>3. RunsTo(F, Seq(X), <<>>, s, FoldOf(F, <<>>, s))
  BY <1>1, FoldOfRun DEF IsStep
<1>4. PICK q \in [0..Len(s) -> Seq(X)] : IsRun(q, F, <<>>, s) /\ q[Len(s)] = Among(s, S)
  BY <1>2, <1>3 DEF RunsTo
<1>5. ASSUME NEW k \in 1..Len(s)
      PROVE  q[k] = IF s[k] \in S THEN Append(q[k - 1], s[k]) ELSE q[k - 1]
  <2>1. q[k] = F[<<q[k - 1], s[k]>>]
    BY <1>4 DEF IsRun
  <2>2. k - 1 \in 0..Len(s) /\ s[k] \in X
    OBVIOUS
  <2> QED
    BY <1>1, <2>1, <2>2
<1> QED
  BY <1>4, <1>5 DEF Keeps, IsRun

LEMMA AmongTyped ==
  ASSUME NEW X, NEW S, NEW s \in Seq(X)
  PROVE  Among(s, S) \in Seq(X \cap S)
<1>1. PICK q \in [0..Len(s) -> Seq(X)] : Keeps(q, s, S)
  BY AmongRun
<1> DEFINE P == {k \in 0..Len(s) : q[k] \in Seq(X \cap S)}
<1>2. Len(s) \in Nat /\ \A k \in 1..Len(s) : s[k] \in X
  OBVIOUS
<1>3. 0 \in P
  <2>1. <<>> \in Seq(X \cap S)
    OBVIOUS
  <2> QED
    BY <1>1, <1>2, <2>1 DEF Keeps
<1>4. ASSUME NEW k \in 1..Len(s), k - 1 \in P PROVE k \in P
  <2>1. s[k] \in S => Append(q[k - 1], s[k]) \in Seq(X \cap S)
    BY <1>2, <1>4
  <2> QED
    <3>1. q[k] = IF s[k] \in S THEN Append(q[k - 1], s[k]) ELSE q[k - 1]
      BY <1>1 DEF Keeps
    <3>2. k \in 0..Len(s) /\ q[k - 1] \in Seq(X \cap S)
      BY <1>2, <1>4
    <3> QED
      BY <2>1, <3>1, <3>2
<1> HIDE DEF P
<1>5. 0..Len(s) \subseteq P
  BY <1>2, <1>3, <1>4, CountUp
<1>6. Len(s) \in P
  BY <1>2, <1>5
<1> QED
  BY <1>1, <1>6 DEF Keeps, P

\* What is kept of two sequences is kept of each.
LEMMA AmongConcat ==
  ASSUME NEW X, NEW S, NEW a \in Seq(X), NEW b \in Seq(X)
  PROVE  Among(a \o b, S) = Among(a, S) \o Among(b, S)
<1> DEFINE s == a \o b
           m == Len(a)
           n == Len(b)
<1>1. /\ s \in Seq(X) /\ Len(s) = m + n /\ m \in Nat /\ n \in Nat
      /\ \A k \in 1..m : s[k] = a[k]
      /\ \A k \in 1..n : s[m + k] = b[k] /\ b[k] \in X
  BY ConcatProperties
<1> HIDE DEF s
<1>2. PICK p \in [0..m -> Seq(X)] : Keeps(p, a, S)
  BY AmongRun
<1>3. PICK q \in [0..n -> Seq(X)] : Keeps(q, b, S)
  BY AmongRun
<1>4. PICK r \in [0..Len(s) -> Seq(X)] : Keeps(r, s, S)
  BY <1>1, AmongRun
<1> DEFINE P == {k \in 0..m : r[k] = p[k]}
           Q == {k \in 0..n : r[m + k] = Among(a, S) \o q[k]}
<1>5. r[m] = Among(a, S)
  <2>1. 0 \in P
    BY <1>1, <1>2, <1>4 DEF Keeps
  <2>2. ASSUME NEW k \in 1..m, k - 1 \in P PROVE k \in P
    <3>1. k \in 1..Len(s) /\ k \in 0..m
      BY <1>1
    <3>2. r[k] = IF s[k] \in S THEN Append(r[k - 1], s[k]) ELSE r[k - 1]
      BY <1>4, <3>1 DEF Keeps
    <3>3. p[k] = IF a[k] \in S THEN Append(p[k - 1], a[k]) ELSE p[k - 1]
      BY <1>2 DEF Keeps
    <3>4. r[k - 1] = p[k - 1] /\ s[k] = a[k]
      BY <1>1, <2>2
    <3>5. r[k] = p[k]
      BY <3>2, <3>3, <3>4
    <3> QED
      BY <3>1, <3>5
  <2> HIDE DEF P
  <2>3. 0..m \subseteq P
    BY <1>1, <2>1, <2>2, CountUp
  <2>4. m \in P
    <3>1. m \in 0..m
      BY <1>1
    <3> QED
      BY <2>3, <3>1
  <2> QED
    BY <1>2, <2>4 DEF P, Keeps
<1>6. Among(a, S) \in Seq(X) /\ \A k \in 0..n : q[k] \in Seq(X)
  <2>1. m \in 0..m
    BY <1>1
  <2> QED
    BY <1>2, <1>3, <2>1 DEF Keeps
<1>7. n \in Q
  <2>1. 0 \in Q
    <3>1. Among(a, S) \o <<>> = Among(a, S)
      BY <1>6
    <3> QED
      <4>1. m + 0 = m /\ 0 \in 0..n /\ q[0] = <<>>
        BY <1>1, <1>3 DEF Keeps
      <4> QED
        BY <1>5, <3>1, <4>1
  <2>2. ASSUME NEW k \in 1..n, k - 1 \in Q PROVE k \in Q
    <3>1. m + k \in 1..Len(s) /\ k \in 0..n /\ k - 1 \in 0..n /\ (m + k) - 1 = m + (k - 1)
      BY <1>1
    <3>2. r[m + k] = IF s[m + k] \in S THEN Append(r[(m + k) - 1], s[m + k]) ELSE r[(m + k) - 1]
      BY <1>4, <3>1 DEF Keeps
    <3>3. q[k] = IF b[k] \in S THEN Append(q[k - 1], b[k]) ELSE q[k - 1]
      BY <1>3 DEF Keeps
    <3>4. r[m + (k - 1)] = Among(a, S) \o q[k - 1] /\ s[m + k] = b[k] /\ b[k] \in X
      BY <1>1, <2>2
    <3>5. Append(Among(a, S) \o q[k - 1], b[k]) = Among(a, S) \o Append(q[k - 1], b[k])
      <4>1. AppendsInside(Among(a, S), q[k - 1], b[k])
        BY <1>6, <3>1, <3>4, AppendToConcat
      <4> QED
        BY <4>1 DEF AppendsInside
    <3> QED
      BY <3>1, <3>2, <3>3, <3>4, <3>5
  <2> HIDE DEF Q
  <2>3. 0..n \subseteq Q
    BY <1>1, <2>1, <2>2, CountUp
  <2> QED
    BY <1>1, <2>3
<1> QED
  BY <1>1, <1>3, <1>4, <1>7 DEF Keeps, s

\* Two sets that s does not tell apart keep the same of it.
LEMMA AmongSame ==
  ASSUME NEW X, NEW s \in Seq(X), NEW A, NEW B, \A k \in 1..Len(s) : s[k] \in A <=> s[k] \in B
  PROVE  Among(s, A) = Among(s, B)
<1>1. PICK p \in [0..Len(s) -> Seq(X)] : Keeps(p, s, A)
  BY AmongRun
<1>2. PICK q \in [0..Len(s) -> Seq(X)] : Keeps(q, s, B)
  BY AmongRun
<1> DEFINE P == {k \in 0..Len(s) : p[k] = q[k]}
<1>3. Len(s) \in Nat
  OBVIOUS
<1>4. 0 \in P
  BY <1>1, <1>2, <1>3 DEF Keeps
<1>5. ASSUME NEW k \in 1..Len(s), k - 1 \in P PROVE k \in P
  BY <1>1, <1>2, <1>3, <1>5 DEF Keeps
<1> HIDE DEF P
<1>6. 0..Len(s) \subseteq P
  BY <1>3, <1>4, <1>5, CountUp
<1>7. Len(s) \in P
  BY <1>3, <1>6
<1> QED
  BY <1>1, <1>2, <1>7 DEF Keeps, P

\* All is kept, or nothing.
LEMMA AmongAll ==
  ASSUME NEW X, NEW s \in Seq(X), NEW S, \A k \in 1..Len(s) : s[k] \in S
  PROVE  Among(s, S) = s
<1>1. PICK q \in [0..Len(s) -> Seq(X)] : Keeps(q, s, S)
  BY AmongRun
<1> DEFINE P == {k \in 0..Len(s) : Len(q[k]) = k /\ \A i \in 1..k : q[k][i] = s[i]}
<1>2. Len(s) \in Nat /\ \A k \in 1..Len(s) : s[k] \in X
  OBVIOUS
<1>3. 0 \in P
  BY <1>1, <1>2 DEF Keeps
<1>4. ASSUME NEW k \in 1..Len(s), k - 1 \in P PROVE k \in P
  <2>1. k \in 0..Len(s) /\ k - 1 \in 0..Len(s) /\ (k - 1) + 1 = k
    BY <1>2
  <2>2. q[k] = Append(q[k - 1], s[k])
    BY <1>1 DEF Keeps
  <2>3. q[k - 1] \in Seq(X) /\ s[k] \in X
    BY <1>2, <2>1
  <2>4. Len(q[k - 1]) = k - 1 /\ \A i \in 1..(k - 1) : q[k - 1][i] = s[i]
    BY <1>4
  <2>5. /\ Len(q[k]) = k /\ q[k][k] = s[k]
        /\ \A i \in 1..(k - 1) : q[k][i] = q[k - 1][i]
    BY <2>1, <2>2, <2>3, <2>4, AppendProperties
  <2>6. \A i \in 1..k : i = k \/ i \in 1..(k - 1)
    OBVIOUS
  <2> QED
    BY <2>1, <2>4, <2>5, <2>6
<1> HIDE DEF P
<1>5. 0..Len(s) \subseteq P
  BY <1>2, <1>3, <1>4, CountUp
<1>6. Len(s) \in P /\ Len(s) \in 0..Len(s)
  BY <1>2, <1>5
<1>7. Among(s, S) \in Seq(X) /\ Len(Among(s, S)) = Len(s)
      /\ \A i \in 1..Len(s) : Among(s, S)[i] = s[i]
  BY <1>1, <1>6 DEF Keeps, P
<1> QED
  BY <1>7, SeqEqual

LEMMA AmongNone ==
  ASSUME NEW X, NEW s \in Seq(X), NEW S, \A k \in 1..Len(s) : s[k] \notin S
  PROVE  Among(s, S) = <<>>
<1>1. PICK q \in [0..Len(s) -> Seq(X)] : Keeps(q, s, S)
  BY AmongRun
<1> DEFINE P == {k \in 0..Len(s) : q[k] = <<>>}
<1>2. Len(s) \in Nat
  OBVIOUS
<1>3. 0 \in P
  BY <1>1, <1>2 DEF Keeps
<1>4. ASSUME NEW k \in 1..Len(s), k - 1 \in P PROVE k \in P
  BY <1>1, <1>2, <1>4 DEF Keeps
<1> HIDE DEF P
<1>5. 0..Len(s) \subseteq P
  BY <1>2, <1>3, <1>4, CountUp
<1>6. Len(s) \in P
  BY <1>2, <1>5
<1> QED
  BY <1>1, <1>6 DEF Keeps, P

\* If no item of A is behind one of B, what is kept of both is what is kept of A, then of B.
LEMMA AmongOrdered ==
  ASSUME NEW X, NEW s \in Seq(X), NEW A, NEW B, A \cap B = {},
         \A i, j \in 1..Len(s) : i < j /\ s[i] \in B => s[j] \notin A
  PROVE  Among(s, A \cup B) = Among(s, A) \o Among(s, B)
<1>1. PICK a \in [0..Len(s) -> Seq(X)] : Keeps(a, s, A)
  BY AmongRun
<1>2. PICK b \in [0..Len(s) -> Seq(X)] : Keeps(b, s, B)
  BY AmongRun
<1>3. PICK u \in [0..Len(s) -> Seq(X)] : Keeps(u, s, A \cup B)
  BY AmongRun
<1> DEFINE P == {k \in 0..Len(s) : /\ u[k] = a[k] \o b[k]
                                   /\ b[k] = <<>> \/ \E i \in 1..k : s[i] \in B}
<1>4. Len(s) \in Nat /\ \A k \in 1..Len(s) : s[k] \in X
  OBVIOUS
<1>5. 0 \in P
  <2>1. <<>> \o <<>> = <<>>
    OBVIOUS
  <2> QED
    BY <1>1, <1>2, <1>3, <1>4, <2>1 DEF Keeps
<1>6. ASSUME NEW k \in 1..Len(s), k - 1 \in P PROVE k \in P
  <2>1. k \in 0..Len(s) /\ k - 1 \in 0..Len(s)
    BY <1>4
  <2>2. /\ a[k] = IF s[k] \in A THEN Append(a[k - 1], s[k]) ELSE a[k - 1]
        /\ b[k] = IF s[k] \in B THEN Append(b[k - 1], s[k]) ELSE b[k - 1]
        /\ u[k] = IF s[k] \in A \/ s[k] \in B THEN Append(u[k - 1], s[k]) ELSE u[k - 1]
    BY <1>1, <1>2, <1>3 DEF Keeps
  <2>3. a[k - 1] \in Seq(X) /\ b[k - 1] \in Seq(X) /\ s[k] \in X
    BY <1>4, <2>1
  <2>4. u[k - 1] = a[k - 1] \o b[k - 1] /\ (b[k - 1] = <<>> \/ \E i \in 1..(k - 1) : s[i] \in B)
    BY <1>6
  <2>5. \A i \in 1..(k - 1) : i \in 1..Len(s) /\ i < k /\ i \in 1..k
    BY <1>4
  <2>6. k \in 1..k
    OBVIOUS
  <2>7. CASE s[k] \in A
    <3>1. s[k] \notin B
      BY <2>7
    <3>2. b[k - 1] = <<>>
      BY <2>4, <2>5, <2>7
    <3>3. Append(a[k - 1] \o <<>>, s[k]) = Append(a[k - 1], s[k]) \o <<>>
      BY <2>3
    <3> QED
      BY <2>1, <2>2, <2>4, <2>7, <3>1, <3>2, <3>3
  <2>8. CASE s[k] \in B
    <3>1. s[k] \notin A
      BY <2>8
    <3>2. Append(a[k - 1] \o b[k - 1], s[k]) = a[k - 1] \o Append(b[k - 1], s[k])
      <4>1. AppendsInside(a[k - 1], b[k - 1], s[k])
        BY <2>3, AppendToConcat
      <4> QED
        BY <4>1 DEF AppendsInside
    <3> QED
      BY <2>1, <2>2, <2>4, <2>6, <2>8, <3>1, <3>2
  <2>9. CASE s[k] \notin A /\ s[k] \notin B
    BY <2>1, <2>2, <2>4, <2>5, <2>9
  <2> QED
    BY <2>7, <2>8, <2>9
<1> HIDE DEF P
<1>7. 0..Len(s) \subseteq P
  BY <1>4, <1>5, <1>6, CountUp
<1>8. Len(s) \in P
  BY <1>4, <1>7
<1> QED
  BY <1>1, <1>2, <1>3, <1>8 DEF Keeps, P

\* A suffix, index by index.
LEMMA SuffixIndices ==
  ASSUME NEW X, NEW s \in Seq(X), NEW t \in Seq(X), IsSuffix(s, t)
  PROVE  Len(s) <= Len(t) /\ \A k \in 1 .. Len(s) : t[(Len(t) - Len(s)) + k] = s[k]
<1> DEFINE m == Len(s)
           n == Len(t)
           u == Reverse(s)
           v == Reverse(t)
<1>1. m \in Nat /\ n \in Nat
  OBVIOUS
<1>2. u \in Seq(X) /\ Len(u) = m /\ \A i \in 1 .. m : u[i] = s[(m - i) + 1]
  <2>1. \A i \in 1 .. m : s[(m - i) + 1] \in X
    BY <1>1, ElementOfSeq
  <2> QED
    BY <1>1, <2>1, IsASeq DEF Reverse
<1>3. v \in Seq(X) /\ Len(v) = n /\ \A i \in 1 .. n : v[i] = t[(n - i) + 1]
  <2>1. \A i \in 1 .. n : t[(n - i) + 1] \in X
    BY <1>1, ElementOfSeq
  <2> QED
    BY <1>1, <2>1, IsASeq DEF Reverse
<1>4. Len(u) <= Len(v) /\ SubSeq(u, 1, Len(u)) = SubSeq(v, 1, Len(u))
  BY DEF IsSuffix, IsPrefix
<1> HIDE DEF u, v, m, n
<1>5. m <= n /\ SubSeq(u, 1, m) = SubSeq(v, 1, m)
  BY <1>2, <1>3, <1>4
<1>6. \A i \in 1 .. m : u[i] = v[i]
  <2>1. \A i \in 1 .. m : u[i] \in X /\ v[i] \in X
    BY <1>1, <1>2, <1>3, <1>5, ElementOfSeq
  <2>2. m - 1 + 1 = m /\ (1 <= m \/ m = 0) /\ \A i \in 1 .. m : 1 + i - 1 = i
    BY <1>1
  <2>3. /\ \A i \in 1 .. m : SubSeq(u, 1, m)[i] = u[i]
        /\ \A i \in 1 .. m : SubSeq(v, 1, m)[i] = v[i]
    BY <1>1, <1>2, <1>3, <1>5, <2>1, <2>2, SubSeqProperties
  <2> QED
    BY <1>5, <2>3
<1>7. ASSUME NEW k \in 1 .. m PROVE t[(n - m) + k] = s[k]
  <2> DEFINE i == (m - k) + 1
  <2>1. /\ i \in 1 .. m /\ i \in 1 .. n /\ (m - i) + 1 = k
        /\ (n - i) + 1 = (n - m) + k
    BY <1>1, <1>5
  <2> HIDE DEF i
  <2>2. u[i] = s[(m - i) + 1] /\ v[i] = t[(n - i) + 1] /\ u[i] = v[i]
    BY <1>2, <1>3, <1>6, <2>1
  <2> QED
    BY <2>1, <2>2
<1> QED
  BY <1>5, <1>7 DEF m, n

\* What a sequence ends with is a suffix of it.
LEMMA SuffixOfConcat ==
  ASSUME NEW X, NEW p \in Seq(X), NEW s \in Seq(X), NEW t, t = p \o s
  PROVE  IsSuffix(s, t)
<1>1. /\ t \in Seq(X) /\ Len(t) = Len(p) + Len(s) /\ Len(p) \in Nat /\ Len(s) \in Nat
      /\ \A k \in 1 .. Len(s) : t[Len(p) + k] = s[k]
  BY ConcatProperties
<1>2. Len(s) <= Len(t) /\ Len(t) - Len(s) = Len(p)
  BY <1>1
<1>3. t \in Seq(X)
  BY <1>1
<1> QED
  BY <1>1, <1>2, <1>3, SuffixByIndex

\* A sequence that has the suffix s is some sequence followed by s.
LEMMA ConcatOfSuffix ==
  ASSUME NEW X, NEW s \in Seq(X), NEW t \in Seq(X), IsSuffix(s, t)
  PROVE  \E p \in Seq(X) : /\ t = p \o s
                           /\ Len(t) = Len(p) + Len(s)
                           /\ \A k \in 1 .. Len(p) : p[k] = t[k]
                           /\ \A k \in 1 .. Len(s) : t[Len(p) + k] = s[k]
<1> DEFINE l == Len(t) - Len(s)
           p == [k \in 1 .. l |-> t[k]]
           c == p \o s
<1>1. Len(s) \in Nat /\ Len(t) \in Nat /\ Len(s) <= Len(t) /\ l \in Nat
      /\ \A k \in 1 .. Len(s) : t[l + k] = s[k]
  BY SuffixIndices
<1>2. p \in Seq(X) /\ Len(p) = l /\ \A k \in 1 .. l : p[k] = t[k]
  <2>1. \A k \in 1 .. l : t[k] \in X
    BY <1>1, ElementOfSeq
  <2> QED
    BY <1>1, <2>1, IsASeq
<1> HIDE DEF p
<1>3. p \in Seq(X)
  BY <1>2
<1>4. /\ c \in Seq(X) /\ Len(c) = Len(p) + Len(s)
      /\ \A k \in 1 .. Len(p) : c[k] = p[k]
      /\ \A k \in 1 .. Len(s) : c[Len(p) + k] = s[k]
  BY <1>3, ConcatProperties
<1> HIDE DEF c
<1>5. Len(c) = Len(t) /\ Len(t) = Len(p) + Len(s)
  BY <1>1, <1>2, <1>4
<1> HIDE DEF l
<1>6. ASSUME NEW k \in 1 .. Len(c) PROVE c[k] = t[k]
  <2>1. CASE k \in 1 .. Len(p)
    BY <1>2, <1>4, <2>1
  <2>2. CASE k \notin 1 .. Len(p)
    <3>1. k - l \in 1 .. Len(s) /\ l + (k - l) = k
      BY <1>1, <1>2, <1>5, <2>2
    <3> QED
      BY <1>1, <1>2, <1>4, <3>1
  <2> QED
    BY <2>1, <2>2
<1>7. c \in Seq(X)
  BY <1>4
<1>8. c = t
  BY <1>5, <1>6, <1>7, SeqEqual
<1> QED
  BY <1>1, <1>2, <1>3, <1>5, <1>8 DEF c
-----------------------------------------------------------------------------
(* Sequences of sequences *)

\* f holds the first i sequences of q, one behind the other.
Flattens(f, q) ==
  /\ f[1] = q[1]
  /\ \A i \in 2..Len(q) : f[i] = f[i - 1] \o q[i]

LEMMA FlattenExists ==
  ASSUME NEW X, NEW q \in Seq(Seq(X))
  PROVE  \E f \in [1..Len(q) -> Seq(X)] : Len(q) > 0 => Flattens(f, q)
<1> DEFINE n == Len(q)
           Upto(f, m) == (m > 0 => f[1] = q[1]) /\ \A i \in 2..m : f[i] = f[i - 1] \o q[i]
           S == {m \in 0..n : \E f \in [1..m -> Seq(X)] : Upto(f, m)}
<1>1. n \in Nat /\ \A i \in 1..n : q[i] \in Seq(X)
  OBVIOUS
<1>2. 0 \in S
  <2> DEFINE f == [i \in 1..0 |-> <<>>]
  <2>1. f \in [1..0 -> Seq(X)] /\ Upto(f, 0)
    OBVIOUS
  <2>2. 0 \in 0..n
    BY <1>1
  <2> HIDE DEF f, Upto
  <2> QED
    BY <2>1, <2>2
<1>3. ASSUME NEW m \in 1..n, m - 1 \in S PROVE m \in S
  <2>1. PICK f \in [1..(m - 1) -> Seq(X)] : Upto(f, m - 1)
    BY <1>3
  <2> DEFINE g == [i \in 1..m |-> IF i = m THEN IF m = 1 THEN q[1] ELSE f[m - 1] \o q[m] ELSE f[i]]
  <2>2. q[1] \in Seq(X) /\ q[m] \in Seq(X)
    BY <1>1
  <2>3. m # 1 => f[m - 1] \in Seq(X)
    BY <1>1
  <2>4. m # 1 => f[m - 1] \o q[m] \in Seq(X)
    BY <2>2, <2>3, ConcatProperties
  <2>5. g \in [1..m -> Seq(X)]
    <3>1. ASSUME NEW i \in 1..m PROVE g[i] \in Seq(X)
      <4>1. i # m => i \in 1..(m - 1)
        BY <1>1
      <4> QED
        BY <2>2, <2>4, <4>1
    <3> QED
      BY <3>1
  <2>6. g[1] = q[1]
    <3>1. 1 \in 1..m /\ (m # 1 => m - 1 > 0)
      BY <1>1
    <3> QED
      BY <2>1, <3>1
  <2>7. ASSUME NEW i \in 2..m PROVE g[i] = g[i - 1] \o q[i]
    <3>1. i \in 1..m /\ i - 1 \in 1..m /\ i - 1 # m /\ m # 1 /\ (i # m => i \in 2..(m - 1))
      BY <1>1
    <3>2. g[i - 1] = f[i - 1]
      BY <3>1
    <3>3. g[i] = IF i = m THEN f[m - 1] \o q[m] ELSE f[i]
      BY <3>1
    <3> HIDE DEF g
    <3> QED
      BY <2>1, <3>1, <3>2, <3>3
  <2> HIDE DEF g
  <2>8. Upto(g, m)
    BY <2>6, <2>7
  <2>9. m \in 0..n
    BY <1>1
  <2> HIDE DEF Upto
  <2> QED
    BY <2>5, <2>8, <2>9
<1> HIDE DEF S
<1>4. 0..n \subseteq S
  BY <1>1, <1>2, <1>3, CountUp
<1>5. n \in S
  BY <1>1, <1>4
<1>6. PICK f \in [1..n -> Seq(X)] : Upto(f, n)
  BY <1>5 DEF S
<1> QED
  BY <1>6 DEF Flattens

\* FlattenSeq does so to the end.
LEMMA FlattenSteps ==
  ASSUME NEW X, NEW q \in Seq(Seq(X)), Len(q) > 0
  PROVE  \E f \in [1..Len(q) -> Seq(X)] : Flattens(f, q) /\ f[Len(q)] = FlattenSeq(q)
<1> DEFINE n == Len(q)
           h == CHOOSE h : h = [i \in 1..Len(q) |-> IF i = 1 THEN q[i] ELSE h[i - 1] \o q[i]]
<1>1. PICK f \in [1..n -> Seq(X)] : Flattens(f, q)
  BY FlattenExists
<1>2. n # 0 /\ n \in Nat
  OBVIOUS
<1>3. f = [i \in 1..Len(q) |-> IF i = 1 THEN q[i] ELSE f[i - 1] \o q[i]]
  <2>1. \A i \in 1..n : i = 1 \/ i \in 2..n
    BY <1>2
  <2>2. \A i \in 1..n : f[i] = IF i = 1 THEN q[i] ELSE f[i - 1] \o q[i]
    BY <1>1, <2>1 DEF Flattens
  <2> QED
    BY <2>2
<1>4. FlattenSeq(q) = h[n]
  BY <1>2, Zenon DEF FlattenSeq
<1>5. h = [i \in 1..Len(q) |-> IF i = 1 THEN q[i] ELSE h[i - 1] \o q[i]]
  BY <1>3, Zenon
<1> HIDE DEF h
<1> DEFINE S == {i \in 0..n : i > 0 => h[i] = f[i]}
<1>6. 0 \in S
  BY <1>2
<1>7. ASSUME NEW i \in 1..n, i - 1 \in S PROVE i \in S
  <2>1. i \in 0..n /\ (i # 1 => i \in 2..n /\ i - 1 > 0)
    BY <1>2
  <2>2. h[i] = IF i = 1 THEN q[i] ELSE h[i - 1] \o q[i]
    BY <1>5
  <2>3. f[i] = IF i = 1 THEN q[i] ELSE f[i - 1] \o q[i]
    BY <1>3
  <2>4. i # 1 => h[i - 1] = f[i - 1]
    BY <1>7, <2>1
  <2> QED
    BY <2>1, <2>2, <2>3, <2>4
<1> HIDE DEF S
<1>8. 0..n \subseteq S
  BY <1>2, <1>6, <1>7, CountUp
<1>9. n \in S
  <2>1. n \in 0..n
    BY <1>2
  <2> QED
    BY <1>8, <2>1
<1>10. h[n] = f[n]
  BY <1>2, <1>9 DEF S
<1> QED
  BY <1>1, <1>4, <1>10

\* What is flattened ends with the last sequence.
LEMMA FlattenEnds ==
  ASSUME NEW X, NEW q \in Seq(Seq(X)), Len(q) > 0
  PROVE  /\ FlattenSeq(q) \in Seq(X)
         /\ \E p \in Seq(X) : FlattenSeq(q) = p \o q[Len(q)]
<1> DEFINE n == Len(q)
<1>1. n \in Nat /\ n > 0 /\ \A i \in 1..n : q[i] \in Seq(X)
  OBVIOUS
<1>2. PICK f \in [1..n -> Seq(X)] : Flattens(f, q) /\ f[n] = FlattenSeq(q)
  BY FlattenSteps
<1> HIDE DEF n
<1>3. n \in 1..n
  BY <1>1
<1>4. FlattenSeq(q) \in Seq(X)
  BY <1>2, <1>3
<1>5. CASE n = 1
  <2>1. FlattenSeq(q) = q[n]
    BY <1>2, <1>5 DEF Flattens
  <2>2. q[n] = <<>> \o q[n] /\ <<>> \in Seq(X)
    BY <1>1, <1>3
  <2> QED
    BY <1>4, <2>1, <2>2 DEF n
<1>6. CASE n # 1
  <2>1. n \in 2..n /\ n - 1 \in 1..n
    BY <1>1, <1>6
  <2>2. f[n] = f[n - 1] \o q[n]
    BY <1>2, <2>1 DEF Flattens, n
  <2>3. f[n - 1] \in Seq(X)
    BY <1>2, <2>1
  <2> QED
    BY <1>2, <1>4, <2>2, <2>3 DEF n
<1> QED
  BY <1>5, <1>6
-----------------------------------------------------------------------------
(* The order of what is shown and told *)

\* A call is made in every step, and none is ahead of its step.
CountInv ==
  /\ mode # "idle" \/ phase = "tools" => chat = step + 1
  /\ phase = "chat" /\ mode = "idle" => chat = step
  /\ phase # "chat" => chat > 0

\* The events are in the order of their steps, and each step has had its call.
EventOrder ==
  /\ \A k \in DOMAIN events : events[k].call.step < chat /\ events[k].call.step <= step
  /\ \A j, k \in DOMAIN events : j < k => events[j].call.step <= events[k].call.step

Earlier(token, c, e) == token.of.chat < c \/ (token.of.chat = c /\ token.of.endpoint < e)

\* The tokens are in the order of the calls and of their endpoints; a first chunk is the
\* first token of its endpoint.
ShownOrder ==
  /\ \A k \in DOMAIN shown : shown[k].of.chat > 0
  /\ \A j, k \in DOMAIN shown : j < k =>
       /\ shown[j].of.chat <= shown[k].of.chat
       /\ shown[j].of.chat = shown[k].of.chat => shown[j].of.endpoint <= shown[k].of.endpoint
       /\ shown[k].part = 1 => Earlier(shown[j], shown[k].of.chat, shown[k].of.endpoint)
  /\ mode \in {"stream", "fallback"} /\ parts = 0 =>
       \A k \in DOMAIN shown : Earlier(shown[k], chat, endpoint)

\* An answer has a text, of the last endpoint of the last call.
FinalInv ==
  phase = "returned" /\ final.kind = "answer" =>
    final.length > 0 /\ final.of.chat = chat /\ final.of.endpoint = endpoint

LogInv == AnswerInv /\ CountInv /\ EventOrder /\ ShownOrder /\ FinalInv

LEMMA EventTyped ==
  ASSUME TypeOK
  PROVE  /\ Len(events) \in Nat /\ DOMAIN events = 1..Len(events)
         /\ \A k \in DOMAIN events : events[k] \in Event /\ events[k].call.step \in Nat
         /\ step \in Nat /\ chat \in Nat
<1>1. events \in Seq(Event)
  BY DEF TypeOK
<1>2. \A k \in DOMAIN events : events[k] \in Event
  BY <1>1
<1>3. \A e \in Event : e.call.step \in Nat
  BY DEF Event, Call
<1> QED
  BY <1>1, <1>2, <1>3 DEF TypeOK, ChatTypeOK

\* The events of a step are told after its call.
LEMMA TellKeepsOrder ==
  ASSUME TypeOK, NextInv, EventOrder, phase = "tools", chat = step + 1,
         NEW type \in {"tool_call", "tool_result"}, Tell(type), chat' = chat,
         step' \in {step, step + 1}
  PROVE  EventOrder'
<1>1. /\ Len(events) \in Nat /\ DOMAIN events = 1..Len(events) /\ step \in Nat /\ chat \in Nat
      /\ \A k \in DOMAIN events : events[k].call.step \in Nat
  BY EventTyped
<1>2. step' \in Nat /\ step <= step'
  BY <1>1
<1>3. CASE ~Streaming
  BY <1>1, <1>2, <1>3 DEF Tell, EventOrder
<1>4. CASE Streaming
  <2> DEFINE e == [type |-> type, call |-> Current]
  <2>1. e \in Event /\ e.call.step = step
    BY CurrentTyped DEF NextInv, Event, Current
  <2>2. events' = Append(events, e)
    BY <1>4 DEF Tell
  <2>3. events \in Seq(Event)
    BY DEF TypeOK
  <2> HIDE DEF e
  <2>4. /\ Len(events') = Len(events) + 1 /\ DOMAIN events' = 1..(Len(events) + 1)
        /\ events'[Len(events) + 1] = e
        /\ \A k \in 1..Len(events) : events'[k] = events[k]
    BY <2>1, <2>2, <2>3, AppendProperties
  <2>5. \A k \in DOMAIN events' : k \in DOMAIN events \/ k = Len(events) + 1
    BY <1>1, <2>4
  <2>6. \A k \in DOMAIN events : events[k].call.step < chat /\ events[k].call.step <= step
    BY DEF EventOrder
  <2>7. ASSUME NEW k \in DOMAIN events'
        PROVE  events'[k].call.step < chat' /\ events'[k].call.step <= step'
    BY <1>1, <1>2, <2>1, <2>4, <2>5, <2>6
  <2>8. ASSUME NEW j \in DOMAIN events', NEW k \in DOMAIN events', j < k
        PROVE  events'[j].call.step <= events'[k].call.step
    <3>1. j \in DOMAIN events
      BY <1>1, <2>4, <2>8
    <3>2. CASE k \in DOMAIN events
      BY <1>1, <2>4, <2>8, <3>1, <3>2 DEF EventOrder
    <3>3. CASE k = Len(events) + 1
      BY <1>1, <2>1, <2>4, <2>6, <3>1, <3>3
    <3> QED
      BY <2>5, <3>2, <3>3
  <2> QED
    BY <2>7, <2>8 DEF EventOrder
<1> QED
  BY <1>3, <1>4 DEF Tell

\* While nothing is told, the order stands.
LEMMA QuietKeepsOrder ==
  ASSUME TypeOK, EventOrder, UNCHANGED events, chat' \in {chat, chat + 1}, step' = step
  PROVE  EventOrder'
<1>1. /\ step \in Nat /\ chat \in Nat
      /\ \A k \in DOMAIN events : events[k].call.step \in Nat
  BY EventTyped
<1> QED
  BY <1>1 DEF EventOrder

\* A step tells an event of its own call's step, and an answer is of the last endpoint.
LEMMA StepKeepsEvents == LogInv /\ [Next]_vars => CountInv' /\ EventOrder' /\ FinalInv'
<1> SUFFICES ASSUME LogInv, [Next]_vars PROVE CountInv' /\ EventOrder' /\ FinalInv'
  OBVIOUS
<1> USE DEF LogInv, AnswerInv
<1>0. chat \in Nat /\ step \in Nat /\ mode \in Modes /\ (phase # "chat" => mode = "idle")
  BY DEF TypeOK, ChatTypeOK, RequestInv
<1>1. CASE Ask
  <2>1. /\ chat' = chat + 1 /\ mode = "idle" /\ phase = "chat" /\ mode' # "idle"
        /\ UNCHANGED <<phase, step, events>>
    BY <1>1 DEF Ask, Invoke, loopVars, FirstMode
  <2> QED
    BY <1>0, <2>1, QuietKeepsOrder DEF CountInv, FinalInv
<1>2. CASE Wait
  <2>1. /\ mode # "idle" /\ mode' # "idle" /\ UNCHANGED <<chat, phase, step, events>>
    BY <1>2 DEF Wait, StreamPart, StreamBreaks, TryNext, RequestFails, loopVars, FirstMode
  <2>2. phase = "chat"
    BY <2>1 DEF RequestInv
  <2> QED
    BY <1>0, <2>1, <2>2, QuietKeepsOrder DEF CountInv, FinalInv
<1>3. CASE ModelFails
  <2>1. /\ mode # "idle" /\ mode' = "idle" /\ phase' = "raised" /\ UNCHANGED <<chat, step, events>>
    BY <1>3 DEF ModelFails, AllFailed, RequestFails
  <2> QED
    BY <1>0, <2>1, QuietKeepsOrder DEF CountInv, FinalInv
<1>4. ASSUME NEW length, NEW requested, Reply(requested, length)
      PROVE  mode # "idle" /\ mode' = "idle" /\ UNCHANGED <<chat, endpoint>>
  BY <1>4 DEF Reply, StreamReply, PlainReply, FallbackReply
<1>5. ASSUME NEW length \in 0 .. MaxParts + 1, Answer(length)
      PROVE  CountInv' /\ EventOrder' /\ FinalInv'
  <2>1. /\ mode # "idle" /\ mode' = "idle" /\ phase' = "returned"
        /\ UNCHANGED <<chat, endpoint, step, events>>
    BY <1>4, <1>5 DEF Answer
  <2>2. final' = IF length > 0 THEN [kind |-> "answer", of |-> InFlight, length |-> length]
                 ELSE [kind |-> "unable"]
    BY <1>5 DEF Answer
  <2>3. FinalInv'
    BY <2>1, <2>2 DEF FinalInv, InFlight
  <2> QED
    BY <1>0, <2>1, <2>3, QuietKeepsOrder DEF CountInv
<1>6. ASSUME NEW length, NEW requested, CallTools(length, requested)
      PROVE  CountInv' /\ EventOrder' /\ FinalInv'
  <2>1. /\ mode # "idle" /\ mode' = "idle" /\ phase' = "tools" /\ UNCHANGED <<chat, step, events>>
    BY <1>4, <1>6 DEF CallTools
  <2> QED
    BY <1>0, <2>1, QuietKeepsOrder DEF CountInv, FinalInv
<1>7. CASE Announce
  <2>1. phase = "tools" /\ Tell("tool_call") /\ UNCHANGED <<chat, mode, phase, step>>
    BY <1>7 DEF Announce, Handling, chatVars
  <2>2. chat = step + 1
    BY <2>1 DEF CountInv
  <2>3. EventOrder'
    BY <1>0, <2>1, <2>2, TellKeepsOrder
  <2> QED
    BY <2>1, <2>3 DEF CountInv, FinalInv
<1>8. CASE Approve \/ Execute \/ ToolRaises
  <2>1. phase = "tools" /\ UNCHANGED <<chat, mode, step, events>> /\ phase' \in {"tools", "raised"}
    BY <1>8 DEF Approve, Execute, ToolRaises, Handling, chatVars
  <2> QED
    BY <1>0, <2>1, QuietKeepsOrder DEF CountInv, FinalInv
<1>9. ASSUME NEW outcome, Settle(outcome), phase = "tools"
      PROVE  CountInv' /\ EventOrder' /\ FinalInv'
  <2>1. Tell("tool_result") /\ Proceed /\ UNCHANGED <<chat, mode>>
    BY <1>9 DEF Settle, chatVars
  <2>2. chat = step + 1
    BY <1>9 DEF CountInv
  <2>3. \/ step' = step /\ phase' = "tools"
        \/ step' = step + 1 /\ phase' = "chat"
        \/ step' = step + 1 /\ phase' = "returned" /\ final' = [kind |-> "unable"]
    BY <1>9, <2>1 DEF Proceed
  <2>4. EventOrder'
    BY <1>0, <1>9, <2>1, <2>2, <2>3, TellKeepsOrder
  <2> QED
    BY <1>0, <1>9, <2>1, <2>2, <2>3, <2>4 DEF CountInv, FinalInv
<1>10. CASE UNCHANGED vars
  BY <1>10 DEF vars, chatVars, loopVars, CountInv, EventOrder, FinalInv
<1>11. CASE ToolReturns \/ Deny \/ UnknownTool
  BY <1>9, <1>11 DEF ToolReturns, Deny, UnknownTool, Handling
<1> QED
  BY <1>1, <1>2, <1>3, <1>5, <1>6, <1>7, <1>8, <1>10, <1>11 DEF Next, Ended

\* A token that is appended is not earlier than the others, and the first of its endpoint
\* is later.
LEMMA TokenKeepsOrder ==
  ASSUME LogInv, NEW n \in Nat, shown' = Append(shown, [of |-> InFlight, part |-> n]),
         mode # "idle", n = 1 => mode \in {"stream", "fallback"} /\ parts = 0
  PROVE  /\ \A k \in DOMAIN shown' : shown'[k].of.chat > 0
         /\ \A j, k \in DOMAIN shown' : j < k =>
              /\ shown'[j].of.chat <= shown'[k].of.chat
              /\ shown'[j].of.chat = shown'[k].of.chat =>
                   shown'[j].of.endpoint <= shown'[k].of.endpoint
              /\ shown'[k].part = 1 =>
                   Earlier(shown'[j], shown'[k].of.chat, shown'[k].of.endpoint)
<1> USE DEF LogInv, AnswerInv
<1> DEFINE m == Len(shown) + 1
<1>1. /\ Len(shown) \in Nat /\ DOMAIN shown = 1 .. Len(shown) /\ DOMAIN shown' = 1 .. m
      /\ \A k \in 1 .. Len(shown) : shown'[k] = shown[k]
      /\ shown'[m].of.chat = chat /\ shown'[m].of.endpoint = endpoint /\ shown'[m].part = n
  BY TokenAppended
<1>2. chat > 0 /\ chat \in Nat /\ endpoint \in Nat
  <2>1. chat = step + 1 /\ step \in Nat
    BY DEF CountInv, TypeOK
  <2> QED
    BY <2>1, FirstIsCandidate DEF TypeOK, ChatTypeOK
<1>3. \A k \in DOMAIN shown : /\ shown[k].of.chat <= chat
                              /\ shown[k].of.chat = chat => shown[k].of.endpoint <= endpoint
                              /\ shown[k].of.chat > 0
  BY DEF ShownInv, ShownBefore, ShownOrder
<1>4. n = 1 => \A k \in DOMAIN shown : Earlier(shown[k], chat, endpoint)
  BY DEF ShownOrder
<1>5. \A k \in DOMAIN shown' : k \in DOMAIN shown \/ k = m
  BY <1>1
<1> HIDE DEF m
<1>6. \A k \in DOMAIN shown' : shown'[k].of.chat > 0
  BY <1>1, <1>2, <1>3, <1>5
<1>7. ASSUME NEW j \in DOMAIN shown', NEW k \in DOMAIN shown', j < k
      PROVE  /\ shown'[j].of.chat <= shown'[k].of.chat
             /\ shown'[j].of.chat = shown'[k].of.chat => shown'[j].of.endpoint <= shown'[k].of.endpoint
             /\ shown'[k].part = 1 => Earlier(shown'[j], shown'[k].of.chat, shown'[k].of.endpoint)
  <2>1. j \in DOMAIN shown
    BY <1>1, <1>7 DEF m
  <2>2. CASE k \in DOMAIN shown
    <3>1. shown'[j] = shown[j] /\ shown'[k] = shown[k]
      BY <1>1, <2>1, <2>2
    <3> QED
      BY <1>7, <2>1, <2>2, <3>1 DEF ShownOrder
  <2>3. CASE k = m
    <3>1. shown'[j] = shown[j]
      BY <1>1, <2>1
    <3> QED
      BY <1>1, <1>3, <1>4, <2>1, <2>3, <3>1
  <2> QED
    BY <1>5, <2>2, <2>3
<1> QED
  BY <1>6, <1>7

\* A step shows a token of the endpoint in use only.
LEMMA StepKeepsShownOrder == LogInv /\ [Next]_vars => ShownOrder'
<1> SUFFICES ASSUME LogInv, [Next]_vars PROVE ShownOrder'
  OBVIOUS
<1> USE DEF LogInv, AnswerInv
<1>0. chat \in Nat /\ endpoint \in Nat /\ parts \in Nat
  BY FirstIsCandidate DEF TypeOK, ChatTypeOK
<1>1. \A k \in DOMAIN shown : /\ shown[k].of.chat \in Nat /\ shown[k].of.endpoint \in Nat
                              /\ shown[k].of.chat <= chat
                              /\ shown[k].of.chat = chat => shown[k].of.endpoint <= endpoint
  BY ShownBounds DEF ShownInv, ShownBefore
<1>2. CASE Ask \/ TryNext
  <2>1. shown' = shown
    BY <1>2 DEF Ask, Invoke, TryNext, RequestFails
  <2>2. chat' = chat + 1 \/ (chat' = chat /\ endpoint' = endpoint + 1)
    BY <1>2 DEF Ask, Invoke, TryNext, RequestFails
  <2>3. \A k \in DOMAIN shown : Earlier(shown[k], chat', endpoint')
    BY <1>0, <1>1, <2>2 DEF Earlier
  <2> QED
    BY <2>1, <2>3 DEF ShownOrder
<1>3. CASE shown' = shown /\ mode' = "idle"
  BY <1>3 DEF ShownOrder
<1>4. CASE UNCHANGED chatVars
  BY <1>4 DEF ShownOrder, chatVars
<1>5. CASE StreamBreaks
  BY <1>5 DEF StreamBreaks, ShownOrder
<1>6. CASE StreamPart
  <2>1. /\ shown' = Append(shown, [of |-> InFlight, part |-> parts + 1])
        /\ parts' = parts + 1 /\ mode = "stream" /\ parts + 1 \in Nat
        /\ (parts + 1 = 1 => parts = 0) /\ parts' # 0
    BY <1>0, <1>6 DEF StreamPart
  <2>2. parts + 1 \in Nat /\ (parts + 1 = 1 => mode \in {"stream", "fallback"} /\ parts = 0)
    BY <2>1
  <2> QED
    BY <2>1, <2>2, TokenKeepsOrder DEF ShownOrder
<1>7. ASSUME NEW length, NEW requested, FallbackReply(requested, length)
      PROVE  ShownOrder'
  <2>1. CASE length = 1 /\ parts = 0
    <3>1. /\ shown' = Append(shown, [of |-> InFlight, part |-> 1]) /\ mode' = "idle"
          /\ mode = "fallback"
      BY <1>7, <2>1 DEF FallbackReply
    <3> QED
      BY <2>1, <3>1, TokenKeepsOrder DEF ShownOrder
  <2>2. CASE ~(length = 1 /\ parts = 0)
    BY <1>3, <1>7, <2>2 DEF FallbackReply
  <2> QED
    BY <2>1, <2>2
<1>8. ASSUME NEW length, NEW requested, Reply(requested, length)
      PROVE  ShownOrder'
  BY <1>3, <1>7, <1>8 DEF Reply, StreamReply, PlainReply
<1>9. CASE Wait
  BY <1>2, <1>5, <1>6, <1>9 DEF Wait
<1>10. CASE ModelFails
  BY <1>3, <1>10 DEF ModelFails, AllFailed, RequestFails
<1>11. CASE \E length \in 0 .. MaxParts + 1 :
              Answer(length) \/ \E requested \in SeqOf(Tools, MaxCalls) : CallTools(length, requested)
  BY <1>8, <1>11 DEF Answer, CallTools
<1>12. CASE \/ Announce \/ Approve \/ Execute \/ ToolRaises \/ ToolReturns \/ Deny \/ UnknownTool
            \/ UNCHANGED vars
  BY <1>4, <1>12 DEF Announce, Approve, Execute, ToolRaises, ToolReturns, Deny, UnknownTool,
     Settle, vars
<1> QED
  BY <1>2, <1>9, <1>10, <1>11, <1>12 DEF Next, Ended

LEMMA StepKeepsLog == LogInv /\ [Next]_vars => LogInv'
BY StepKeepsAnswer, StepKeepsEvents, StepKeepsShownOrder DEF LogInv

LEMMA InitLog == Init => LogInv
<1> SUFFICES ASSUME Init PROVE LogInv
  OBVIOUS
<1>1. AnswerInv
  BY InitTyped, EmptySeq DEF Init, ChatInit, AnswerInv, RequestInv, ShownInv, AnswerIsShown
<1>2. DOMAIN shown = {} /\ DOMAIN events = {}
  BY EmptySeq DEF Init, ChatInit
<1> QED
  BY <1>1, <1>2 DEF Init, ChatInit, LogInv, CountInv, EventOrder, ShownOrder, FinalInv
-----------------------------------------------------------------------------
(* Logs *)

\* A set that holds the empty sequence and, with a sequence, every longer one by an item.
LEMMA BuildUp ==
  ASSUME NEW X, NEW S, <<>> \in S, \A s \in Seq(X), x \in X : s \in S => Append(s, x) \in S
  PROVE  Seq(X) \subseteq S
<1> SUFFICES ASSUME NEW t \in Seq(X) PROVE t \in S
  OBVIOUS
<1> DEFINE n == Len(t)
           P == {k \in 0..n : SubSeq(t, 1, k) \in S}
<1>1. n \in Nat /\ \A k \in 1..n : t[k] \in X
  OBVIOUS
<1>2. \A k \in 0..n : /\ SubSeq(t, 1, k) \in Seq(X) /\ Len(SubSeq(t, 1, k)) = k
                      /\ \A i \in 1..k : SubSeq(t, 1, k)[i] = t[i]
  <2> SUFFICES ASSUME NEW k \in 0..n
               PROVE  /\ SubSeq(t, 1, k) \in Seq(X) /\ Len(SubSeq(t, 1, k)) = k
                      /\ \A i \in 1..k : SubSeq(t, 1, k)[i] = t[i]
    OBVIOUS
  <2>1. \A i \in 1..k : t[i] \in X /\ 1 + i - 1 = i
    BY <1>1
  <2>2. k - 1 + 1 = k /\ (1 <= k \/ k = 0)
    BY <1>1
  <2> QED
    BY <1>1, <2>1, <2>2, SubSeqProperties
<1>3. 0 \in P
  <2>1. 0 \in 0..n
    BY <1>1
  <2>2. SubSeq(t, 1, 0) \in Seq(X) /\ Len(SubSeq(t, 1, 0)) = 0
    BY <1>2, <2>1
  <2>3. SubSeq(t, 1, 0) = <<>>
    BY <2>2, EmptySeq
  <2> QED
    BY <2>1, <2>3
<1>4. ASSUME NEW k \in 1..n, k - 1 \in P PROVE k \in P
  <2> DEFINE a == SubSeq(t, 1, k - 1)
             b == SubSeq(t, 1, k)
             c == Append(a, t[k])
  <2>1. k \in 0..n /\ k - 1 \in 0..n /\ (k - 1) + 1 = k
    BY <1>1
  <2>2. /\ a \in Seq(X) /\ Len(a) = k - 1 /\ \A i \in 1..(k - 1) : a[i] = t[i]
        /\ b \in Seq(X) /\ Len(b) = k /\ \A i \in 1..k : b[i] = t[i]
        /\ t[k] \in X
    BY <1>1, <1>2, <2>1
  <2>3. a \in S
    BY <1>4
  <2> HIDE DEF a, b, P
  <2>4. a \in Seq(X) /\ t[k] \in X
    BY <2>2
  <2>5. c \in Seq(X) /\ Len(c) = Len(a) + 1 /\ c[Len(a) + 1] = t[k] /\ \A i \in 1..Len(a) : c[i] = a[i]
    BY <2>4, AppendProperties
  <2>6. c \in S
    BY <2>3, <2>4
  <2> HIDE DEF c
  <2>7. Len(c) = k /\ \A i \in 1..k : c[i] = b[i]
    <3>1. \A i \in 1..k : i \in 1..(k - 1) \/ i = k
      BY <1>1
    <3> QED
      BY <2>1, <2>2, <2>5, <3>1
  <2>8. c \in Seq(X) /\ b \in Seq(X) /\ Len(c) = Len(b)
    BY <2>2, <2>5, <2>7
  <2>9. c = b
    BY <2>2, <2>7, <2>8, SeqEqual
  <2> QED
    BY <2>1, <2>6, <2>9 DEF P, b
<1> HIDE DEF P
<1>5. 0..n \subseteq P
  BY <1>1, <1>3, <1>4, CountUp
<1>6. n \in P
  <2>1. n \in 0..n
    BY <1>1
  <2> QED
    BY <1>5, <2>1
<1>7. SubSeq(t, 1, n) = t
  <2>1. n \in 0..n
    BY <1>1
  <2> DEFINE u == SubSeq(t, 1, n)
  <2>2. u \in Seq(X) /\ Len(u) = n /\ \A i \in 1..n : u[i] = t[i]
    BY <1>2, <2>1
  <2> HIDE DEF u
  <2>3. u \in Seq(X)
    BY <2>2
  <2> QED
    BY <2>2, <2>3, SeqEqual DEF u
<1> QED
  BY <1>6, <1>7 DEF P

TextEvent == [type : {"final_delta", "run_completed"}, text : Seq(Token)]

Compaction == [type : {"memory_compacted"}]

Activity == Event \cup Compaction

LogEvent == TextEvent \cup Activity

ModelEvent == [type : {"model_token"}, text : Seq(Token)] \cup [type : {"model_start", "model_end"}]

LEMMA ToldTyped ==
  ASSUME NEW type \in {"final_delta", "model_token"}, NEW s \in Seq(Token)
  PROVE  /\ Told(type, s) \in Seq([type : {type}, text : Seq(Token)])
         /\ Len(Told(type, s)) = Len(s)
         /\ \A k \in 1..Len(s) : Told(type, s)[k] = TokenEvent(type, s[k])
<1>1. Len(s) \in Nat /\ DOMAIN s = 1..Len(s) /\ \A k \in 1..Len(s) : s[k] \in Token
  OBVIOUS
<1>2. \A k \in 1..Len(s) : <<s[k]>> \in Seq(Token)
  BY <1>1
<1>3. \A k \in 1..Len(s) : TokenEvent(type, s[k]) \in [type : {type}, text : Seq(Token)]
  BY <1>2 DEF TokenEvent
<1> QED
  BY <1>1, <1>3, IsASeq DEF Told

LEMMA ToldAppend ==
  ASSUME NEW type \in {"final_delta", "model_token"}, NEW s \in Seq(Token), NEW t \in Token
  PROVE  /\ Told(type, Append(s, t)) = Told(type, s) \o <<TokenEvent(type, t)>>
         /\ TokenEvent(type, t) \in [type : {type}, text : Seq(Token)]
<1> DEFINE E == [type : {type}, text : Seq(Token)]
           a == Told(type, s)
           e == TokenEvent(type, t)
           b == <<e>>
           u == Append(s, t)
           c == Told(type, u)
           d == a \o b
<1>1. /\ u \in Seq(Token) /\ Len(u) = Len(s) + 1 /\ u[Len(s) + 1] = t
      /\ \A k \in 1..Len(s) : u[k] = s[k]
  BY AppendProperties
<1>2. a \in Seq(E) /\ Len(a) = Len(s) /\ \A k \in 1..Len(s) : a[k] = TokenEvent(type, s[k])
  BY ToldTyped
<1>3. e \in E
  <2>1. <<t>> \in Seq(Token)
    OBVIOUS
  <2> QED
    BY <2>1 DEF TokenEvent
<1> HIDE DEF u
<1>4. u \in Seq(Token)
  BY <1>1
<1>5. c \in Seq(E) /\ Len(c) = Len(u) /\ \A k \in 1..Len(u) : c[k] = TokenEvent(type, u[k])
  BY <1>4, ToldTyped
<1> HIDE DEF E, a, c, e
<1>6. b \in Seq(E) /\ Len(b) = 1 /\ b[1] = e
  BY <1>3
<1> HIDE DEF b
<1>7. a \in Seq(E)
  BY <1>2
<1>8. b \in Seq(E)
  BY <1>6
<1>9. /\ d \in Seq(E) /\ Len(d) = Len(a) + Len(b)
      /\ \A k \in 1..Len(a) : d[k] = a[k]
      /\ \A k \in 1..Len(b) : d[Len(a) + k] = b[k]
  BY <1>7, <1>8, ConcatProperties
<1> HIDE DEF d
<1>10. Len(d) = Len(s) + 1 /\ Len(c) = Len(s) + 1 /\ d[Len(s) + 1] = e
  BY <1>1, <1>2, <1>5, <1>6, <1>9
<1>11. ASSUME NEW k \in 1..(Len(s) + 1) PROVE c[k] = d[k]
  <2>1. CASE k = Len(s) + 1
    BY <1>1, <1>5, <1>10, <2>1 DEF e
  <2>2. CASE k \in 1..Len(s)
    BY <1>1, <1>2, <1>5, <1>9, <2>2
  <2> QED
    BY <2>1, <2>2
<1>12. c \in Seq(E) /\ d \in Seq(E)
  BY <1>5, <1>9
<1>13. c = d
  BY <1>10, <1>11, <1>12, SeqEqual
<1> QED
  BY <1>3, <1>13 DEF c, d, a, b, u, e, E
-----------------------------------------------------------------------------
(* The screens *)

ScreenLine ==
  [line : {"thinking", "tool_call", "tool_result", "memory_compacted",
           "Final (live)", "Final", "streamed live above"}]

TextItem == Token \cup {Mark}

Item == TextItem \cup ScreenLine

TuiState ==
  [thinking : BOOLEAN, activities : Seq(Activity), text : Seq(Token), open : BOOLEAN,
   screen : Seq(Item)]

\* Labels and activity lines are told apart from what is text.
LEMMA LinesAreNoText ==
  ASSUME NEW l \in ScreenLine
  PROVE  l \notin TextItem
<1>1. DOMAIN l = {"line"}
  BY DEF ScreenLine
<1>2. \A t \in Token : DOMAIN t = {"of", "part"}
  BY DEF Token
<1>3. DOMAIN Mark = {"mark"}
  BY DEF Mark
<1>4. "line" \notin {"of", "part"} /\ "line" \notin {"mark"}
  OBVIOUS
<1> QED
  BY <1>1, <1>2, <1>3, <1>4 DEF TextItem

\* The text on a screen is that of its parts.
LEMMA TextFacts ==
  /\ \A a, b \in Seq(Item) : Text(a \o b) = Text(a) \o Text(b)
  /\ \A l \in ScreenLine : Text(<<l>>) = <<>>
  /\ \A s \in Seq(TextItem) : Text(s) = s
<1>1. ASSUME NEW a \in Seq(Item), NEW b \in Seq(Item) PROVE Text(a \o b) = Text(a) \o Text(b)
  BY AmongConcat DEF Text
<1>2. ASSUME NEW l \in ScreenLine PROVE Text(<<l>>) = <<>>
  <2>1. <<l>> \in Seq(ScreenLine) /\ \A k \in 1..Len(<<l>>) : <<l>>[k] \notin TextItem
    BY LinesAreNoText
  <2> QED
    BY <2>1, AmongNone DEF Text, TextItem
<1>3. ASSUME NEW s \in Seq(TextItem) PROVE Text(s) = s
  <2>1. \A k \in 1..Len(s) : s[k] \in TextItem
    OBVIOUS
  <2>2. Among(s, TextItem) = s
    BY <2>1, AmongAll
  <2> QED
    BY <2>2 DEF Text, TextItem
<1> QED
  BY <1>1, <1>2, <1>3
-----------------------------------------------------------------------------
(* The TUI *)

\* d has the tokens tokens on the screen, behind the mark, and the activities acts.
TuiHas(d, tokens, acts) ==
  /\ d \in TuiState
  /\ d.activities = acts
  /\ d.open = (tokens # <<>>)
  /\ Text(d.screen) = IF tokens = <<>> THEN <<>> ELSE <<Mark>> \o tokens

LEMMA TuiStateRecord ==
  ASSUME NEW d \in TuiState
  PROVE  /\ d.thinking \in BOOLEAN /\ d.activities \in Seq(Activity) /\ d.text \in Seq(Token)
         /\ d.open \in BOOLEAN /\ d.screen \in Seq(Item)
         /\ d = [thinking |-> d.thinking, activities |-> d.activities, text |-> d.text,
                 open |-> d.open, screen |-> d.screen]
BY DEF TuiState

LEMMA MarkedTyped ==
  ASSUME NEW screen \in Seq(Item), NEW text \in Seq(Token)
  PROVE  /\ screen \o text \in Seq(Item)
         /\ screen \o <<Mark>> \o text \in Seq(Item)
         /\ Text(screen \o text) = Text(screen) \o text
         /\ Text(screen \o <<Mark>> \o text) = Text(screen) \o <<Mark>> \o text
<1>1. <<Mark>> \in Seq(TextItem) /\ <<Mark>> \in Seq(Item)
  BY DEF TextItem, Item
<1>2. text \in Seq(TextItem) /\ text \in Seq(Item)
  BY DEF TextItem, Item
<1>3. screen \o text \in Seq(Item) /\ screen \o <<Mark>> \in Seq(Item)
  BY <1>1, <1>2, ConcatProperties
<1>4. screen \o <<Mark>> \o text \in Seq(Item)
  BY <1>2, <1>3, ConcatProperties
<1>5. Text(screen \o text) = Text(screen) \o Text(text)
      /\ Text(screen \o <<Mark>>) = Text(screen) \o Text(<<Mark>>)
  BY <1>1, <1>2, TextFacts
<1>6. Text(screen \o <<Mark>> \o text) = Text(screen \o <<Mark>>) \o Text(text)
  BY <1>2, <1>3, TextFacts
<1>7. Text(text) = text /\ Text(<<Mark>>) = <<Mark>>
  BY <1>1, <1>2, TextFacts
<1> QED
  BY <1>3, <1>4, <1>5, <1>6, <1>7

\* What the TUI's handlers make of a state.
LEMMA TuiSteps ==
  ASSUME NEW d \in TuiState
  PROVE  /\ \A e \in LogEvent : TuiHandle(d, e) \in TuiState /\ ~TuiHandle(d, e).thinking
         /\ \A e \in TextEvent : e.type = "final_delta" =>
              /\ TuiHandle(d, e).activities = d.activities
              /\ TuiHandle(d, e).open
              /\ TuiHandle(d, e).screen =
                   IF d.open THEN d.screen \o e.text ELSE d.screen \o <<Mark>> \o e.text
         /\ \A e \in TextEvent : e.type = "run_completed" =>
              /\ TuiHandle(d, e).activities = d.activities
              /\ TuiHandle(d, e).text = e.text
              /\ TuiHandle(d, e).screen =
                   IF d.open THEN d.screen ELSE d.screen \o <<Mark>> \o e.text
         /\ \A e \in Activity :
              /\ Line(e) \in ScreenLine
              /\ TuiHandle(d, e).activities = Append(d.activities, e)
              /\ TuiHandle(d, e).open = d.open
              /\ TuiHandle(d, e).screen = Append(d.screen, Line(e))
<1>1. /\ d.activities \in Seq(Activity) /\ d.text \in Seq(Token)
      /\ d.open \in BOOLEAN /\ d.screen \in Seq(Item)
  BY TuiStateRecord
<1>2. ASSUME NEW e \in TextEvent, e.type = "final_delta"
      PROVE  /\ TuiHandle(d, e) \in TuiState /\ ~TuiHandle(d, e).thinking
             /\ TuiHandle(d, e).activities = d.activities
             /\ TuiHandle(d, e).open
             /\ TuiHandle(d, e).screen =
                  IF d.open THEN d.screen \o e.text ELSE d.screen \o <<Mark>> \o e.text
  <2>1. e.text \in Seq(Token)
    BY DEF TextEvent
  <2>2. d.screen \o e.text \in Seq(Item) /\ d.screen \o <<Mark>> \o e.text \in Seq(Item)
    BY <1>1, <2>1, MarkedTyped
  <2>3. d.text \o e.text \in Seq(Token)
    BY <1>1, <2>1
  <2>4. TuiHandle(d, e) = TuiToken(d, e)
    BY <1>2 DEF TuiHandle
  <2>5. /\ TuiToken(d, e).thinking = FALSE /\ TuiToken(d, e).activities = d.activities
        /\ TuiToken(d, e).text = d.text \o e.text /\ TuiToken(d, e).open = TRUE
        /\ TuiToken(d, e).screen =
             IF d.open THEN d.screen \o e.text ELSE d.screen \o <<Mark>> \o e.text
    BY DEF TuiToken, TuiState
  <2>6. TuiToken(d, e) \in TuiState
    <3> DEFINE text == d.text \o e.text
               screen == IF d.open THEN d.screen \o e.text ELSE d.screen \o <<Mark>> \o e.text
    <3>1. TuiToken(d, e) =
            [d EXCEPT !.thinking = FALSE, !.text = text, !.open = TRUE, !.screen = screen]
      BY DEF TuiToken
    <3>2. text \in Seq(Token) /\ screen \in Seq(Item)
      BY <2>2, <2>3
    <3> HIDE DEF text, screen
    <3> QED
      BY <3>1, <3>2 DEF TuiState
  <2> QED
    BY <2>4, <2>5, <2>6
<1>3. ASSUME NEW e \in TextEvent, e.type = "run_completed"
      PROVE  /\ TuiHandle(d, e) \in TuiState /\ ~TuiHandle(d, e).thinking
             /\ TuiHandle(d, e).activities = d.activities
             /\ TuiHandle(d, e).text = e.text
             /\ TuiHandle(d, e).screen =
                  IF d.open THEN d.screen ELSE d.screen \o <<Mark>> \o e.text
  <2>1. e.text \in Seq(Token)
    BY DEF TextEvent
  <2>2. d.screen \o <<Mark>> \o e.text \in Seq(Item)
    BY <1>1, <2>1, MarkedTyped
  <2>3. TuiHandle(d, e) = TuiCompleted(d, e)
    BY <1>3 DEF TuiHandle
  <2>4. /\ TuiCompleted(d, e).thinking = FALSE /\ TuiCompleted(d, e).activities = d.activities
        /\ TuiCompleted(d, e).text = e.text
        /\ TuiCompleted(d, e).screen = IF d.open THEN d.screen ELSE d.screen \o <<Mark>> \o e.text
    BY DEF TuiCompleted, TuiState
  <2>5. TuiCompleted(d, e) \in TuiState
    <3> DEFINE screen == IF d.open THEN d.screen ELSE d.screen \o <<Mark>> \o e.text
    <3>1. TuiCompleted(d, e) = [d EXCEPT !.thinking = FALSE, !.text = e.text, !.screen = screen]
      BY DEF TuiCompleted
    <3>2. screen \in Seq(Item)
      BY <1>1, <2>2
    <3> HIDE DEF screen
    <3> QED
      BY <2>1, <3>1, <3>2 DEF TuiState
  <2> QED
    BY <2>3, <2>4, <2>5
<1>4. ASSUME NEW e \in Activity
      PROVE  /\ TuiHandle(d, e) \in TuiState /\ ~TuiHandle(d, e).thinking
             /\ Line(e) \in ScreenLine
             /\ TuiHandle(d, e).activities = Append(d.activities, e)
             /\ TuiHandle(d, e).open = d.open
             /\ TuiHandle(d, e).screen = Append(d.screen, Line(e))
  <2>1. e.type \in {"tool_call", "tool_result", "memory_compacted"}
    BY DEF Activity, Event, Compaction
  <2>2. Line(e) \in ScreenLine
    BY <2>1 DEF Line, ScreenLine
  <2>3. Line(e) \in Item
    BY <2>2 DEF Item
  <2>4. Append(d.screen, Line(e)) \in Seq(Item) /\ Append(d.activities, e) \in Seq(Activity)
    BY <1>1, <2>3
  <2>5. TuiHandle(d, e) = TuiActivity(d, e)
    BY <2>1 DEF TuiHandle
  <2>6. /\ TuiActivity(d, e).thinking = FALSE /\ TuiActivity(d, e).open = d.open
        /\ TuiActivity(d, e).activities = Append(d.activities, e)
        /\ TuiActivity(d, e).screen = Append(d.screen, Line(e))
    BY DEF TuiActivity, TuiState
  <2>7. TuiActivity(d, e) \in TuiState
    BY <2>4 DEF TuiActivity, TuiState
  <2> QED
    BY <2>2, <2>5, <2>6, <2>7
<1>5. \A e \in TextEvent : e.type = "final_delta" \/ e.type = "run_completed"
  BY DEF TextEvent
<1> QED
  BY <1>2, <1>3, <1>4, <1>5 DEF LogEvent

\* A token is added to the final line, which the first one opens.
LEMMA TuiTakesToken ==
  ASSUME NEW tokens \in Seq(Token), NEW acts, NEW d, TuiHas(d, tokens, acts), NEW t \in Token
  PROVE  TuiHas(TuiHandle(d, TokenEvent("final_delta", t)), Append(tokens, t), acts)
<1> DEFINE e == TokenEvent("final_delta", t)
           h == TuiHandle(d, e)
<1>1. e \in TextEvent /\ e.type = "final_delta" /\ e.text = <<t>> /\ e \in LogEvent
  <2>1. <<t>> \in Seq(Token)
    OBVIOUS
  <2> QED
    BY <2>1 DEF TokenEvent, TextEvent, LogEvent
<1> HIDE DEF e
<1>2. d \in TuiState /\ d.screen \in Seq(Item) /\ <<t>> \in Seq(Token)
  BY TuiStateRecord DEF TuiHas
<1>3. /\ h \in TuiState /\ h.activities = acts /\ h.open = TRUE
      /\ h.screen = IF d.open THEN d.screen \o <<t>> ELSE d.screen \o <<Mark>> \o <<t>>
  <2>1. TuiHandle(d, e) \in TuiState
    BY <1>1, <1>2, TuiSteps
  <2>2. /\ TuiHandle(d, e).activities = d.activities /\ TuiHandle(d, e).open
        /\ TuiHandle(d, e).screen =
             IF d.open THEN d.screen \o e.text ELSE d.screen \o <<Mark>> \o e.text
    BY <1>1, <1>2, TuiSteps
  <2> QED
    BY <1>1, <2>1, <2>2 DEF TuiHas, TuiState
<1> HIDE DEF h
<1>4. /\ Text(d.screen \o <<t>>) = Text(d.screen) \o <<t>>
      /\ Text(d.screen \o <<Mark>> \o <<t>>) = Text(d.screen) \o <<Mark>> \o <<t>>
  BY <1>2, MarkedTyped
<1>5. Append(tokens, t) # <<>> /\ tokens \in Seq(TextItem) /\ t \in TextItem
      /\ <<Mark>> \in Seq(TextItem)
  BY DEF TextItem
<1>6. Text(h.screen) = <<Mark>> \o Append(tokens, t)
  <2>1. CASE tokens = <<>>
    <3>1. <<>> \o <<Mark>> \o <<t>> = <<Mark>> \o Append(<<>>, t)
      OBVIOUS
    <3> QED
      BY <1>3, <1>4, <2>1, <3>1 DEF TuiHas
  <2>2. CASE tokens # <<>>
    <3>1. AppendsInside(<<Mark>>, tokens, t)
      BY <1>5, AppendToConcat
    <3>2. <<Mark>> \o tokens \in Seq(TextItem)
      BY <1>5, ConcatProperties
    <3>3. (<<Mark>> \o tokens) \o <<t>> = Append(<<Mark>> \o tokens, t)
      BY <1>5, <3>2
    <3> QED
      BY <1>3, <1>4, <2>2, <3>1, <3>3 DEF TuiHas, AppendsInside
  <2> QED
    BY <2>1, <2>2
<1> QED
  BY <1>3, <1>5, <1>6 DEF TuiHas, h, e

\* An activity adds a line and no text.
LEMMA TuiTakesActivity ==
  ASSUME NEW tokens, NEW acts, NEW d, TuiHas(d, tokens, acts), NEW e \in Activity
  PROVE  TuiHas(TuiHandle(d, e), tokens, Append(acts, e))
<1> DEFINE h == TuiHandle(d, e)
<1>1. d \in TuiState /\ d.screen \in Seq(Item) /\ d.activities = acts /\ d.open \in BOOLEAN
  BY TuiStateRecord DEF TuiHas
<1>2. e \in LogEvent
  BY DEF LogEvent
<1>3. /\ h \in TuiState /\ h.activities = Append(acts, e) /\ h.open = d.open
      /\ Line(e) \in ScreenLine /\ h.screen = Append(d.screen, Line(e))
  BY <1>1, <1>2, TuiSteps
<1> HIDE DEF h
<1>4. Text(h.screen) = Text(d.screen)
  <2>1. Line(e) \in Item /\ <<Line(e)>> \in Seq(Item)
    BY <1>3 DEF Item
  <2>2. Append(d.screen, Line(e)) = d.screen \o <<Line(e)>>
    BY <1>1, <2>1
  <2>3. Text(d.screen \o <<Line(e)>>) = Text(d.screen) \o <<>>
    BY <1>1, <1>3, <2>1, TextFacts
  <2>4. Text(d.screen) \in Seq(Item \cap (Token \cup {Mark}))
    BY <1>1, AmongTyped DEF Text
  <2>5. Text(d.screen) \o <<>> = Text(d.screen)
    BY <2>4
  <2> QED
    BY <1>3, <2>2, <2>3, <2>5
<1> QED
  BY <1>1, <1>3, <1>4 DEF TuiHas, h

LEMMA TuiAfterTyped ==
  ASSUME NEW d \in TuiState
  PROVE  /\ \A s \in Seq(LogEvent) : TuiAfter(d, s) \in TuiState
         /\ \A a, b \in Seq(LogEvent) : TuiAfter(d, a \o b) = TuiAfter(TuiAfter(d, a), b)
         /\ TuiAfter(d, <<>>) = d
         /\ \A x \in LogEvent : TuiAfter(d, <<x>>) = TuiHandle(d, x)
<1>1. TuiCloses(TuiState, LogEvent)
  BY TuiSteps DEF TuiCloses
<1> QED
  BY <1>1, TuiAfterFacts

LEMMA TuiTakesTokens ==
  ASSUME NEW tokens \in Seq(Token), NEW acts, NEW d, TuiHas(d, tokens, acts), NEW more \in Seq(Token)
  PROVE  TuiHas(TuiAfter(d, Told("final_delta", more)), tokens \o more, acts)
<1> DEFINE L(s) == Told("final_delta", s)
           S == {s \in Seq(Token) : TuiHas(TuiAfter(d, L(s)), tokens \o s, acts)}
<1>1. d \in TuiState
  BY DEF TuiHas
<1>2. \A s \in Seq(Token) : L(s) \in Seq(LogEvent) /\ Len(L(s)) = Len(s)
  <2> DEFINE E == [type : {"final_delta"}, text : Seq(Token)]
  <2>1. E \subseteq LogEvent
    BY DEF LogEvent, TextEvent
  <2>2. \A s \in Seq(Token) : L(s) \in Seq(E) /\ Len(L(s)) = Len(s)
    BY ToldTyped
  <2> HIDE DEF E, L
  <2>3. ASSUME NEW s \in Seq(Token) PROVE L(s) \in Seq(LogEvent)
    BY <2>1, <2>2
  <2> QED
    BY <2>2, <2>3
<1>3. <<>> \in S
  <2>1. <<>> \in Seq(Token) /\ Len(<<>>) = 0
    OBVIOUS
  <2>2. L(<<>>) = <<>>
    BY <1>2, <2>1, EmptySeq
  <2>3. tokens \o <<>> = tokens
    OBVIOUS
  <2> QED
    BY <1>1, <2>1, <2>2, <2>3, TuiAfterTyped
<1>4. ASSUME NEW s \in Seq(Token), NEW t \in Token, s \in S PROVE Append(s, t) \in S
  <2>1. L(Append(s, t)) = L(s) \o <<TokenEvent("final_delta", t)>>
    BY ToldAppend
  <2>2. TokenEvent("final_delta", t) \in LogEvent
    <3>1. TokenEvent("final_delta", t) \in [type : {"final_delta"}, text : Seq(Token)]
      BY ToldAppend
    <3> QED
      BY <3>1 DEF LogEvent, TextEvent
  <2> DEFINE b == TuiAfter(d, L(s))
             e == TokenEvent("final_delta", t)
  <2>3. TuiHas(b, tokens \o s, acts)
    BY <1>4
  <2>4. L(s) \in Seq(LogEvent)
    BY <1>2
  <2> HIDE DEF L
  <2>5. TuiAfter(d, L(s) \o <<e>>) = TuiAfter(b, <<e>>)
    <3>1. <<e>> \in Seq(LogEvent)
      BY <2>2
    <3> QED
      BY <1>1, <2>4, <3>1, TuiAfterTyped
  <2> HIDE DEF b, e, S
  <2>6. TuiAfter(b, <<e>>) = TuiHandle(b, e)
    BY <2>2, <2>3, TuiAfterTyped DEF TuiHas, e
  <2>7. tokens \o s \in Seq(Token)
    BY ConcatProperties
  <2>8. TuiHas(TuiHandle(b, e), Append(tokens \o s, t), acts)
    BY <2>3, <2>7, TuiTakesToken DEF e
  <2>9. Append(tokens \o s, t) = tokens \o Append(s, t)
    <3>1. AppendsInside(tokens, s, t)
      BY AppendToConcat
    <3> QED
      BY <3>1 DEF AppendsInside
  <2>10. Append(s, t) \in Seq(Token)
    OBVIOUS
  <2> QED
    BY <2>1, <2>5, <2>6, <2>8, <2>9, <2>10 DEF S, e
<1> HIDE DEF S
<1>5. Seq(Token) \subseteq S
  BY <1>3, <1>4, BuildUp
<1> QED
  BY <1>5 DEF S

LEMMA TuiTakesActivities ==
  ASSUME NEW tokens, NEW acts \in Seq(Activity), NEW d, TuiHas(d, tokens, acts),
         NEW more \in Seq(Activity)
  PROVE  TuiHas(TuiAfter(d, more), tokens, acts \o more)
<1> DEFINE S == {s \in Seq(Activity) : TuiHas(TuiAfter(d, s), tokens, acts \o s)}
<1>1. d \in TuiState
  BY DEF TuiHas
<1>2. Activity \subseteq LogEvent /\ \A s \in Seq(Activity) : s \in Seq(LogEvent)
  BY DEF LogEvent
<1>3. <<>> \in S
  <2>1. <<>> \in Seq(Activity) /\ acts \o <<>> = acts
    OBVIOUS
  <2> QED
    BY <1>1, <2>1, TuiAfterTyped
<1>4. ASSUME NEW s \in Seq(Activity), NEW e \in Activity, s \in S PROVE Append(s, e) \in S
  <2> DEFINE b == TuiAfter(d, s)
  <2>1. Append(s, e) = s \o <<e>> /\ Append(s, e) \in Seq(Activity) /\ <<e>> \in Seq(LogEvent)
    BY <1>2
  <2>2. TuiHas(b, tokens, acts \o s)
    BY <1>4
  <2>3. TuiAfter(d, s \o <<e>>) = TuiAfter(b, <<e>>)
    BY <1>1, <1>2, <2>1, TuiAfterTyped
  <2> HIDE DEF b, S
  <2>4. TuiAfter(b, <<e>>) = TuiHandle(b, e)
    BY <1>2, <2>2, TuiAfterTyped DEF TuiHas
  <2>5. TuiHas(TuiHandle(b, e), tokens, Append(acts \o s, e))
    BY <2>2, TuiTakesActivity
  <2>6. Append(acts \o s, e) = acts \o Append(s, e)
    <3>1. AppendsInside(acts, s, e)
      BY AppendToConcat
    <3> QED
      BY <3>1 DEF AppendsInside
  <2> QED
    BY <2>1, <2>3, <2>4, <2>5, <2>6 DEF S
<1> HIDE DEF S
<1>5. Seq(Activity) \subseteq S
  BY <1>3, <1>4, BuildUp
<1> QED
  BY <1>5 DEF S
-----------------------------------------------------------------------------
(* What the calls up to one have shown and told *)

OfCalls(C) == [of : [chat : C, endpoint : Nat, mode : Modes], part : Nat]

OfSteps(C) ==
  [type : {"tool_call", "tool_result"}, call : [step : C, pos : Nat \ {0}, tool : Tools]]

TokensUpto(c) == Among(shown, OfCalls(1..c))

EventsUpto(c) == Among(events, OfSteps(0..(c - 1)))

LEMMA OfCallsFacts ==
  /\ \A C : \A t \in Token : t \in OfCalls(C) <=> t.of.chat \in C
  /\ \A C : \A e \in Event : e \in OfSteps(C) <=> e.call.step \in C
<1>1. ASSUME NEW t \in Token, NEW C PROVE t \in OfCalls(C) <=> t.of.chat \in C
  BY DEF Token, Response, OfCalls
<1>2. ASSUME NEW e \in Event, NEW C PROVE e \in OfSteps(C) <=> e.call.step \in C
  BY DEF Event, Call, OfSteps
<1> QED
  BY <1>1, <1>2

LEMMA ShownAndTold ==
  ASSUME LogInv
  PROVE  /\ shown \in Seq(Token) /\ Len(shown) \in Nat /\ chat \in Nat /\ step \in Nat
         /\ \A k \in 1..Len(shown) : /\ shown[k] \in Token /\ shown[k].of.chat \in 1..chat
                                     /\ shown[k].of.endpoint \in Nat
         /\ \A j, k \in 1..Len(shown) : j < k => shown[j].of.chat <= shown[k].of.chat
         /\ events \in Seq(Event) /\ Len(events) \in Nat
         /\ \A k \in 1..Len(events) : events[k] \in Event /\ events[k].call.step \in 0..(chat - 1)
         /\ \A j, k \in 1..Len(events) : j < k => events[j].call.step <= events[k].call.step
<1> USE DEF LogInv, AnswerInv
<1>1. /\ shown \in Seq(Token) /\ Len(shown) \in Nat /\ DOMAIN shown = 1..Len(shown)
      /\ \A k \in 1..Len(shown) : shown[k] \in Token
      /\ events \in Seq(Event) /\ chat \in Nat /\ step \in Nat
  BY DEF TypeOK, ChatTypeOK
<1>2. \A t \in Token : t.of.chat \in Nat /\ t.of.endpoint \in Nat
  BY DEF Token, Response
<1>3. ASSUME NEW k \in 1..Len(shown) PROVE shown[k].of.chat \in 1..chat
  <2>1. shown[k].of.chat <= chat /\ shown[k].of.chat > 0
    BY <1>1 DEF ShownInv, ShownBefore, ShownOrder
  <2> QED
    BY <1>1, <1>2, <2>1
<1>4. \A j, k \in 1..Len(shown) : j < k => shown[j].of.chat <= shown[k].of.chat
  BY <1>1 DEF ShownOrder
<1>5. /\ Len(events) \in Nat /\ DOMAIN events = 1..Len(events)
      /\ \A k \in DOMAIN events : events[k] \in Event /\ events[k].call.step \in Nat
  BY EventTyped
<1>6. ASSUME NEW k \in 1..Len(events) PROVE events[k].call.step \in 0..(chat - 1)
  <2>1. events[k].call.step < chat /\ events[k].call.step \in Nat
    BY <1>5 DEF EventOrder
  <2> QED
    BY <1>1, <2>1
<1>7. \A j, k \in 1..Len(events) : j < k => events[j].call.step <= events[k].call.step
  BY <1>5 DEF EventOrder
<1> QED
  BY <1>1, <1>2, <1>3, <1>4, <1>5, <1>6, <1>7

\* The tokens shown are those of the calls, call by call.
LEMMA TokensByCall ==
  ASSUME LogInv
  PROVE  /\ \A c \in 0..chat : TokensUpto(c) \in Seq(Token)
         /\ \A c : TokensOfCall(c) \in Seq(Token)
         /\ TokensUpto(0) = <<>> /\ TokensUpto(chat) = shown
         /\ \A c \in 1..chat : TokensUpto(c) = TokensUpto(c - 1) \o TokensOfCall(c)
<1>1. /\ shown \in Seq(Token) /\ chat \in Nat
      /\ \A k \in 1..Len(shown) : shown[k] \in Token /\ shown[k].of.chat \in 1..chat
      /\ \A j, k \in 1..Len(shown) : j < k => shown[j].of.chat <= shown[k].of.chat
  BY ShownAndTold
<1>2. ASSUME NEW S PROVE Among(shown, S) \in Seq(Token)
  <2>1. Among(shown, S) \in Seq(Token \cap S)
    BY <1>1, AmongTyped
  <2> DEFINE X == Token \cap S
  <2>2. X \subseteq Token
    OBVIOUS
  <2> HIDE DEF X
  <2> QED
    BY <2>1, <2>2 DEF X
<1>3. TokensUpto(0) = <<>>
  <2>1. \A k \in 1..Len(shown) : shown[k] \notin OfCalls(1..0)
    BY <1>1, OfCallsFacts
  <2> QED
    BY <1>1, <2>1, AmongNone DEF TokensUpto
<1>4. TokensUpto(chat) = shown
  <2>1. \A k \in 1..Len(shown) : shown[k] \in OfCalls(1..chat)
    BY <1>1, OfCallsFacts
  <2> QED
    BY <1>1, <2>1, AmongAll DEF TokensUpto
<1>5. ASSUME NEW c \in 1..chat PROVE TokensUpto(c) = TokensUpto(c - 1) \o TokensOfCall(c)
  <2> DEFINE A == OfCalls(1..(c - 1))
             B == OfCalls({c})
             C == OfCalls(1..c)
  <2>1. c \in Nat /\ c > 0
    BY <1>1
  <2>2. \A k \in 1..Len(shown) : /\ shown[k] \in A <=> shown[k].of.chat \in 1..(c - 1)
                                 /\ shown[k] \in B <=> shown[k].of.chat = c
                                 /\ shown[k] \in C <=> shown[k].of.chat \in 1..c
    BY <1>1, OfCallsFacts
  <2>3. A \cap B = {}
    <3>1. \A t : t \in A => t.of.chat \in 1..(c - 1)
      BY DEF OfCalls
    <3>2. \A t : t \in B => t.of.chat = c
      BY DEF OfCalls
    <3> HIDE DEF A, B
    <3> QED
      BY <2>1, <3>1, <3>2
  <2>4. B = [of : [chat : {c}, endpoint : Nat, mode : Modes], part : Nat]
    BY DEF OfCalls
  <2> HIDE DEF A, B, C
  <2>5. \A i, j \in 1..Len(shown) : i < j /\ shown[i] \in B => shown[j] \notin A
    BY <1>1, <2>1, <2>2
  <2>6. \A k \in 1..Len(shown) : shown[k] \in C <=> shown[k] \in A \cup B
    BY <1>1, <2>1, <2>2
  <2>7. Among(shown, A \cup B) = Among(shown, A) \o Among(shown, B)
    BY <1>1, <2>3, <2>5, AmongOrdered
  <2>8. Among(shown, C) = Among(shown, A \cup B)
    BY <1>1, <2>6, AmongSame
  <2> QED
    BY <2>4, <2>7, <2>8 DEF TokensUpto, TokensOfCall, A, C
<1> QED
  BY <1>2, <1>3, <1>4, <1>5 DEF TokensUpto, TokensOfCall

\* The events told are those of the steps, step by step.
LEMMA EventsByStep ==
  ASSUME LogInv
  PROVE  /\ \A c \in 0..chat : EventsUpto(c) \in Seq(Event)
         /\ \A c : EventsOfStep(c) \in Seq(Event)
         /\ EventsUpto(0) = <<>> /\ EventsUpto(chat) = events
         /\ \A c \in 1..chat : EventsUpto(c) = EventsUpto(c - 1) \o EventsOfStep(c - 1)
<1>1. /\ events \in Seq(Event) /\ chat \in Nat
      /\ \A k \in 1..Len(events) : events[k] \in Event /\ events[k].call.step \in 0..(chat - 1)
      /\ \A j, k \in 1..Len(events) : j < k => events[j].call.step <= events[k].call.step
  BY ShownAndTold
<1>2. ASSUME NEW S PROVE Among(events, S) \in Seq(Event)
  <2>1. Among(events, S) \in Seq(Event \cap S)
    BY <1>1, AmongTyped
  <2> DEFINE X == Event \cap S
  <2>2. X \subseteq Event
    OBVIOUS
  <2> HIDE DEF X
  <2> QED
    BY <2>1, <2>2 DEF X
<1>3. EventsUpto(0) = <<>>
  <2>1. \A k \in 1..Len(events) : events[k] \notin OfSteps(0..(0 - 1))
    BY <1>1, OfCallsFacts
  <2> QED
    BY <1>1, <2>1, AmongNone DEF EventsUpto
<1>4. EventsUpto(chat) = events
  <2>1. \A k \in 1..Len(events) : events[k] \in OfSteps(0..(chat - 1))
    BY <1>1, OfCallsFacts
  <2> QED
    BY <1>1, <2>1, AmongAll DEF EventsUpto
<1>5. ASSUME NEW c \in 1..chat PROVE EventsUpto(c) = EventsUpto(c - 1) \o EventsOfStep(c - 1)
  <2> DEFINE n == c - 1
             A == OfSteps(0..(n - 1))
             B == OfSteps({n})
             C == OfSteps(0..n)
  <2>1. n \in Nat
    BY <1>1
  <2>2. \A k \in 1..Len(events) : /\ events[k] \in A <=> events[k].call.step \in 0..(n - 1)
                                  /\ events[k] \in B <=> events[k].call.step = n
                                  /\ events[k] \in C <=> events[k].call.step \in 0..n
    BY <1>1, OfCallsFacts
  <2>3. A \cap B = {}
    <3>1. \A t : t \in A => t.call.step \in 0..(n - 1)
      BY DEF OfSteps
    <3>2. \A t : t \in B => t.call.step = n
      BY DEF OfSteps
    <3> HIDE DEF A, B, n
    <3> QED
      BY <2>1, <3>1, <3>2
  <2>4. B = [type : {"tool_call", "tool_result"},
             call : [step : {n}, pos : Nat \ {0}, tool : Tools]]
    BY DEF OfSteps
  <2> HIDE DEF A, B, C, n
  <2>5. \A i, j \in 1..Len(events) : i < j /\ events[i] \in B => events[j] \notin A
    BY <1>1, <2>1, <2>2
  <2>6. \A k \in 1..Len(events) : events[k] \in C <=> events[k] \in A \cup B
    BY <1>1, <2>1, <2>2
  <2>7. Among(events, A \cup B) = Among(events, A) \o Among(events, B)
    BY <1>1, <2>3, <2>5, AmongOrdered
  <2>8. Among(events, C) = Among(events, A \cup B)
    BY <1>1, <2>6, AmongSame
  <2> QED
    BY <2>4, <2>7, <2>8 DEF EventsUpto, EventsOfStep, A, C, n
<1> QED
  BY <1>2, <1>3, <1>4, <1>5 DEF EventsUpto, EventsOfStep

LEMMA ConcatOfThree ==
  ASSUME NEW X, NEW a \in Seq(X), NEW b \in Seq(X), NEW c \in Seq(X)
  PROVE  (a \o b) \o c = a \o (b \o c)
<1> DEFINE l == (a \o b) \o c
           r == a \o (b \o c)
           m == Len(a)
           n == Len(b)
           o == Len(c)
<1>1. /\ a \o b \in Seq(X) /\ Len(a \o b) = m + n
      /\ b \o c \in Seq(X) /\ Len(b \o c) = n + o
      /\ m \in Nat /\ n \in Nat /\ o \in Nat
      /\ \A k \in 1..m : (a \o b)[k] = a[k]
      /\ \A k \in 1..n : (a \o b)[m + k] = b[k]
      /\ \A k \in 1..n : (b \o c)[k] = b[k]
      /\ \A k \in 1..o : (b \o c)[n + k] = c[k]
  BY ConcatProperties
<1>2. /\ l \in Seq(X) /\ Len(l) = (m + n) + o
      /\ \A k \in 1..(m + n) : l[k] = (a \o b)[k]
      /\ \A k \in 1..o : l[(m + n) + k] = c[k]
  BY <1>1, ConcatProperties
<1>3. /\ r \in Seq(X) /\ Len(r) = m + (n + o)
      /\ \A k \in 1..m : r[k] = a[k]
      /\ \A k \in 1..(n + o) : r[m + k] = (b \o c)[k]
  BY <1>1, ConcatProperties
<1> HIDE DEF l, r, m, n, o
<1>4. ASSUME NEW k \in 1..((m + n) + o) PROVE l[k] = r[k]
  <2>1. CASE k \in 1..m
    <3>1. k \in 1..(m + n)
      BY <1>1, <2>1
    <3> QED
      BY <1>1, <1>2, <1>3, <2>1, <3>1
  <2>2. CASE k > m /\ k <= m + n
    <3>1. k - m \in 1..n /\ k - m \in 1..(n + o) /\ k \in 1..(m + n) /\ m + (k - m) = k
      BY <1>1, <2>2
    <3>2. l[k] = (a \o b)[m + (k - m)]
      BY <1>2, <3>1
    <3>3. r[m + (k - m)] = (b \o c)[k - m]
      BY <1>3, <3>1
    <3> QED
      BY <1>1, <3>1, <3>2, <3>3
  <2>3. CASE k > m + n
    <3>1. /\ k - (m + n) \in 1..o /\ k - m \in 1..(n + o) /\ (m + n) + (k - (m + n)) = k
          /\ m + (k - m) = k /\ n + (k - (m + n)) = k - m
      BY <1>1, <2>3
    <3>2. l[(m + n) + (k - (m + n))] = c[k - (m + n)]
      BY <1>2, <3>1
    <3>3. r[m + (k - m)] = (b \o c)[k - m]
      BY <1>3, <3>1
    <3>4. (b \o c)[n + (k - (m + n))] = c[k - (m + n)]
      BY <1>1, <3>1
    <3> QED
      BY <3>1, <3>2, <3>3, <3>4
  <2> QED
    BY <1>1, <2>1, <2>2, <2>3
<1>5. l \in Seq(X) /\ r \in Seq(X) /\ Len(l) = (m + n) + o /\ Len(r) = (m + n) + o
  BY <1>1, <1>2, <1>3
<1>6. l = r
  BY <1>4, <1>5, SeqEqual
<1> QED
  BY <1>6 DEF l, r

\* The text returned: never empty, and either no model's or the last endpoint's.
LEMMA FinalTextFacts ==
  ASSUME LogInv, phase = "returned"
  PROVE  /\ FinalText \in Seq(Token) /\ Len(FinalText) \in Nat /\ Len(FinalText) > 0
         /\ chat > 0 /\ chat \in Nat /\ endpoint \in Nat /\ endpoint > 0
         /\ \/ final.kind # "answer" /\ FinalText[1].of.chat = 0
            \/ /\ final.kind = "answer" /\ FinalText[1].part = 1
               /\ \A k \in 1..Len(FinalText) :
                    FinalText[k].of.chat = chat /\ FinalText[k].of.endpoint = endpoint
<1> USE DEF LogInv, AnswerInv
<1>1. chat > 0 /\ chat \in Nat /\ endpoint \in Nat /\ endpoint > 0
  BY ChatAssumption DEF CountInv, TypeOK, ChatTypeOK, Candidates
<1>2. CASE final.kind = "answer"
  <2>1. final.of \in Response /\ final.length \in Nat
    BY <1>2 DEF TypeOK, Final
  <2>2. final.length > 0 /\ final.of.chat = chat /\ final.of.endpoint = endpoint
    BY <1>2 DEF FinalInv
  <2>3. /\ Whole(final) \in Seq(Token) /\ Len(Whole(final)) = final.length
        /\ \A k \in 1 .. final.length : Whole(final)[k] = [of |-> final.of, part |-> k]
    BY <2>1, WholeTyped
  <2>4. FinalText = Whole(final)
    BY <1>2 DEF FinalText
  <2>5. 1 \in 1..final.length
    BY <2>1, <2>2
  <2>6. ASSUME NEW k \in 1..final.length
        PROVE  Whole(final)[k].of = final.of /\ Whole(final)[k].part = k
    <3> DEFINE token == [of |-> final.of, part |-> k]
    <3>1. token.of = final.of /\ token.part = k
      OBVIOUS
    <3> HIDE DEF token
    <3>2. Whole(final)[k] = token
      BY <2>3 DEF token
    <3> QED
      BY <3>1, <3>2
  <2>7. FinalText \in Seq(Token) /\ Len(FinalText) = final.length
    BY <2>3, <2>4
  <2>8. FinalText[1].part = 1
    BY <2>4, <2>5, <2>6
  <2>9. \A k \in 1..Len(FinalText) :
          FinalText[k].of.chat = chat /\ FinalText[k].of.endpoint = endpoint
    BY <2>2, <2>4, <2>6, <2>7
  <2> QED
    BY <1>1, <1>2, <2>1, <2>2, <2>7, <2>8, <2>9
<1>3. CASE final.kind # "answer"
  <2>1. FinalText = <<Foreign(0)>>
    BY <1>3 DEF FinalText, Unable
  <2>2. Foreign(0) \in Token /\ Foreign(0).of.chat = 0
    BY DEF Foreign, Token, Response, Modes
  <2>3. <<Foreign(0)>> \in Seq(Token) /\ Len(<<Foreign(0)>>) = 1 /\ <<Foreign(0)>>[1] = Foreign(0)
    BY <2>2
  <2> QED
    BY <1>1, <1>3, <2>1, <2>2, <2>3
<1> QED
  BY <1>2, <1>3

\* What a call leaves in the log adds its tokens and its events.
LEMMA TuiTakesCall ==
  ASSUME NEW tokens \in Seq(Token), NEW acts \in Seq(Activity), NEW d, TuiHas(d, tokens, acts),
         NEW more \in Seq(Token), NEW told \in Seq(Activity)
  PROVE  /\ Told("final_delta", more) \o told \in Seq(LogEvent)
         /\ TuiHas(TuiAfter(d, Told("final_delta", more) \o told), tokens \o more, acts \o told)
<1> DEFINE l == Told("final_delta", more)
           b == TuiAfter(d, l)
           E == [type : {"final_delta"}, text : Seq(Token)]
<1>1. E \subseteq LogEvent /\ Activity \subseteq LogEvent
  BY DEF LogEvent, TextEvent
<1>2. l \in Seq(E)
  BY ToldTyped
<1> HIDE DEF E, l
<1>3. l \in Seq(LogEvent) /\ told \in Seq(LogEvent)
  BY <1>1, <1>2
<1>4. TuiHas(b, tokens \o more, acts)
  BY TuiTakesTokens DEF l
<1>5. TuiAfter(d, l \o told) = TuiAfter(b, told)
  BY <1>3, TuiAfterTyped DEF TuiHas
<1>6. tokens \o more \in Seq(Token)
  OBVIOUS
<1> HIDE DEF b
<1>7. TuiHas(TuiAfter(b, told), tokens \o more, acts \o told)
  BY <1>4, <1>6, TuiTakesActivities
<1>8. l \o told \in Seq(LogEvent)
  BY <1>3
<1> QED
  BY <1>5, <1>7, <1>8 DEF l

LEMMA TuiStarts == TuiHas(TuiStart, <<>>, <<>>)
<1> DEFINE l == Line(Typed("thinking"))
<1>1. l \in ScreenLine
  BY DEF Line, Typed, ScreenLine
<1> HIDE DEF l
<1>2. <<l>> \in Seq(Item) /\ Text(<<l>>) = <<>>
  BY <1>1, TextFacts DEF Item
<1>3. <<>> \in Seq(Activity) /\ <<>> \in Seq(Token)
  OBVIOUS
<1>4. TuiStart = [thinking |-> TRUE, activities |-> <<>>, text |-> <<>>, open |-> FALSE,
                  screen |-> <<l>>]
  BY DEF TuiStart, l
<1>5. TuiStart \in TuiState
  BY <1>2, <1>3, <1>4 DEF TuiState
<1> QED
  BY <1>2, <1>4, <1>5 DEF TuiHas

\* What the calls of a run leave in the log.
CallsLog == [c \in 1..chat |-> Told("final_delta", TokensOfCall(c)) \o EventsOfStep(c - 1)]

Compacted(compacted) == IF compacted THEN <<Typed("memory_compacted")>> ELSE <<>>

Completion == [type |-> "run_completed", text |-> FinalText]

LEMMA EventLogParts ==
  ASSUME NEW compacted
  PROVE  EventLog(compacted) = FlattenSeq(CallsLog) \o Compacted(compacted) \o <<Completion>>
BY Zenon DEF EventLog, CallsLog, Compacted, Completion

LEMMA TailTyped ==
  ASSUME LogInv, phase = "returned", NEW compacted \in BOOLEAN
  PROVE  /\ Compacted(compacted) \in Seq(Compaction)
         /\ Completion \in LogEvent /\ Completion \in TextEvent
         /\ Completion.type = "run_completed" /\ Completion.text = FinalText
<1>1. Typed("memory_compacted") \in Compaction
  BY DEF Typed, Compaction
<1>2. Compacted(compacted) \in Seq(Compaction)
  BY <1>1 DEF Compacted
<1> QED
  BY <1>2, FinalTextFacts DEF Completion, LogEvent, TextEvent

LEMMA CallsLogTyped ==
  ASSUME LogInv
  PROVE  CallsLog \in Seq(Seq(LogEvent)) /\ Len(CallsLog) = chat
<1>1. chat \in Nat
  BY ShownAndTold
<1>2. ASSUME NEW c \in 1..chat
      PROVE  Told("final_delta", TokensOfCall(c)) \o EventsOfStep(c - 1) \in Seq(LogEvent)
  <2>1. TokensOfCall(c) \in Seq(Token)
    BY TokensByCall
  <2>2. EventsOfStep(c - 1) \in Seq(Event)
    BY EventsByStep
  <2>3. EventsOfStep(c - 1) \in Seq(Activity)
    <3>1. Event \subseteq Activity
      BY DEF Activity
    <3> QED
      BY <2>2, <3>1
  <2>4. <<>> \in Seq(Token) /\ <<>> \in Seq(Activity)
    OBVIOUS
  <2> QED
    BY <2>1, <2>3, <2>4, TuiStarts, TuiTakesCall
<1> QED
  BY <1>1, <1>2, IsASeq DEF CallsLog

\* Behind the calls the TUI has all their tokens and events.
LEMMA TuiAfterCalls ==
  ASSUME LogInv, phase = "returned"
  PROVE  /\ FlattenSeq(CallsLog) \in Seq(LogEvent)
         /\ TuiHas(TuiAfter(TuiStart, FlattenSeq(CallsLog)), shown, events)
<1> DEFINE q == CallsLog
<1>1. chat \in Nat /\ chat > 0
  BY FinalTextFacts
<1>2. q \in Seq(Seq(LogEvent)) /\ Len(q) = chat
  BY CallsLogTyped
<1>3. \A c \in 1..chat : q[c] = Told("final_delta", TokensOfCall(c)) \o EventsOfStep(c - 1)
  BY DEF CallsLog
<1> HIDE DEF q
<1>4. PICK f \in [1..Len(q) -> Seq(LogEvent)] : Flattens(f, q) /\ f[Len(q)] = FlattenSeq(q)
  <2>1. Len(q) > 0
    BY <1>1, <1>2
  <2> QED
    BY <1>2, <2>1, FlattenSteps
<1> DEFINE b(c) == IF c = 0 THEN TuiStart ELSE TuiAfter(TuiStart, f[c])
           S == {c \in 0..chat : TuiHas(b(c), TokensUpto(c), EventsUpto(c))}
<1>5. TuiStart \in TuiState
  BY TuiStarts DEF TuiHas
<1>6. ASSUME NEW c \in 1..chat PROVE b(c) = TuiAfter(b(c - 1), q[c])
  <2>1. CASE c = 1
    BY <1>4, <2>1 DEF Flattens
  <2>2. CASE c # 1
    <3>1. c \in 2..Len(q) /\ c - 1 \in 1..Len(q) /\ c \in 1..Len(q) /\ c - 1 # 0 /\ c # 0
      BY <1>1, <1>2, <2>2
    <3>2. f[c] = f[c - 1] \o q[c]
      BY <1>4, <3>1 DEF Flattens
    <3>3. f[c - 1] \in Seq(LogEvent)
      BY <1>4, <3>1
    <3>5. q[c] \in Seq(LogEvent)
      BY <1>2, <3>1
    <3>4. TuiAfter(TuiStart, f[c - 1] \o q[c]) = TuiAfter(TuiAfter(TuiStart, f[c - 1]), q[c])
      BY <1>5, <3>3, <3>5, TuiAfterTyped
    <3> QED
      BY <3>1, <3>2, <3>4
  <2> QED
    BY <2>1, <2>2
<1>7. 0 \in S
  <2>1. TokensUpto(0) = <<>> /\ EventsUpto(0) = <<>> /\ 0 \in 0..chat
    BY <1>1, TokensByCall, EventsByStep
  <2> QED
    BY <2>1, TuiStarts
<1>8. ASSUME NEW c \in 1..chat, c - 1 \in S PROVE c \in S
  <2>1. c \in 0..chat /\ c - 1 \in 0..chat
    BY <1>1
  <2>2. TuiHas(b(c - 1), TokensUpto(c - 1), EventsUpto(c - 1))
    BY <1>8
  <2>3. /\ TokensUpto(c - 1) \in Seq(Token) /\ TokensOfCall(c) \in Seq(Token)
        /\ TokensUpto(c) = TokensUpto(c - 1) \o TokensOfCall(c)
    BY <2>1, TokensByCall
  <2>4. /\ EventsUpto(c - 1) \in Seq(Event) /\ EventsOfStep(c - 1) \in Seq(Event)
        /\ EventsUpto(c) = EventsUpto(c - 1) \o EventsOfStep(c - 1)
    BY <2>1, EventsByStep
  <2>5. EventsUpto(c - 1) \in Seq(Activity) /\ EventsOfStep(c - 1) \in Seq(Activity)
    <3>1. Event \subseteq Activity
      BY DEF Activity
    <3> QED
      BY <2>4, <3>1
  <2>6. b(c) = TuiAfter(b(c - 1), q[c])
    BY <1>6
  <2> DEFINE before == b(c - 1)
  <2> HIDE DEF before, b, S
  <2>7. TuiHas(before, TokensUpto(c - 1), EventsUpto(c - 1)) /\ b(c) = TuiAfter(before, q[c])
    BY <2>2, <2>6 DEF before
  <2>8. TuiHas(TuiAfter(before, Told("final_delta", TokensOfCall(c)) \o EventsOfStep(c - 1)),
               TokensUpto(c - 1) \o TokensOfCall(c), EventsUpto(c - 1) \o EventsOfStep(c - 1))
    BY <2>3, <2>5, <2>7, TuiTakesCall
  <2>9. TuiHas(b(c), TokensUpto(c), EventsUpto(c))
    BY <1>3, <2>3, <2>4, <2>7, <2>8
  <2> QED
    BY <2>1, <2>9 DEF S
<1> HIDE DEF S, b
<1>9. chat \in S
  <2>1. 0..chat \subseteq S
    BY <1>1, <1>7, <1>8, CountUp
  <2> QED
    BY <1>1, <2>1
<1>10. TuiHas(b(chat), shown, events)
  BY <1>9, TokensByCall, EventsByStep DEF S
<1>11. b(chat) = TuiAfter(TuiStart, FlattenSeq(q)) /\ FlattenSeq(q) \in Seq(LogEvent)
  <2>1. chat # 0 /\ Len(q) \in 1..Len(q)
    BY <1>1, <1>2
  <2> QED
    BY <1>2, <1>4, <2>1 DEF b
<1> QED
  BY <1>10, <1>11 DEF q

\* The TUI before the run is completed.
LEMMA TuiBeforeEnd ==
  ASSUME LogInv, phase = "returned", NEW compacted \in BOOLEAN
  PROVE  \E d \in TuiState : /\ TuiHas(d, shown, events \o Compacted(compacted))
                             /\ Tui(compacted) = TuiHandle(d, Completion)
<1> DEFINE q == FlattenSeq(CallsLog)
           t == Compacted(compacted)
           b == TuiAfter(TuiStart, q)
           d == TuiAfter(b, t)
<1>1. q \in Seq(LogEvent) /\ TuiHas(b, shown, events)
  BY TuiAfterCalls
<1>2. t \in Seq(Compaction) /\ Completion \in LogEvent
  BY TailTyped
<1> HIDE DEF q, t
<1>3. t \in Seq(Activity) /\ t \in Seq(LogEvent)
  <2>1. Compaction \subseteq Activity /\ Compaction \subseteq LogEvent
    BY DEF Activity, LogEvent
  <2> QED
    BY <1>2, <2>1
<1>4. TuiStart \in TuiState
  BY TuiStarts DEF TuiHas
<1>5. events \in Seq(Activity) /\ shown \in Seq(Token)
  <2>1. events \in Seq(Event) /\ shown \in Seq(Token)
    BY ShownAndTold
  <2>2. Event \subseteq Activity
    BY DEF Activity
  <2> QED
    BY <2>1, <2>2
<1>6. TuiHas(d, shown, events \o t)
  <2> HIDE DEF b
  <2> QED
    BY <1>1, <1>3, <1>5, TuiTakesActivities
<1>7. d \in TuiState
  BY <1>6 DEF TuiHas
<1>8. Tui(compacted) = TuiAfter(TuiStart, q \o t \o <<Completion>>)
  <2>1. EventLog(compacted) = q \o t \o <<Completion>>
    BY EventLogParts DEF q, t
  <2> QED
    BY <2>1, Zenon DEF Tui, TuiAfter
<1>9. TuiAfter(TuiStart, q \o t \o <<Completion>>) = TuiAfter(d, <<Completion>>)
  <2>1. q \o t \in Seq(LogEvent) /\ <<Completion>> \in Seq(LogEvent)
    BY <1>1, <1>2, <1>3
  <2>2. TuiAfter(TuiStart, (q \o t) \o <<Completion>>)
          = TuiAfter(TuiAfter(TuiStart, q \o t), <<Completion>>)
    BY <1>4, <2>1, TuiAfterTyped
  <2>3. TuiAfter(TuiStart, q \o t) = d
    BY <1>1, <1>3, <1>4, TuiAfterTyped
  <2> QED
    BY <2>2, <2>3
<1> HIDE DEF d
<1>10. TuiAfter(d, <<Completion>>) = TuiHandle(d, Completion)
  BY <1>2, <1>7, TuiAfterTyped
<1> QED
  BY <1>6, <1>7, <1>8, <1>9, <1>10 DEF t

\* The text of the final line.
LEMMA TuiEnds ==
  ASSUME LogInv, phase = "returned", NEW compacted \in BOOLEAN
  PROVE  /\ Tui(compacted).text = FinalText /\ ~Tui(compacted).thinking
         /\ Tui(compacted).activities = events \o Compacted(compacted)
         /\ Text(Tui(compacted).screen) = <<Mark>> \o (IF shown = <<>> THEN FinalText ELSE shown)
<1>1. PICK d \in TuiState : /\ TuiHas(d, shown, events \o Compacted(compacted))
                            /\ Tui(compacted) = TuiHandle(d, Completion)
  BY TuiBeforeEnd
<1>2. /\ Completion \in LogEvent /\ Completion \in TextEvent
      /\ Completion.type = "run_completed" /\ Completion.text = FinalText
      /\ FinalText \in Seq(Token)
  BY TailTyped, FinalTextFacts
<1>3. /\ ~TuiHandle(d, Completion).thinking
      /\ TuiHandle(d, Completion).activities = d.activities
      /\ TuiHandle(d, Completion).text = FinalText
      /\ TuiHandle(d, Completion).screen =
           IF d.open THEN d.screen ELSE d.screen \o <<Mark>> \o FinalText
  BY <1>2, TuiSteps
<1>4. d.screen \in Seq(Item)
  BY TuiStateRecord
<1>5. Text(d.screen \o <<Mark>> \o FinalText) = Text(d.screen) \o <<Mark>> \o FinalText
  BY <1>2, <1>4, MarkedTyped
<1>6. <<>> \o <<Mark>> = <<Mark>>
  OBVIOUS
<1> QED
  BY <1>1, <1>3, <1>5, <1>6 DEF TuiHas

\* The TUI's part of TerminalsShowAnswer.
LEMMA TuiIsRight ==
  ASSUME LogInv, phase = "returned", NEW compacted \in BOOLEAN
  PROVE  TuiShowsAnswer(compacted)
<1> DEFINE tui == Tui(compacted)
           t == Compacted(compacted)
           text == Text(tui.screen)
<1>1. /\ tui.text = FinalText /\ ~tui.thinking /\ tui.activities = events \o t
      /\ text = <<Mark>> \o (IF shown = <<>> THEN FinalText ELSE shown)
  BY TuiEnds
<1> HIDE DEF tui, text
<1>2. shown \in Seq(Token) /\ events \in Seq(Event)
  BY ShownAndTold
<1>3. Among(tui.activities, Event) = events
  <2>1. t \in Seq(Compaction)
    BY TailTyped
  <2> HIDE DEF t
  <2>2. events \in Seq(Activity) /\ t \in Seq(Activity)
    <3>1. Event \subseteq Activity /\ Compaction \subseteq Activity
      BY DEF Activity
    <3> QED
      BY <1>2, <2>1, <3>1
  <2>3. Among(events \o t, Event) = Among(events, Event) \o Among(t, Event)
    BY <2>2, AmongConcat
  <2>4. Among(events, Event) = events
    <3>1. \A k \in 1..Len(events) : events[k] \in Event
      BY <1>2
    <3> QED
      BY <1>2, <3>1, AmongAll
  <2>5. Among(t, Event) = <<>>
    <3>1. \A e \in Compaction : e \notin Event
      BY DEF Compaction, Event
    <3>2. \A k \in 1..Len(t) : t[k] \notin Event
      <4>1. \A k \in 1..Len(t) : t[k] \in Compaction
        BY <2>1
      <4> QED
        BY <3>1, <4>1
    <3> QED
      BY <2>1, <3>2, AmongNone
  <2>6. events \o <<>> = events
    BY <1>2
  <2> QED
    BY <1>1, <2>3, <2>4, <2>5, <2>6
<1> QED
  BY <1>1, <1>3 DEF TuiShowsAnswer, tui, text
-----------------------------------------------------------------------------
(* The CLI *)

CliState == [buffer : Seq(Token), streamed : Seq(Token), lineOpen : BOOLEAN, screen : Seq(Item)]

LEMMA CliStateRecord ==
  ASSUME NEW d \in CliState
  PROVE  /\ d.buffer \in Seq(Token) /\ d.streamed \in Seq(Token)
         /\ d.lineOpen \in BOOLEAN /\ d.screen \in Seq(Item)
BY DEF CliState

LEMMA LineTyped ==
  ASSUME NEW screen \in Seq(Item), NEW l \in ScreenLine, NEW text \in Seq(Token)
  PROVE  /\ Append(screen, l) \in Seq(Item)
         /\ screen \o <<l>> \in Seq(Item)
         /\ screen \o <<l>> \o text \in Seq(Item)
<1>1. l \in Item /\ text \in Seq(Item)
  BY DEF Item, TextItem
<1>2. <<l>> \in Seq(Item) /\ Append(screen, l) \in Seq(Item)
  BY <1>1
<1>3. screen \o <<l>> \in Seq(Item)
  BY <1>2, ConcatProperties
<1>4. screen \o <<l>> \o text \in Seq(Item)
  BY <1>1, <1>3, ConcatProperties
<1> QED
  BY <1>2, <1>3, <1>4

\* What the CLI's listener makes of a state.
LEMMA ListenerSteps ==
  ASSUME NEW d \in CliState
  PROVE  /\ \A e \in ModelEvent : CliModelEvent(d, e) \in CliState
         /\ \A e \in ModelEvent : e.type = "model_start" => CliModelEvent(d, e).buffer = <<>>
         /\ \A e \in ModelEvent : e.type = "model_token" =>
              CliModelEvent(d, e).buffer = d.buffer \o e.text
         /\ \A e \in ModelEvent : e.type = "model_end" => CliModelEvent(d, e).streamed = d.buffer
<1>1. /\ d.buffer \in Seq(Token) /\ d.streamed \in Seq(Token)
      /\ d.lineOpen \in BOOLEAN /\ d.screen \in Seq(Item)
  BY CliStateRecord
<1>2. ASSUME NEW e \in ModelEvent, e.type = "model_start"
      PROVE  CliModelEvent(d, e) \in CliState /\ CliModelEvent(d, e).buffer = <<>>
  <2>1. CliModelEvent(d, e) = [d EXCEPT !.buffer = <<>>]
    BY <1>2 DEF CliModelEvent
  <2>2. <<>> \in Seq(Token)
    OBVIOUS
  <2> QED
    BY <2>1, <2>2 DEF CliState
<1>3. ASSUME NEW e \in ModelEvent, e.type = "model_token"
      PROVE  CliModelEvent(d, e) \in CliState /\ CliModelEvent(d, e).buffer = d.buffer \o e.text
  <2> DEFINE l == [line |-> "Final (live)"]
             buffer == d.buffer \o e.text
             screen == IF d.lineOpen THEN d.screen \o e.text ELSE d.screen \o <<l>> \o e.text
  <2>1. e.text \in Seq(Token)
    BY <1>3 DEF ModelEvent
  <2>2. l \in ScreenLine
    BY DEF ScreenLine
  <2>3. CliModelEvent(d, e) = [d EXCEPT !.buffer = buffer, !.lineOpen = TRUE, !.screen = screen]
    BY <1>3 DEF CliModelEvent
  <2>4. buffer \in Seq(Token)
    BY <1>1, <2>1, ConcatProperties
  <2>5. screen \in Seq(Item)
    <3> HIDE DEF l
    <3>1. d.screen \o <<l>> \o e.text \in Seq(Item)
      BY <1>1, <2>1, <2>2, LineTyped
    <3>2. d.screen \o e.text \in Seq(Item)
      BY <1>1, <2>1, MarkedTyped
    <3> QED
      BY <3>1, <3>2
  <2> HIDE DEF screen, buffer
  <2>6. CliModelEvent(d, e) \in CliState /\ CliModelEvent(d, e).buffer = buffer
    BY <2>3, <2>4, <2>5 DEF CliState
  <2> QED
    BY <2>6 DEF buffer
<1>4. ASSUME NEW e \in ModelEvent, e.type = "model_end"
      PROVE  CliModelEvent(d, e) \in CliState /\ CliModelEvent(d, e).streamed = d.buffer
  <2>1. CliModelEvent(d, e)
          = [d EXCEPT !.streamed = d.buffer, !.buffer = <<>>, !.lineOpen = FALSE]
    BY <1>4 DEF CliModelEvent
  <2>2. <<>> \in Seq(Token)
    OBVIOUS
  <2> QED
    BY <1>1, <2>1, <2>2 DEF CliState
<1>5. \A e \in ModelEvent : e.type \in {"model_start", "model_token", "model_end"}
  BY DEF ModelEvent
<1> QED
  BY <1>2, <1>3, <1>4, <1>5

\* What its renderer makes of one.
LEMMA CliSteps ==
  ASSUME NEW d \in CliState
  PROVE  /\ \A e \in LogEvent : CliHandle(d, e) \in CliState
         /\ \A e \in LogEvent : e.type # "run_completed" => CliHandle(d, e).streamed = d.streamed
         /\ \A e \in TextEvent : e.type = "run_completed" =>
              CliHandle(d, e).screen =
                IF d.streamed # <<>> /\ d.streamed = e.text
                THEN Append(d.screen, [line |-> "streamed live above"])
                ELSE d.screen \o <<[line |-> "Final"]>> \o e.text
<1>1. /\ d.buffer \in Seq(Token) /\ d.streamed \in Seq(Token)
      /\ d.lineOpen \in BOOLEAN /\ d.screen \in Seq(Item)
  BY CliStateRecord
<1>2. ASSUME NEW e \in LogEvent, e.type = "final_delta"
      PROVE  CliHandle(d, e) = d
  BY <1>2 DEF CliHandle
<1>3. ASSUME NEW e \in LogEvent, e.type = "run_completed"
      PROVE  /\ CliHandle(d, e) \in CliState
             /\ CliHandle(d, e).screen =
                  IF d.streamed # <<>> /\ d.streamed = e.text
                  THEN Append(d.screen, [line |-> "streamed live above"])
                  ELSE d.screen \o <<[line |-> "Final"]>> \o e.text
  <2> DEFINE above == [line |-> "streamed live above"]
             label == [line |-> "Final"]
             screen == IF d.streamed # <<>> /\ d.streamed = e.text
                       THEN Append(d.screen, above)
                       ELSE d.screen \o <<label>> \o e.text
  <2>1. e.text \in Seq(Token)
    BY <1>3 DEF LogEvent, TextEvent, Activity, Event, Compaction
  <2>2. above \in ScreenLine /\ label \in ScreenLine
    BY DEF ScreenLine
  <2>3. CliHandle(d, e) = [d EXCEPT !.streamed = <<>>, !.lineOpen = FALSE, !.screen = screen]
    BY <1>3 DEF CliHandle, CliCompleted
  <2>4. screen \in Seq(Item)
    <3> HIDE DEF above, label
    <3>1. Append(d.screen, above) \in Seq(Item) /\ d.screen \o <<label>> \o e.text \in Seq(Item)
      BY <1>1, <2>1, <2>2, LineTyped
    <3> QED
      BY <3>1
  <2>5. <<>> \in Seq(Token)
    OBVIOUS
  <2> HIDE DEF screen
  <2>6. CliHandle(d, e) \in CliState /\ CliHandle(d, e).screen = screen
    BY <2>3, <2>4, <2>5 DEF CliState
  <2> QED
    BY <2>6 DEF screen
<1>4. ASSUME NEW e \in LogEvent, e.type \notin {"final_delta", "run_completed"}
      PROVE  CliHandle(d, e) \in CliState /\ CliHandle(d, e).streamed = d.streamed
  <2> DEFINE screen == Append(d.screen, Line(e))
  <2>1. CliHandle(d, e) = [d EXCEPT !.screen = screen]
    BY <1>4 DEF CliHandle
  <2>2. Line(e) \in ScreenLine
    BY <1>4, TuiSteps, TuiStarts DEF LogEvent, TextEvent, TuiHas
  <2>3. screen \in Seq(Item)
    <3>1. <<>> \in Seq(Token)
      OBVIOUS
    <3> QED
      BY <1>1, <2>2, <3>1, LineTyped
  <2> HIDE DEF screen
  <2> QED
    BY <1>1, <2>1, <2>3 DEF CliState
<1> QED
  BY <1>2, <1>3, <1>4 DEF LogEvent

LEMMA ListenerTyped ==
  ASSUME NEW d \in CliState
  PROVE  /\ \A s \in Seq(ModelEvent) : ListenerAfter(d, s) \in CliState
         /\ \A a, b \in Seq(ModelEvent) :
              ListenerAfter(d, a \o b) = ListenerAfter(ListenerAfter(d, a), b)
         /\ ListenerAfter(d, <<>>) = d
         /\ \A x \in ModelEvent : ListenerAfter(d, <<x>>) = CliModelEvent(d, x)
<1>1. ListenerCloses(CliState, ModelEvent)
  BY ListenerSteps DEF ListenerCloses
<1> QED
  BY <1>1, ListenerAfterFacts

\* The tokens of an attempt are collected.
LEMMA ListenerTakesTokens ==
  ASSUME NEW d \in CliState, NEW tokens \in Seq(Token)
  PROVE  /\ Told("model_token", tokens) \in Seq(ModelEvent)
         /\ ListenerAfter(d, Told("model_token", tokens)) \in CliState
         /\ ListenerAfter(d, Told("model_token", tokens)).buffer = d.buffer \o tokens
<1> DEFINE L(s) == Told("model_token", s)
           S == {s \in Seq(Token) : ListenerAfter(d, L(s)).buffer = d.buffer \o s}
<1>1. d.buffer \in Seq(Token)
  BY CliStateRecord
<1>2. \A s \in Seq(Token) : L(s) \in Seq(ModelEvent) /\ Len(L(s)) = Len(s)
  <2> DEFINE E == [type : {"model_token"}, text : Seq(Token)]
  <2>1. E \subseteq ModelEvent
    BY DEF ModelEvent
  <2>2. \A s \in Seq(Token) : L(s) \in Seq(E) /\ Len(L(s)) = Len(s)
    BY ToldTyped
  <2> HIDE DEF E, L
  <2>3. ASSUME NEW s \in Seq(Token) PROVE L(s) \in Seq(ModelEvent)
    BY <2>1, <2>2
  <2> QED
    BY <2>2, <2>3
<1>3. <<>> \in S
  <2>1. <<>> \in Seq(Token) /\ Len(<<>>) = 0
    OBVIOUS
  <2>2. L(<<>>) = <<>>
    BY <1>2, <2>1, EmptySeq
  <2>3. d.buffer \o <<>> = d.buffer
    BY <1>1
  <2> QED
    BY <2>1, <2>2, <2>3, ListenerTyped
<1>4. ASSUME NEW s \in Seq(Token), NEW t \in Token, s \in S PROVE Append(s, t) \in S
  <2> DEFINE e == TokenEvent("model_token", t)
             b == ListenerAfter(d, L(s))
  <2>1. L(Append(s, t)) = L(s) \o <<e>>
    BY ToldAppend
  <2>2. e \in ModelEvent /\ e.type = "model_token" /\ e.text = <<t>>
    <3>1. e \in [type : {"model_token"}, text : Seq(Token)]
      BY ToldAppend
    <3> QED
      BY <3>1 DEF ModelEvent, TokenEvent
  <2>3. b.buffer = d.buffer \o s
    BY <1>4
  <2>4. L(s) \in Seq(ModelEvent)
    BY <1>2
  <2> HIDE DEF L, e
  <2>5. b \in CliState
    BY <2>4, ListenerTyped
  <2>6. ListenerAfter(d, L(s) \o <<e>>) = ListenerAfter(b, <<e>>)
    <3>1. <<e>> \in Seq(ModelEvent)
      BY <2>2
    <3> QED
      BY <2>4, <3>1, ListenerTyped
  <2> HIDE DEF b, S
  <2>7. ListenerAfter(b, <<e>>) = CliModelEvent(b, e)
    BY <2>2, <2>5, ListenerTyped
  <2>8. CliModelEvent(b, e).buffer = (d.buffer \o s) \o <<t>>
    BY <2>2, <2>3, <2>5, ListenerSteps
  <2>9. (d.buffer \o s) \o <<t>> = d.buffer \o Append(s, t)
    <3>1. AppendsInside(d.buffer, s, t)
      BY <1>1, AppendToConcat
    <3>2. d.buffer \o s \in Seq(Token)
      BY <1>1, ConcatProperties
    <3>3. (d.buffer \o s) \o <<t>> = Append(d.buffer \o s, t)
      BY <3>2
    <3> QED
      BY <3>1, <3>3 DEF AppendsInside
  <2>10. Append(s, t) \in Seq(Token)
    OBVIOUS
  <2> QED
    BY <2>1, <2>6, <2>7, <2>8, <2>9, <2>10 DEF S
<1> HIDE DEF S
<1>5. Seq(Token) \subseteq S
  BY <1>3, <1>4, BuildUp
<1>6. tokens \in S
  BY <1>5
<1>7. L(tokens) \in Seq(ModelEvent)
  BY <1>2
<1> HIDE DEF L
<1>8. ListenerAfter(d, L(tokens)) \in CliState
  BY <1>7, ListenerTyped
<1> QED
  BY <1>6, <1>7, <1>8 DEF S, L

\* Behind an attempt the listener holds its tokens.
LEMMA ListenerTakesAttempt ==
  ASSUME NEW d \in CliState, NEW tokens \in Seq(Token)
  PROVE  /\ ModelLogOf(tokens) \in Seq(ModelEvent)
         /\ ListenerAfter(d, ModelLogOf(tokens)) \in CliState
         /\ ListenerAfter(d, ModelLogOf(tokens)).streamed = tokens
<1> DEFINE l == Told("model_token", tokens)
           first == Typed("model_start")
           last == Typed("model_end")
           a == CliModelEvent(d, first)
           b == ListenerAfter(a, l)
<1>1. /\ first \in ModelEvent /\ first.type = "model_start"
      /\ last \in ModelEvent /\ last.type = "model_end"
  BY DEF ModelEvent, Typed
<1>2. ModelLogOf(tokens) = <<first>> \o l \o <<last>>
  BY DEF ModelLogOf
<1> HIDE DEF first, last
<1>3. a \in CliState /\ a.buffer = <<>>
  BY <1>1, ListenerSteps
<1>4. ListenerAfter(d, <<first>>) = a
  BY <1>1, ListenerTyped
<1> HIDE DEF a
<1>5. l \in Seq(ModelEvent) /\ b \in CliState /\ b.buffer = tokens
  <2>1. l \in Seq(ModelEvent) /\ b \in CliState /\ b.buffer = <<>> \o tokens
    BY <1>3, ListenerTakesTokens
  <2>2. <<>> \o tokens = tokens
    OBVIOUS
  <2> QED
    BY <2>1, <2>2
<1> HIDE DEF l
<1>6. <<first>> \in Seq(ModelEvent) /\ <<last>> \in Seq(ModelEvent)
  BY <1>1
<1>7. <<first>> \o l \in Seq(ModelEvent)
  BY <1>5, <1>6, ConcatProperties
<1>8. ListenerAfter(d, <<first>> \o l) = b
  BY <1>4, <1>5, <1>6, ListenerTyped
<1>9. ListenerAfter(d, (<<first>> \o l) \o <<last>>) = ListenerAfter(b, <<last>>)
  <2> DEFINE s == <<first>> \o l
             t == <<last>>
  <2>1. s \in Seq(ModelEvent) /\ t \in Seq(ModelEvent) /\ ListenerAfter(d, s) = b
    BY <1>6, <1>7, <1>8
  <2> HIDE DEF s, t
  <2>2. ListenerAfter(d, s \o t) = ListenerAfter(ListenerAfter(d, s), t)
    BY <2>1, ListenerTyped
  <2> QED
    BY <2>1, <2>2 DEF s, t
<1>10. <<first>> \o l \o <<last>> \in Seq(ModelEvent)
  BY <1>6, <1>7, ConcatProperties
<1> HIDE DEF b
<1>11. ListenerAfter(b, <<last>>) = CliModelEvent(b, last)
  BY <1>1, <1>5, ListenerTyped
<1>12. CliModelEvent(b, last) \in CliState /\ CliModelEvent(b, last).streamed = tokens
  BY <1>1, <1>5, ListenerSteps
<1> QED
  BY <1>2, <1>9, <1>10, <1>11, <1>12

\* A log that ends with an attempt.
EndsWithAttempt(log, tokens) ==
  log \in Seq(ModelEvent) /\ \E p \in Seq(ModelEvent) : log = p \o ModelLogOf(tokens)

LEMMA ListenerEndsWithAttempt ==
  ASSUME NEW d \in CliState, NEW tokens \in Seq(Token), NEW log, EndsWithAttempt(log, tokens)
  PROVE  ListenerAfter(d, log) \in CliState /\ ListenerAfter(d, log).streamed = tokens
<1>1. PICK p \in Seq(ModelEvent) : log = p \o ModelLogOf(tokens)
  BY DEF EndsWithAttempt
<1> DEFINE b == ListenerAfter(d, p)
           l == ModelLogOf(tokens)
<1>2. b \in CliState
  BY ListenerTyped
<1>3. l \in Seq(ModelEvent)
  BY ListenerTakesAttempt
<1> HIDE DEF l
<1>4. ListenerAfter(d, p \o l) = ListenerAfter(b, l)
  BY <1>3, ListenerTyped
<1> HIDE DEF b
<1>5. ListenerAfter(b, l) \in CliState /\ ListenerAfter(b, l).streamed = tokens
  BY <1>2, ListenerTakesAttempt DEF l
<1> QED
  BY <1>1, <1>4, <1>5 DEF l

\* What the listener heard last.
LastHeard(compacted) == IF compacted THEN <<Foreign(chat + 1)>> ELSE TokensOf(chat, endpoint)

AttemptsLog(c) == [e \in 1..Attempts(c) |-> ModelLogOf(TokensOf(c, e))]

ChatsLog == [c \in 1..chat |-> FlattenSeq(AttemptsLog(c))]

LEMMA TokensOfTyped ==
  ASSUME LogInv
  PROVE  \A c, e : TokensOf(c, e) \in Seq(Token)
<1>1. shown \in Seq(Token)
  BY ShownAndTold
<1>2. ASSUME NEW S PROVE Among(shown, S) \in Seq(Token)
  <2> DEFINE X == Token \cap S
  <2>1. Among(shown, S) \in Seq(X)
    BY <1>1, AmongTyped
  <2>2. X \subseteq Token
    OBVIOUS
  <2> HIDE DEF X
  <2> QED
    BY <2>1, <2>2
<1> QED
  BY <1>2 DEF TokensOf

\* The attempts of a call end with its last one.
LEMMA AttemptsEnd ==
  ASSUME LogInv, phase = "returned", NEW c \in 1..chat
  PROVE  EndsWithAttempt(FlattenSeq(AttemptsLog(c)), TokensOf(c, Attempts(c)))
<1> DEFINE n == Attempts(c)
           q == AttemptsLog(c)
<1>1. n \in Nat /\ n > 0
  BY FinalTextFacts, ChatAssumption DEF Attempts
<1>2. q = [e \in 1..n |-> ModelLogOf(TokensOf(c, e))]
  BY DEF AttemptsLog
<1>3. CliStart \in CliState
  BY DEF CliStart, CliState
<1>4. \A e \in 1..n : ModelLogOf(TokensOf(c, e)) \in Seq(ModelEvent)
  BY <1>3, TokensOfTyped, ListenerTakesAttempt
<1> HIDE DEF n, q
<1>5. q \in Seq(Seq(ModelEvent)) /\ Len(q) = n /\ q[n] = ModelLogOf(TokensOf(c, n))
  <2>1. n \in 1..n
    BY <1>1
  <2> QED
    BY <1>1, <1>2, <1>4, <2>1, IsASeq
<1>6. /\ FlattenSeq(q) \in Seq(ModelEvent)
      /\ \E p \in Seq(ModelEvent) : FlattenSeq(q) = p \o q[Len(q)]
  BY <1>1, <1>5, FlattenEnds
<1> QED
  BY <1>5, <1>6 DEF EndsWithAttempt, n, q

\* The calls end with the last attempt of the last one.
LEMMA ChatsEnd ==
  ASSUME LogInv, phase = "returned"
  PROVE  EndsWithAttempt(FlattenSeq(ChatsLog), TokensOf(chat, endpoint))
<1> DEFINE l(c) == FlattenSeq(AttemptsLog(c))
           q == ChatsLog
           tokens == TokensOf(chat, endpoint)
<1>1. chat \in Nat /\ chat > 0 /\ chat \in 1..chat
  BY FinalTextFacts
<1>2. EndsWithAttempt(l(chat), tokens) /\ \A c \in 1..chat : l(c) \in Seq(ModelEvent)
  <2>1. \A c \in 1..chat : EndsWithAttempt(l(c), TokensOf(c, Attempts(c)))
    BY AttemptsEnd
  <2>2. Attempts(chat) = endpoint
    BY DEF Attempts
  <2> QED
    BY <1>1, <2>1, <2>2 DEF EndsWithAttempt
<1>3. q = [c \in 1..chat |-> l(c)]
  BY DEF ChatsLog
<1> HIDE DEF l, q
<1>4. q \in Seq(Seq(ModelEvent)) /\ Len(q) = chat /\ q[chat] = l(chat)
  BY <1>1, <1>2, <1>3, IsASeq
<1>5. FlattenSeq(q) \in Seq(ModelEvent)
  BY <1>1, <1>4, FlattenEnds
<1>6. PICK p \in Seq(ModelEvent) : FlattenSeq(q) = p \o l(chat)
  <2>1. \E p \in Seq(ModelEvent) : FlattenSeq(q) = p \o q[Len(q)]
    BY <1>1, <1>4, FlattenEnds
  <2> QED
    BY <1>4, <2>1
<1>7. PICK r \in Seq(ModelEvent) : l(chat) = r \o ModelLogOf(tokens)
  BY <1>2 DEF EndsWithAttempt
<1>8. p \o (r \o ModelLogOf(tokens)) = (p \o r) \o ModelLogOf(tokens) /\ p \o r \in Seq(ModelEvent)
  <2>1. CliStart \in CliState
    BY DEF CliStart, CliState
  <2>2. ModelLogOf(tokens) \in Seq(ModelEvent)
    BY <2>1, TokensOfTyped, ListenerTakesAttempt
  <2> QED
    BY <2>2, ConcatOfThree
<1> QED
  BY <1>5, <1>6, <1>7, <1>8 DEF EndsWithAttempt, q

\* In the end the listener holds the last attempt, or the summary.
LEMMA ListenerEnds ==
  ASSUME LogInv, phase = "returned", NEW compacted \in BOOLEAN
  PROVE  /\ ListenerAfter(CliStart, ModelLog(compacted)) \in CliState
         /\ ListenerAfter(CliStart, ModelLog(compacted)).streamed = LastHeard(compacted)
<1> DEFINE log == FlattenSeq(ChatsLog)
<1>1. CliStart \in CliState
  BY DEF CliStart, CliState
<1>2. EndsWithAttempt(log, TokensOf(chat, endpoint)) /\ TokensOf(chat, endpoint) \in Seq(Token)
  BY ChatsEnd, TokensOfTyped
<1>3. ModelLog(compacted) = log \o (IF compacted THEN ModelLogOf(<<Foreign(chat + 1)>>) ELSE <<>>)
  BY Zenon DEF ModelLog, ChatsLog, AttemptsLog
<1> HIDE DEF log
<1>4. log \in Seq(ModelEvent)
  BY <1>2 DEF EndsWithAttempt
<1>5. CASE compacted
  <2> DEFINE last == <<Foreign(chat + 1)>>
  <2>1. last \in Seq(Token)
    <3>1. chat + 1 \in Nat
      BY FinalTextFacts
    <3> QED
      BY <3>1 DEF Foreign, Token, Response, Modes
  <2>2. ModelLog(compacted) = log \o ModelLogOf(last) /\ LastHeard(compacted) = last
    BY <1>3, <1>5 DEF LastHeard
  <2> HIDE DEF last
  <2>3. ModelLogOf(last) \in Seq(ModelEvent)
    BY <1>1, <2>1, ListenerTakesAttempt
  <2>4. log \o ModelLogOf(last) \in Seq(ModelEvent)
    BY <1>4, <2>3, ConcatProperties
  <2>5. EndsWithAttempt(log \o ModelLogOf(last), last)
    BY <1>4, <2>4 DEF EndsWithAttempt
  <2> QED
    BY <1>1, <2>1, <2>2, <2>5, ListenerEndsWithAttempt
<1>6. CASE ~compacted
  <2>1. log \o <<>> = log
    BY <1>4
  <2>2. ModelLog(compacted) = log /\ LastHeard(compacted) = TokensOf(chat, endpoint)
    BY <1>3, <1>6, <2>1 DEF LastHeard
  <2> QED
    BY <1>1, <1>2, <2>2, ListenerEndsWithAttempt
<1> QED
  BY <1>5, <1>6

\* The events before run_completed.
OpenEvent == [type : {"final_delta"}, text : Seq(Token)] \cup Activity

LEMMA CallsLogBefore ==
  ASSUME LogInv, phase = "returned", NEW compacted \in BOOLEAN
  PROVE  /\ OpenEvent \subseteq LogEvent
         /\ FlattenSeq(CallsLog) \o Compacted(compacted) \in Seq(OpenEvent)
<1> DEFINE E == [type : {"final_delta"}, text : Seq(Token)]
           q == CallsLog
           t == Compacted(compacted)
           l(c) == Told("final_delta", TokensOfCall(c))
           e(c) == EventsOfStep(c - 1)
<1>1. /\ E \subseteq OpenEvent /\ Event \subseteq OpenEvent /\ Compaction \subseteq OpenEvent
      /\ OpenEvent \subseteq LogEvent
  BY DEF OpenEvent, LogEvent, TextEvent, Activity
<1>2. chat \in Nat /\ chat > 0
  BY FinalTextFacts
<1>3. \A c \in 1..chat : l(c) \in Seq(E) /\ e(c) \in Seq(Event)
  BY TokensByCall, EventsByStep, ToldTyped
<1>4. q = [c \in 1..chat |-> l(c) \o e(c)]
  BY DEF CallsLog
<1>5. t \in Seq(Compaction)
  BY TailTyped
<1> HIDE DEF E, q, t, l, e
<1>6. ASSUME NEW c \in 1..chat PROVE l(c) \o e(c) \in Seq(OpenEvent)
  <2>1. l(c) \in Seq(OpenEvent) /\ e(c) \in Seq(OpenEvent)
    BY <1>1, <1>3
  <2> QED
    BY <2>1, ConcatProperties
<1>7. q \in Seq(Seq(OpenEvent)) /\ Len(q) = chat
  BY <1>2, <1>4, <1>6, IsASeq
<1>8. FlattenSeq(q) \in Seq(OpenEvent)
  BY <1>2, <1>7, FlattenEnds
<1>9. t \in Seq(OpenEvent)
  BY <1>1, <1>5
<1>10. FlattenSeq(q) \o t \in Seq(OpenEvent)
  BY <1>8, <1>9, ConcatProperties
<1> QED
  BY <1>1, <1>10 DEF q, t

\* The CLI when the run is completed: it still holds what its listener heard last.
LEMMA CliBeforeEnd ==
  ASSUME LogInv, phase = "returned", NEW compacted \in BOOLEAN, NEW live \in BOOLEAN
  PROVE  \E d \in CliState : /\ d.streamed = IF live THEN LastHeard(compacted) ELSE <<>>
                             /\ Cli(live, compacted) = CliHandle(d, Completion)
<1> DEFINE base == IF live THEN ListenerAfter(CliStart, ModelLog(compacted)) ELSE CliStart
           s == FlattenSeq(CallsLog) \o Compacted(compacted)
           v == base.streamed
           D == {d \in CliState : d.streamed = v}
           b == CliAfter(base, s)
<1>1. base \in CliState /\ v = IF live THEN LastHeard(compacted) ELSE <<>>
  <2>1. CliStart \in CliState /\ CliStart.streamed = <<>>
    BY DEF CliStart, CliState
  <2> QED
    BY <2>1, ListenerEnds
<1>2. OpenEvent \subseteq LogEvent /\ s \in Seq(OpenEvent)
  BY CallsLogBefore
<1>3. Completion \in LogEvent
  BY TailTyped
<1>4. EventLog(compacted) = s \o <<Completion>>
  BY EventLogParts
<1>5. Cli(live, compacted) = CliAfter(base, EventLog(compacted))
  BY Zenon DEF Cli, CliAfter, ListenerAfter
<1> HIDE DEF base, s
<1>6. CliCloses(D, OpenEvent)
  <2>1. \A e \in OpenEvent : e.type # "run_completed"
    BY DEF OpenEvent, Activity, Event, Compaction
  <2> QED
    BY <1>2, <2>1, CliSteps DEF CliCloses
<1>7. base \in D
  BY <1>1
<1> HIDE DEF D
<1>8. b \in D
  BY <1>2, <1>6, <1>7, CliAfterFacts
<1>9. b \in CliState /\ b.streamed = v
  BY <1>8 DEF D
<1>10. CliCloses(CliState, LogEvent)
  BY CliSteps DEF CliCloses
<1>11. CliAfter(base, s \o <<Completion>>) = CliAfter(b, <<Completion>>)
  <2> DEFINE l == <<Completion>>
  <2>1. s \in Seq(LogEvent) /\ l \in Seq(LogEvent)
    BY <1>2, <1>3
  <2> HIDE DEF l, b, v
  <2>2. base \in CliState
    BY <1>1
  <2>3. \A x, y \in Seq(LogEvent) : CliAfter(base, x \o y) = CliAfter(CliAfter(base, x), y)
    BY <1>10, <2>2, CliAfterFacts
  <2> QED
    BY <2>1, <2>3 DEF l, b
<1> HIDE DEF b
<1>12. CliAfter(b, <<Completion>>) = CliHandle(b, Completion)
  BY <1>3, <1>9, <1>10, CliAfterFacts
<1> QED
  BY <1>1, <1>4, <1>5, <1>9, <1>11, <1>12

\* What the last endpoint showed is what was shown last; it is the answer when the answer is.
LEMMA LastShown ==
  ASSUME LogInv, phase = "returned"
  PROVE  /\ IsSuffix(TokensOf(chat, endpoint), shown)
         /\ IsSuffix(FinalText, shown) => TokensOf(chat, endpoint) = FinalText
<1> DEFINE B == [of : [chat : {chat}, endpoint : {endpoint}, mode : Modes], part : Nat]
           A == Token \ B
           n == Len(shown)
<1>1. /\ shown \in Seq(Token) /\ n \in Nat /\ chat \in Nat
      /\ \A k \in 1..n : /\ shown[k] \in Token /\ shown[k].of.chat \in 1..chat
                         /\ shown[k].of.endpoint \in Nat
      /\ \A j, k \in 1..n : j < k => shown[j].of.chat <= shown[k].of.chat
  BY ShownAndTold
<1>2. endpoint \in Nat
  BY FinalTextFacts
<1>3. \A t \in Token : t \in B <=> t.of.chat = chat /\ t.of.endpoint = endpoint
  BY DEF Token, Response
<1>4. TokensOf(chat, endpoint) = Among(shown, B)
  BY DEF TokensOf
<1> HIDE DEF B
<1>5. DOMAIN shown = 1..n
  BY <1>1
<1>6. IsSuffix(Among(shown, B), shown)
  <2>1. ASSUME NEW i \in 1..n, NEW j \in 1..n, i < j, shown[i] \in B PROVE shown[j] \notin A
    <3>1. shown[i].of.chat = chat /\ shown[i].of.endpoint = endpoint
      BY <1>1, <1>3, <2>1
    <3>2. shown[j].of.chat = chat
      BY <1>1, <2>1, <3>1
    <3>3. shown[i].of.endpoint <= shown[j].of.endpoint
      BY <1>5, <2>1, <3>1, <3>2 DEF LogInv, ShownOrder
    <3>4. shown[j].of.endpoint <= endpoint
      BY <1>5, <3>2 DEF LogInv, AnswerInv, ShownInv, ShownBefore
    <3> QED
      BY <1>1, <1>2, <1>3, <3>1, <3>2, <3>3, <3>4
  <2>2. A \cap B = {} /\ \A k \in 1..n : shown[k] \in A \cup B
    BY <1>1
  <2> HIDE DEF A
  <2>3. Among(shown, A \cup B) = Among(shown, A) \o Among(shown, B)
    BY <1>1, <2>1, <2>2, AmongOrdered
  <2>4. Among(shown, A \cup B) = shown
    BY <1>1, <2>2, AmongAll
  <2>5. Among(shown, A) \in Seq(Token \cap A) /\ Among(shown, B) \in Seq(Token \cap B)
    BY <1>1, AmongTyped
  <2>6. Among(shown, A) \in Seq(Token) /\ Among(shown, B) \in Seq(Token)
    <3> DEFINE a == Token \cap A
               b == Token \cap B
    <3>1. a \subseteq Token /\ b \subseteq Token
      OBVIOUS
    <3> HIDE DEF a, b
    <3> QED
      BY <2>5, <3>1 DEF a, b
  <2> QED
    BY <2>3, <2>4, <2>6, SuffixOfConcat
<1>7. ASSUME IsSuffix(FinalText, shown) PROVE Among(shown, B) = FinalText
  <2>1. FinalText \in Seq(Token) /\ Len(FinalText) \in Nat /\ Len(FinalText) > 0
    BY FinalTextFacts
  <2>2. PICK p \in Seq(Token) : /\ shown = p \o FinalText
                                /\ n = Len(p) + Len(FinalText)
                                /\ \A k \in 1 .. Len(p) : p[k] = shown[k]
                                /\ \A k \in 1 .. Len(FinalText) : shown[Len(p) + k] = FinalText[k]
    BY <1>1, <1>7, <2>1, ConcatOfSuffix
  <2> DEFINE m == Len(p)
  <2>3. /\ m \in Nat /\ m + 1 \in 1..n /\ 1 \in 1..Len(FinalText)
        /\ \A k \in 1..m : k \in 1..n /\ k < m + 1
    BY <1>1, <2>1, <2>2
  <2>4. shown[m + 1] = FinalText[1]
    BY <2>2, <2>3
  <2>5. FinalText[1].of.chat # 0
    BY <1>1, <2>3, <2>4
  <2>6. /\ FinalText[1].part = 1
        /\ \A k \in 1..Len(FinalText) :
             FinalText[k].of.chat = chat /\ FinalText[k].of.endpoint = endpoint
    BY <2>5, FinalTextFacts
  <2>7. \A k \in 1..Len(FinalText) : FinalText[k] \in B
    BY <1>3, <2>1, <2>6
  <2>8. ASSUME NEW k \in 1..m PROVE p[k] \notin B
    <3>1. Earlier(shown[k], chat, endpoint)
      BY <1>5, <2>3, <2>4, <2>6 DEF LogInv, ShownOrder
    <3>2. shown[k] \notin B
      BY <1>1, <1>2, <1>3, <2>3, <3>1 DEF Earlier
    <3> QED
      BY <2>2, <3>2
  <2>9. Among(p \o FinalText, B) = Among(p, B) \o Among(FinalText, B)
    BY <2>1, AmongConcat
  <2>10. Among(p, B) = <<>>
    BY <2>8, AmongNone
  <2>11. Among(FinalText, B) = FinalText
    BY <2>1, <2>7, AmongAll
  <2>12. <<>> \o FinalText = FinalText
    BY <2>1
  <2> QED
    BY <2>2, <2>9, <2>10, <2>11, <2>12
<1> QED
  BY <1>4, <1>6, <1>7

\* The CLI's part of TerminalsShowAnswer.
LEMMA CliIsRight ==
  ASSUME LogInv, phase = "returned", NEW compacted \in BOOLEAN, NEW live \in BOOLEAN
  PROVE  CliShowsAnswer(live, compacted)
<1> DEFINE above == [line |-> "streamed live above"]
           label == [line |-> "Final"]
           cli == Cli(live, compacted)
           n == Len(FinalText)
<1>1. PICK d \in CliState : /\ d.streamed = IF live THEN LastHeard(compacted) ELSE <<>>
                            /\ Cli(live, compacted) = CliHandle(d, Completion)
  BY CliBeforeEnd
<1>2. /\ Completion \in LogEvent /\ Completion \in TextEvent
      /\ Completion.type = "run_completed" /\ Completion.text = FinalText
  BY TailTyped
<1>3. /\ FinalText \in Seq(Token) /\ n \in Nat /\ n > 0 /\ chat \in Nat
      /\ FinalText # <<>> /\ FinalText[1].of.chat \in {0, chat}
  <2>1. 1 \in 1..Len(FinalText)
    BY FinalTextFacts
  <2> QED
    BY <2>1, FinalTextFacts
<1>4. d.screen \in Seq(Item) /\ d.streamed \in Seq(Token)
  BY CliStateRecord
<1>5. cli.screen = IF d.streamed # <<>> /\ d.streamed = FinalText
                   THEN Append(d.screen, above)
                   ELSE d.screen \o <<label>> \o FinalText
  BY <1>1, <1>2, CliSteps
<1>6. above \in ScreenLine /\ label \in ScreenLine
  BY DEF ScreenLine
<1> HIDE DEF above, label, cli
<1>7. above \in Item /\ label \in Item /\ above \notin Token
  BY <1>6, LinesAreNoText DEF Item, TextItem
<1>8. <<Foreign(chat + 1)>> # FinalText
  <2>1. Foreign(chat + 1).of.chat = chat + 1
    BY DEF Foreign
  <2>2. <<Foreign(chat + 1)>>[1] = Foreign(chat + 1)
    OBVIOUS
  <2>3. chat + 1 # 0 /\ chat + 1 # chat
    BY <1>3
  <2> QED
    BY <1>3, <2>1, <2>2, <2>3
<1>9. CASE d.streamed = FinalText
  <2>1. cli.screen = Append(d.screen, above)
    BY <1>3, <1>5, <1>9
  <2>2. Last(cli.screen) = above
    <3>1. /\ Len(d.screen) \in Nat
          /\ Len(Append(d.screen, above)) = Len(d.screen) + 1
          /\ Append(d.screen, above)[Len(d.screen) + 1] = above
      BY <1>4, <1>7, AppendProperties
    <3> QED
      BY <2>1, <3>1 DEF Last
  <2>3. live /\ TokensOf(chat, endpoint) = FinalText
    BY <1>1, <1>3, <1>8, <1>9 DEF LastHeard
  <2>4. IsSuffix(FinalText, shown)
    BY <2>3, LastShown
  <2> QED
    BY <2>2, <2>3, <2>4 DEF CliShowsAnswer, cli, above
<1>10. CASE d.streamed # FinalText
  <2> DEFINE p == d.screen \o <<label>>
  <2>1. cli.screen = p \o FinalText
    BY <1>5, <1>10
  <2>2. p \in Seq(Item) /\ FinalText \in Seq(Item)
    <3>1. <<label>> \in Seq(Item)
      BY <1>7
    <3>2. FinalText \in Seq(Item)
      BY <1>3 DEF Item, TextItem
    <3> QED
      BY <1>4, <3>1, <3>2, ConcatProperties
  <2> HIDE DEF p
  <2>3. IsSuffix(FinalText, cli.screen)
    BY <2>1, <2>2, SuffixOfConcat
  <2>4. Last(cli.screen) # above
    <3>1. /\ Len(p) \in Nat /\ Len(p \o FinalText) = Len(p) + n
          /\ \A k \in 1..n : (p \o FinalText)[Len(p) + k] = FinalText[k]
      BY <1>3, <2>2, ConcatProperties
    <3>2. n \in 1..n /\ FinalText[n] \in Token
      BY <1>3
    <3>3. Last(cli.screen) = FinalText[n]
      BY <2>1, <3>1, <3>2 DEF Last
    <3> QED
      BY <1>7, <3>2, <3>3
  <2>5. ~(live /\ ~compacted /\ IsSuffix(FinalText, shown))
    BY <1>1, <1>10, LastShown DEF LastHeard
  <2> QED
    BY <2>3, <2>4, <2>5 DEF CliShowsAnswer, cli, above
<1> QED
  BY <1>9, <1>10

\* What both terminals show of a streamed run's answer, for any number of endpoints, steps,
\* calls and chunks: the TUI's transcript has it, its screen has it when no token was shown and
\* else exactly the tokens shown; the CLI prints it, or says that it is above when what its
\* listener heard last is the answer (tui.py 424-447, cli.py 196-281).
THEOREM TerminalsShow == Spec => []TerminalsShowAnswer
<1>1. Init => LogInv
  BY InitLog
<1>2. LogInv /\ [Next]_vars => LogInv'
  BY StepKeepsLog
<1>3. LogInv => TerminalsShowAnswer
  BY TuiIsRight, CliIsRight DEF TerminalsShowAnswer
<1> QED
  BY <1>1, <1>2, <1>3, PTL DEF Spec
=============================================================================
