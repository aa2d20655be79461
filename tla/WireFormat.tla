----------------------------- MODULE WireFormat -----------------------------
(***************************************************************************)
(* What AgentLoop sends in the two wire formats                            *)
(* (providers/clients/native.py): the messages AgentService gives the run, *)
(* recent turns and the user's message, with the run's own behind them.    *)
(* OpenAI takes them one for one, Anthropic takes tool results as blocks   *)
(* of one user message.                                                    *)
(***************************************************************************)
EXTENDS AgentLoop

CONSTANT MaxRecent  \* bound: recent turns that a run is given

ASSUME RecentAssumption == MaxRecent \in Nat

\* _session_to_messages and the user's message: the recent turns are the last n of a
\* history of whole exchanges, so the roles alternate and the first may be the
\* assistant's. No turn has an empty text.
Given(n) == [i \in 1 .. n + 1 |-> IF (n + 1 - i) % 2 = 0 THEN [role |-> "user"]
                                  ELSE [role |-> "assistant", step |-> 0, calls |-> <<>>]]

\* list(messages) with what run has appended.
Sent(n) == Given(n) \o messages

\* The ids of the tool calls of an assistant message.
CallsOf(m) == [p \in DOMAIN m.calls |-> [step |-> m.step, pos |-> p, tool |-> m.calls[p]]]

ToOpenAI(m) ==
  CASE m.role = "assistant" -> [role |-> "assistant", calls |-> CallsOf(m)]
    [] m.role = "tool"      -> [role |-> "tool", call |-> m.call]
    [] m.role = "user"      -> m

\* _to_openai_messages: tool calls are rewritten, everything else passes.
OpenAIMessages(sent) == [i \in DOMAIN sent |-> ToOpenAI(sent[i])]

\* _flush_tool_results
Flushed(acc) ==
  IF acc.pending = <<>> THEN acc
  ELSE [result |-> Append(acc.result, [role |-> "user", results |-> acc.pending]),
        pending |-> <<>>]

ToAnthropic(acc, m) ==
  CASE m.role = "tool" -> [acc EXCEPT !.pending = Append(@, m.call)]
    [] m.role = "user" ->
         [Flushed(acc) EXCEPT !.result = Append(@, [role |-> "user", results |-> <<>>])]
    [] m.role = "assistant" ->
         [Flushed(acc) EXCEPT !.result = Append(@, [role |-> "assistant", uses |-> CallsOf(m)])]

NoMessages == [result |-> <<>>, pending |-> <<>>]

\* Faulty: the results behind the last assistant message are not flushed.
UnflushedMessages(sent) == FoldLeft(ToAnthropic, NoMessages, sent).result

\* _to_anthropic_messages
AnthropicMessages(sent) == Flushed(FoldLeft(ToAnthropic, NoMessages, sent)).result

\* Anthropic's protocol: the message behind an assistant's is the user's with the results
\* of all its calls and no other, the one behind a user's is an assistant's.
Follows(m, next_m) ==
  IF m.role = "assistant" THEN next_m = [role |-> "user", results |-> m.uses]
  ELSE next_m.role = "assistant"

\* Every request is one its provider accepts, whichever endpoint of the profile it goes
\* to and however many recent turns stand before the user's message: OpenAI wants each
\* call answered by a tool message behind it, Anthropic all calls of a message in the
\* next user message, with no other result, roles alternating and the user's turn last
\* (native.py 568-667), after replies whose calls were denied, unknown or executed.
\* The first message is the user's only if the recent turns are whole exchanges.
RequestsAccepted ==
  phase = "chat" =>
    \A n \in 0 .. MaxRecent :
      LET openai == OpenAIMessages(Sent(n))
          anthropic == AnthropicMessages(Sent(n))
      IN  /\ \A i \in DOMAIN openai : openai[i].role = "assistant" =>
               \A p \in DOMAIN openai[i].calls : \E j \in i + 1 .. Len(openai) :
                 /\ openai[j] = [role |-> "tool", call |-> openai[i].calls[p]]
                 /\ \A k \in i + 1 .. j : openai[k].role = "tool"
          /\ \A i \in 1 .. Len(anthropic) - 1 : Follows(anthropic[i], anthropic[i + 1])
          /\ anthropic[1].role = "user" <=> n % 2 = 0
          /\ anthropic[Len(anthropic)].role = "user"
=============================================================================
