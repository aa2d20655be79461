------------------------------ MODULE Terminals ------------------------------
(***************************************************************************)
(* What the two terminal front ends make of a streamed run: app/tui.py     *)
(* shows the RuntimeEvents of stream_event, app/cli.py shows them and,     *)
(* when live, what the provider manager tells its listener.                *)
(*                                                                         *)
(* Both are sequential consumers of logs that AgentLoop's history already  *)
(* holds, so they are folds over them.  StreamBridge shows that the events *)
(* arrive in this order.  A text is the sequence of its tokens.            *)
(***************************************************************************)
EXTENDS AgentLoop

\* The elements of s that are in S, in their order.
Among(s, S) == FoldLeft(LAMBDA kept, x : IF x \in S THEN Append(kept, x) ELSE kept, <<>>, s)

\* A token of no chat of the loop.
Foreign(chatNumber) == [of |-> [chat |-> chatNumber, endpoint |-> 1, mode |-> "plain"], part |-> 1]

\* _FALLBACK_TEXT: a text that no model wrote.
Unable == <<Foreign(0)>>

FinalText == IF final.kind = "answer" THEN Whole(final) ELSE Unable

Typed(type) == [type |-> type]

TokenEvent(type, token) == [type |-> type, text |-> <<token>>]

TokensOf(c, e) ==
  Among(shown, [of : [chat : {c}, endpoint : {e}, mode : Modes], part : Nat])

TokensOfCall(c) == Among(shown, [of : [chat : {c}, endpoint : Nat, mode : Modes], part : Nat])

EventsOfStep(n) ==
  Among(events, [type : {"tool_call", "tool_result"},
                 call : [step : {n}, pos : Nat \ {0}, tool : Tools]])

Told(type, tokens) == [k \in DOMAIN tokens |-> TokenEvent(type, tokens[k])]

\* The attempts of a call; one that gave no token leaves no trace in what follows.
Attempts(c) == IF c = chat THEN endpoint ELSE Len(Client)

\* stream_event: the tokens of call c, the events of its step's tools, and in the end what
\* the runner puts.
EventLog(compacted) ==
  FlattenSeq([c \in 1 .. chat |->
    Told("final_delta", TokensOfCall(c)) \o EventsOfStep(c - 1)])
  \o (IF compacted THEN <<Typed("memory_compacted")>> ELSE <<>>)
  \o <<[type |-> "run_completed", text |-> FinalText]>>

ModelLogOf(tokens) ==
  <<Typed("model_start")>> \o Told("model_token", tokens) \o <<Typed("model_end")>>

\* The listener's events: every attempt, then the summary, which is asked for before
\* run_completed is put (service.py 239-259).
ModelLog(compacted) ==
  FlattenSeq([c \in 1 .. chat |->
    FlattenSeq([e \in 1 .. Attempts(c) |-> ModelLogOf(TokensOf(c, e))])])
  \o (IF compacted THEN ModelLogOf(<<Foreign(chat + 1)>>) ELSE <<>>)
-----------------------------------------------------------------------------
(* The TUI *)

Mark == [mark |-> TRUE]

Line(e) == [line |-> e.type]

\* open is final_stream_open; the rest of the first row is the transcript's.
TuiStart ==
  [thinking |-> TRUE, activities |-> <<>>, text |-> <<>>,
   open |-> FALSE, screen |-> <<Line(Typed("thinking"))>>]

\* tool_call, tool_result, memory_compacted: one line each.
TuiActivity(tui, e) ==
  [tui EXCEPT !.thinking = FALSE, !.activities = Append(@, e), !.screen = Append(@, Line(e))]

\* The final line is opened by the first token and never closed before the end.
TuiToken(tui, e) ==
  [tui EXCEPT !.thinking = FALSE, !.text = @ \o e.text, !.open = TRUE,
              !.screen = IF tui.open THEN @ \o e.text ELSE @ \o <<Mark>> \o e.text]

\* A final line that was opened is taken to hold the answer.
TuiCompleted(tui, e) ==
  [tui EXCEPT !.thinking = FALSE, !.text = e.text,
              !.screen = IF tui.open THEN @ ELSE @ \o <<Mark>> \o e.text]

TuiHandle(tui, e) ==
  CASE e.type = "final_delta" -> TuiToken(tui, e)
    [] e.type = "run_completed" -> TuiCompleted(tui, e)
    [] OTHER -> TuiActivity(tui, e)

Tui(compacted) == FoldLeft(TuiHandle, TuiStart, EventLog(compacted))
-----------------------------------------------------------------------------
(* The CLI *)

\* buffer and streamed are _active_stream_buffer and _last_streamed_text.
CliStart == [buffer |-> <<>>, streamed |-> <<>>, lineOpen |-> FALSE, screen |-> <<>>]

\* _on_model_event while live; model_error is treated as model_end.
CliModelEvent(cli, e) ==
  CASE e.type = "model_start" -> [cli EXCEPT !.buffer = <<>>]
    [] e.type = "model_token" ->
         [cli EXCEPT !.buffer = @ \o e.text, !.lineOpen = TRUE,
                     !.screen = IF cli.lineOpen THEN @ \o e.text
                                ELSE @ \o <<[line |-> "Final (live)"]>> \o e.text]
    [] e.type = "model_end" ->
         [cli EXCEPT !.streamed = cli.buffer, !.buffer = <<>>, !.lineOpen = FALSE]

\* Faulty: whatever was streamed last is taken for the answer.
CliCompletedTrusting(cli, text) ==
  [cli EXCEPT !.streamed = <<>>, !.lineOpen = FALSE,
              !.screen = IF cli.streamed # <<>>
                         THEN Append(@, [line |-> "streamed live above"])
                         ELSE @ \o <<[line |-> "Final"]>> \o text]

CliCompleted(cli, text) ==
  [cli EXCEPT !.streamed = <<>>, !.lineOpen = FALSE,
              !.screen = IF cli.streamed # <<>> /\ cli.streamed = text
                         THEN Append(@, [line |-> "streamed live above"])
                         ELSE @ \o <<[line |-> "Final"]>> \o text]

\* _render_runtime_event; tokens reach the screen by the listener only.
CliHandle(cli, e) ==
  CASE e.type = "final_delta" -> cli
    [] e.type = "run_completed" -> CliCompleted(cli, e.text)
    [] OTHER -> [cli EXCEPT !.screen = Append(@, Line(e))]

\* The listener prints from the run's thread, the events come by the queue: their lines
\* mix on the screen, but run_completed is behind every listener event.
Cli(live, compacted) ==
  FoldLeft(CliHandle,
           IF live THEN FoldLeft(CliModelEvent, CliStart, ModelLog(compacted)) ELSE CliStart,
           EventLog(compacted))
-----------------------------------------------------------------------------
(* Properties *)

\* The text on the screen, with its mark, without the activity lines.
Text(screen) == Among(screen, Token \cup {Mark})

TuiShowsAnswer(compacted) ==
  LET tui == Tui(compacted)
      told == Among(tui.activities, Event)
  IN  /\ tui.text = FinalText /\ ~tui.thinking
      /\ told = events
      /\ Text(tui.screen) = <<Mark>> \o (IF shown = <<>> THEN FinalText ELSE shown)

CliShowsAnswer(live, compacted) ==
  LET cli == Cli(live, compacted)
      claimed == Last(cli.screen) = [line |-> "streamed live above"]
  IN  IF claimed
      THEN live /\ IsSuffix(FinalText, shown)
      ELSE /\ IsSuffix(FinalText, cli.screen)
           /\ ~(live /\ ~compacted /\ IsSuffix(FinalText, shown))

\* What both terminals show of a streamed run's answer.  The CLI prints it, or says that it is
\* above when it is, and then only once unless a summary was streamed in between.  The TUI's
\* transcript always has it; its screen has one marked text, the answer if no token was
\* shown and else the tokens of every attempt and nothing behind them: an answer that came
\* whole after the tokens of a broken attempt is not on the screen (tui.py 424-447,
\* cli.py 196-281).
TerminalsShowAnswer ==
  phase = "returned" /\ Streaming =>
    \A compacted \in BOOLEAN :
      TuiShowsAnswer(compacted) /\ \A live \in BOOLEAN : CliShowsAnswer(live, compacted)
=============================================================================
