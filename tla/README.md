# TLA+ verification of TeamBot

TeamBot answers messages that arrive over chat webhooks, a CLI or a TUI with a
tool-calling language model, and keeps conversations in SQLite. This directory
holds TLA+ modules of its core logic, TLC configurations that check them on small
instances, and TLAPS proofs of the properties that matter most. Paths below are
relative to `src/teambot/` of the repository unless they start with `docs/` or
`tests/`.

Run a check with `tlc -config Gateway.cfg MCGateway` (the table of runs names the
pairs), a proof with `tlapm SessionServiceProofs.tla`.

## 1. The system

### Components

| Component | State it keeps | Operations | Hard behaviour | Modules |
|---|---|---|---|---|
| Gateway (`gateway/`, `channels/`, the routes of `app/main.py`) | none of its own; replies live in `processed_events` | route, parse, normalise, dispatch, answer | batches that fail half way, webhooks that are sent again, payloads without an id, a runtime and an adapter that disagree on one payload | `ChannelInput`, `Gateway` |
| Session service (`agent/service.py`) | locals of each request's coroutine | `process_event`, `stream_event`, `reload_runtime` | processes and streams that interleave, crashes between two commits | `SessionService`, `StreamBridge`, `ReplyLedger`, `EventStream` |
| Session store (`domain/store/memory_store.py`) | tables `conversations`, `conversation_turns`, `conversation_state`, `processed_events`; one connection per process | upsert, append and trim, summary, processed events | transactions left open by a failed statement, pinned snapshots, one write lock; migrations that overlap, die half way or meet old rows | `SessionStore`, `SessionService`, `StoreSchema` |
| Session memory (`memory/`) | none; decides over rows | context, recent window, compaction, rolling summary | an append that overtakes compaction, a summary that fails | `SessionStore`, `SessionService` |
| Agent loop (`agent/loop.py`) | transcript, step, tool calls of one run | ask the model, gate, execute, answer | replies with many calls, some denied, unknown or failing | `AgentLoop` |
| Provider manager and clients (`providers/manager.py`, `providers/clients/native.py`) | cached clients; the stream being read | chat and single requests with fail-over; stream with fall-back; conversion of transcripts; removal of thoughts | streams that break after tokens were shown, or whose pieces end inside a tag; replies that are mistaken for missing keywords | `ProviderChat`, `WireFormat`, `ProviderRequest`, `ThinkTags` |
| Provider configuration (`providers/config.py`, `providers/registry.py`) | profile bindings | read five sources, resolve names | sources that bind one profile under two names and see different models | `ProviderConfig` |
| ReAct runtime (`agent/runtime.py`, `graph.py`, `reason.py`, `execution.py`, `policy.py`) | the action surface; `AgentState` of a run | reload, invoke: reason, act, observe, compose | reloads that raise, budgets, names that change their meaning | `ReactGraph` |
| Actions, tools, MCP (`actions/`, `mcp/`) | `ToolRegistry`, `PluginHost` | register, rename, bind, activate, invoke | namesakes among built-in, MCP and event-handler actions | `ActionSurface` |
| Skills (`skills/`) | `_skills`, `_discovered` | discover, list, enable, disable | packages that change, break or are disabled | `SkillRegistry` |
| Todo list (`todo/`) | `todo.md` | write, read | two writers, a writer that dies | `TodoFile` |
| Front ends (`app/tui.py`, `app/cli.py`) | the screen, the transcript, what was streamed | render events, render the listener's tokens, commands | tokens of several attempts, steps and summaries before one answer | `Terminals` |
| Configuration (`runtime_config.py`, `runtime_paths.py`) | none | parsing | none | not modelled |

### How they interact

A webhook reaches `GatewayManager`, which normalises its payload to envelopes and
calls `AgentService.process_event` for each, one after the other. The CLI and the
TUI call `stream_event`. Both look the event id up in `processed_events`, load the
context, run `TeamBotRuntime.run_loop`, append the exchange, compact, and record
the reply. `run_loop` hands over to `AgentLoop.run`, which asks
`ProviderManager.invoke_profile_chat` and invokes the handlers of `ToolRegistry`.

Server, CLI, TUI and every uvicorn worker are processes of their own that share
one SQLite file, and one working directory with its `todo.md`. In one process
there is one event loop. `process_event` never gives it up: the store's coroutines
are synchronous behind their `async def`, and `run_loop` is called on the loop.
`stream_event` gives the loop up while `run_loop` is in a thread, and while its
caller takes events. These are the interleavings the modules have.

The ReAct graph is the older path: `TeamBotRuntime.invoke` and
`app/react_loop_demo.py` drive it, `AgentService` does not. It is where the policy
gate, MCP aliases, event handlers and activated skill documents have an effect, so
it is modelled apart from `AgentLoop`.

### What makes each part correct

- Gateway: the messages read in an acknowledged webhook were answered; a message runs
  once however often it is delivered; a webhook of good messages is acknowledged in the
  end.
- Service and store: a caller gets the reply of its own event and that reply is
  durable; history consists of whole exchanges; an event is run once; a summary is that
  of the boundary stored with it; nothing is trimmed before it was summarised; the model
  sees the whole conversation.
- Streams: events arrive in order, `run_completed` last and only after the reply
  is stored; no run outlives its stream, and nobody who has seen `run_completed` goes on
  beside it.
- Agent loop and providers: requests every wire format accepts; no handler
  unapproved or twice; endpoints in order, as the configuration binds them; what was
  shown is what was answered, and no part of a thought.
- Front ends: the CLI shows the answer or says truly that it is above; the TUI's
  transcript has it, and its screen exactly what was shown of it.
- Schema: a start fails only beside another one; the search index has what the
  table has.
- ReAct graph: the gate judges the very tool that would run; the budget and the
  loop guard agree; a surface is what its configuration says, after failed
  reloads too.
- Skills: a disabled skill stays disabled. Todo: the last list saved is there.

`PROJECT.json` lists every hazard at its line, with the properties that cover it.

## 2. The modules

| Module | Models | State and actions against the code |
|---|---|---|
| `SessionStore` | tables, trimming, window, compaction rules | operators only. A turn is a record of its request, role and `seq`; a summary is its boundary and the set of turns folded into it |
| `SessionService` | `process_event`, `stream_event` over the database | `db` is what is committed, `conn[w]` the transaction and snapshot of a process, `loop[w]` who holds its event loop, `pc`, `mem` a coroutine. One action per statement that reaches the database: `Check`, `UpsertConversation`, `ReadHistory`, `ReadContext`, `RunInThread`, `RunReturns`, `RunRaises`, `ReadTop`, `AppendTurns`, `AppendConflicts`, `ReadTurns`, `ReadState`, `SummaryEmpty`, `SaveSummary`, `SaveReply`, `WriteRefused`, `Return`, `Crash` |
| `ReplyLedger` | what "event idempotency" promises | abstract: an event is settled once, every caller is given that reply |
| `StoreSchema` | `_init_schema` at every start, `append_turns` and `search_turns` over the index | the file is its columns, turns, index rows and triggers; a process is before a numbered statement of the migration, serving, or down. One action per statement, since each commits by itself; deaths between them |
| `StreamBridge` | `stream_event` from line 202 on | thread, ready queue of the loop, `asyncio.Queue`, runner task, caller; one action per callback, await and cancellation. A caller that is cancelled in the generator is in its `finally` (`Cancelled`); one that breaks out goes on, and the generator is closed by a callback of the loop (`BreakOut`, `CloseGenerator`) |
| `EventStream` | what a stream promises | abstract: sent, received, how the caller ended |
| `ProviderChat` | one `invoke_profile_chat` | endpoint being tried, request in flight, errors, tokens shown |
| `AgentLoop` | `AgentLoop.run` on top of `ProviderChat` | transcript, the call being handled and how far it is: announce, decide, approved, executed |
| `WireFormat` | `_to_openai_messages`, `_to_anthropic_messages` | `Sent` is what a request carries: recent turns of any number (`Given`), the user's message and `AgentLoop`'s transcript; the two conversions are a map and a fold over it |
| `Terminals` | the event handling of `tui.py` and `cli.py` | one operator per event type, folded over the logs that `AgentLoop`'s history holds; `EventLog` and `ModelLog` put the tokens of a call (`TokensOfCall`) and the events of a step (`EventsOfStep`) in the order they were sent |
| `ThinkTags` | `_ThinkTagStripper` | operators on sequences of characters, the loop a recursive function of the position in its window; `Visible` says what they are for |
| `ProviderConfig` | `load_provider_settings_from_env`, `ProviderClientRegistry` | the sources in their order folded to profile bindings, `WellFormed` what their readers accept; the cache of clients by `ProviderEndpoint.key` |
| `ProviderRequest` | `_invoke_profile_raw` and `NativeProviderClient.invoke` | the endpoint and keyword variant being tried, the request in flight, the stripper and the tokens of a stream; the clients that outlive a call |
| `ChannelInput` | the routes, `_looks_like_*_sdk_request`, five SDK runtimes, six adapters | operators: which of them takes an event and what it becomes. An event names its first message and the messages behind it (`more`), which a WhatsApp payload may have |
| `Gateway` | `GatewayManager`, the platform | the body being handled and the position in it; what is acknowledged; failures, lost responses |
| `ActionSurface` | registries, namesake strategies, `PluginHost`, policy gate | operators only: `Built(cfg)` is the registry a configuration gives, `Bound` the host's actions |
| `SkillRegistry` | `skills/registry.py`, `skills/manager.py` | packages on disk, `_discovered`, `_skills`; `Discover` is one whole `_discover_all` |
| `ReactGraph` | `TeamBotRuntime` and `AgentCoreRuntime.invoke` on the two above | surface, run and phase; one action per outcome of reason, act, observe; two built-in handlers may answer "blocked" themselves (`HandlerAnswers`); reload, activate, disable and edits between |
| `TodoFile` | `todo/` | file names, the files they lead to, open descriptors; open, write, rename as steps of their own |

`MC*` modules give the instances; `*Proofs` modules have the theorems. Composition
is by EXTENDS where one part calls another in its own steps (`AgentLoop` on
`ProviderChat`, `SessionService` on `SessionStore`, `ReactGraph` on
`ActionSurface` and `SkillRegistry`, `Gateway` on `ChannelInput`, `ProviderRequest` on
`ThinkTags` and `ProviderConfig`; `WireFormat` and `Terminals` read `AgentLoop`'s state) and by refinement where a part only relies on
a promise: `Gateway` takes `process_event` as what `ReplyLedger` promises, and
`SessionService` is shown to keep that promise.

Abstractions that matter to a reader:

- A text is the run, response or turn it comes from. Summaries are sets of turns,
  so "nothing is lost" is a statement about sets. Character counts are given by a
  constant (`TurnChars`), since the window depends on them.
- SQLite is modelled from how the code uses it: the implicit BEGIN before a write,
  no rollback anywhere, WAL snapshots that make a later write fail, one write lock,
  a unique index on (conversation, seq).
- `ProviderRequest` has texts of characters, with `<t>` and `</t>` for the tags, since
  its question is where a piece may end; `AgentLoop` has texts as the response they
  come from. The two model the same clients for different callers.
- `Terminals` folds over finished logs: a front end acts on nothing but its next event, and
  `StreamBridge` shows that the events come in that order. The CLI's listener prints
  from the run's thread, so its lines may mix with event lines; only its last state and
  the final line are spoken of.
- A tool or MCP name is a base and the alias numbers that were appended, so that
  the first free alias is computed as `rename_for_namesake` does.
- Operators commented "Faulty" beside a definition are plausible bugs of the code. No
  specification uses them; putting one in a definition's place makes the property
  named beside it in `PROJECT.json` fail, which shows that the property can.

## 3. The runs

| Run | Instance | What it shows |
|---|---|---|
| `session_workers` | 2 processes, 2 events sent twice (one pair streamed), all faults | `DurableAnswer`, `WholeExchanges`, `SeqNeverReused`, `SummaryMatchesBoundary` though two connections read, write, strand transactions, crash and overwrite each other's compactions |
| `session_http` | 1 process, `process_event`, 4 requests (one event twice), all faults | `OneExchangePerEvent`, `NothingForgotten`, and `LedgerSpec`: the service implements `ReplyLedger` |
| `session_streams` | 1 process, 3 streams and 1 `process_event`, long and short turns, all faults, fair | `FailuresHaveCauses`, `ContextComplete`, `EveryRequestSettles` |
| `agent_loop` | 2 steps of up to 2 calls, 2 endpoints with different wire formats, up to 2 chunks, up to 3 recent turns, a user to ask, fair | the transcript (`TranscriptProtocol`) and the two conversions of what is sent (`RequestsAccepted`), `ToolsGated`, `EventsTellTranscript`, `AnswerIsShown`, `TerminalsShowAnswer`, `FailoverInOrder`, `RunEnds` |
| `stream_bridge` | a run of up to 4 events, a caller that may break out or be cancelled, fair | `StreamSpec` (implements `EventStream`), `StoredBeforeTold`, `NoOrphanRun`, `EveryStreamEnds` |
| `gateway` | 5 webhooks of overlapping messages, one of them a WhatsApp payload of three, up to 3 deliveries, 2 failures, fair | `RepliesAreTheirOwn`, `OneRunPerMessage`, `AcknowledgedIsAnswered`, `CleanWebhooksSettle` |
| `todo` | 2 processes, 3 saves, lists of every shape, deaths | `LastSaveHolds` and `ShapeKept` as long as no two calls overlap |
| `react` | 3 configurations, step budgets 0 and 2, a reload or activation, a package edit, two packages of one skill | `GateHolds`, `StepsAreBounded`, `TraceAgrees`, `SurfaceIsRegistry`, `DisabledStaysDisabled` |
| `store_schema` | 2 processes, 4 starts and 3 exchanges on a file without older turns, a history limit of one exchange, deaths at any statement | `StartsAreSafe`, `IndexFollowsTable` |
| `provider_request` | 2 calls with or without tools over 3 configurations (one of which is refused), both wire formats, every text of up to three of: a letter, `<`, `<t`, the opening tag, the closing tag | `ShownIsVisible`, `ShownIsAnswer`, `RequestsAsConfigured`, `RetriesRunOut` |
| `session_retry` | 1 process, two streams of one event | violates `SameEventSameReply` |
| `store_schema_old` | 1 process, a file with 2 turns of before the index, a history limit of one exchange | violates `AppendsGoThrough` |

Bounds, and why they are enough:

- Sessions: the history limit is 4 turns (two exchanges) against four requests, so
  trimming happens with and without compaction before it, and a window of two
  turns leaves something to compact from the second exchange on. Two processes
  suffice for every pair of statements to interleave, and for a compaction to overwrite a
  later one, boundary and all; a third adds no rule of
  SQLite that two do not show. `session_streams` has a limit of 6 and turns of
  different length, so that some appends leave nothing to compact. With turns so short that the limit
  of 30 is reached first, `NothingForgotten` would not hold: the window then asks for
  no compaction before `append_turns` trims. The property says which case it is about.
- Agent loop: two calls in a reply are the least that have an order and a denied
  call beside one that runs; two steps are the least with a transcript to check at
  the second request; two endpoints are the least with a fail-over. Three
  recent turns are the least that begin with either role and have an exchange behind it.
- Stream: four events cross while the caller is at each of its awaits; the queue
  behaves alike from the second on.
- Gateway: three deliveries let a webhook fail, be answered with the response lost,
  and be replayed. The bodies hold every kind of raw event between good ones, and one
  message comes by an adapter in one webhook and by an SDK runtime in another.
- Schema: two processes are enough for every pair of statements to meet; four starts
  are one that dies, one beside it and one of each after both. The second exchange is the
  first that trims, and the third the first after a trim.
- Provider requests: a tag cut in two, a thought in the middle, one that is not closed
  and a closing tag alone are all texts of three bits. A text arrives in every division
  into pieces. The second call of one manager is the first that can meet a cached client.
- Todo: three saves give a last list, one before it and one cut off by a death.
- ReAct: `MaxRuns`, `MaxChanges` and `MaxEdits` are 1 and interleave freely, so the
  change comes before or after the run and the edit at any moment of it. Two steps
  let a skill be activated twice with its package changed or another one of its
  name found between. The three configurations have an alias that must skip a taken number,
  a strategy that raises, and MCP tools with the names of a disabled built-in and
  of the event handler.

`MaxSends`, `MaxFailures`, `MaxEvents`, `MaxParts`, `MaxCalls`, `MaxWrites`,
`MaxEdits`, `MaxRuns`, `MaxChanges`, `MaxStarts` and `MaxExchanges` bound counters in guards,
`MaxRecent` the recent turns of `RequestsAccepted`;
everything else in the configurations is a parameter of the code. A behaviour of
`SessionService` has at most one crash. Symmetry is used in
`session_workers` only, which checks no liveness. Deadlock is checked in every run:
a module whose actors all come to an end has a stuttering action for that state alone.

### Fairness

- `SessionService`: a waiting request is served when its process's loop is free,
  and a coroutine that can go on goes on (`asyncio` runs every ready task; provider
  requests have a timeout, `sqlite3` a busy timeout of its own). Crashes are not fair.
- `AgentLoop`: the loop goes on. Requests time out, a stream ends or breaks, tools
  and the user's answer come back.
- `StreamBridge`: the thread of `run_loop` ends, the loop runs its callbacks, the
  caller takes what is there, and the loop closes a generator that was left; the caller need
  not break out and nobody need cancel it.
- `Gateway`: a platform sends again what is not acknowledged (weakly fair up to
  `MaxSends`), a handler ends. Failures are bounded below the deliveries, as a
  platform that retries until success gives.
- `StoreSchema` and `ProviderRequest` state none: their questions are about safety.
- `ReactGraph` states none: its run is a `for` over the loop guard, and the question is
  whether the guard and the budget agree (`StepsAreBounded`).

## 4. What is proved

All theorems hold for every value of the constants, under the assumptions the
modules state and TLC evaluates: `RequestAssumption`, `PolicyAssumption`,
`ServiceAssumption`, `ChatAssumption`, `LoopAssumption`, `RecentAssumption`, `BridgeAssumption`,
`SchemaAssumption`, `InputAssumption`, `GatewayAssumption`, `TodoAssumption`,
`SurfaceAssumption`, `SkillAssumption`, `GraphAssumption` and `RequestsAssumption`. They
type the constants, and say of the data what the code establishes before the modelled
part sees it: a route that takes single payloads hands over one event,
and only a payload of WhatsApp's own shape has messages behind its first
(`GatewayAssumption`), a name is once in the catalog (`SurfaceAssumption`), what a
configuration's readers accept has endpoints or model ids of their types
(`RequestsAssumption`, by `WellFormed`).

Every invariant and every action property a passing run checks is a theorem. `TypeOK` of
`TodoFile` is proved and not in its run.

Sessions (`SessionServiceProofs`)

| Theorem | Statement | Argument |
|---|---|---|
| `TypeCorrect` | `Spec => []TypeOK` | `TypeInv` adds that every table has a bound on its numbers, since MAX(seq) of an unbounded set is not a number, and that a started request has a process |
| `AnswersAreDurable` | `Spec => []DurableAnswer` | `ViewsInv`: a connection's snapshot never runs ahead of the database, and one that may still be written from has all of it. Without it a commit of an old snapshot could take a reply back |
| `ProcessedStays` | a processed event stays processed | the same invariant, as a step property |
| `NumbersAreNotReused` | `Spec => []SeqNeverReused`, if `EvenLimit` | `HistoryInv`: the history of a conversation is the newest part (`Window`) of one log of m whole exchanges, numbered 1 to 2m; every snapshot is such a window of an m of its own, and a MAX(seq) that was read is an even number of the log |
| `ExchangesAreWhole` | `Spec => []WholeExchanges`, if `EvenLimit` | the same: a window that begins at an odd number has whole exchanges |
| `FailuresAreCaused` | `FailuresHaveCauses` with one process | `AloneInv`: whoever is past its check and not in its run holds the loop; no transaction stays open; what was read for a write is still there |
| `SummariesMatch` | `Spec => []SummaryMatchesBoundary`, if `EvenLimit` | `SummariesInv`: the same holds of what a connection's snapshot has and of what a coroutine is about to save, however old. What was read is a beginning of the log without a gap (`Complete`), what has been trimmed is not stored again, and new turns are numbered above every boundary (`Reached`) |
| `ImplementsLedger` | `LedgerSpec` with one process and no streams | `LedgerInv`: between its check and its save, a request's event is unsettled. Every step of the service is a `Settle`, a `Deliver` or a stutter |
| `NothingIsForgotten` | `NothingForgotten` with one process, if `WindowFits` | `MemoryInv`: what was ever recorded is stored or summarised, the boundary separates the two, and what is above it is in the recent window unless a compaction is under way; so when `append_turns` trims, what goes has been summarised |
| `ContextIsComplete` | `ContextComplete` with one process, if `WindowFits` | the same invariant, at the step that reads the context |
| `EventsAreRecordedOnce` | `OneExchangePerEvent` with one process and no streams | `EventInv`: an event whose exchange is recorded is processed, or its request is about to save its reply, or that request's process died before it could; while it lives no other request of the event can be past its check |

The agent loop and its transcript (`AgentLoopProofs`)

| Theorem | Statement | Argument |
|---|---|---|
| `TypeCorrect` | `Spec => []TypeOK` | with the position of the call inside its reply |
| `TranscriptIsWellFormed` | `Spec => []TranscriptProtocol` | `TurnInv`: the calls before the current one are answered behind their assistant message; `AnsweredInv`: every other assistant message is answered in full |
| `ToolsAreGated` | `Spec => []ToolsGated` | handlers run in the order of the calls, so a call that is handled now has not run before (`RunningInv`), and what was answered as run is what ran (`OutcomeInv`) |
| `FailoverIsInOrder` | `Spec => []FailoverInOrder` | `TriedInv`: the errors of a call are those of the endpoints before the one being tried |
| `AnswersAreShown` | `Spec => []AnswerIsShown` | `ShownInv`: the chunks of the stream in flight are the last that were shown, and a plain request begins with nothing shown for its endpoint |
| `EventsAreTold` | `Spec => []EventsTellTranscript` | `EventsInv`: the tool messages have two events each, and the call being handled the first of its own |
| `RequestsAreAccepted` | `Spec => []RequestsAccepted` | `AskedInv` gives the order of the transcript; a map and a fold; `Ready` says of the fold's result after the given messages, which alternate and end with the user's, and `Reached` after the first k of the run, where in Anthropic's protocol it is |
| `TerminalsShow` | `Spec => []TerminalsShowAnswer` | `LogInv`: the order of the two logs, and what the model wrote last (below) |
| `RunsGrowShorter` | every step lowers five naturals in lexicographic order | `BudgetInv`: steps and chunks stay within their bounds (below) |

The other parts

| Theorem | Statement | Argument |
|---|---|---|
| `StreamBridgeProofs!BridgeImplementsStream` | `Spec => StreamSpec` | `OrderInv`: while the caller takes, what it has, then the queue, then the callbacks are the events made, in their order; behind the callbacks is the one that ends the thread's part, so when the runner puts its own events no callback is left, and its sentinel comes last. Every step of the bridge is one of `EventStream` or a stutter |
| `StreamBridgeProofs!TellsWhatIsStored` | `Spec => []StoredBeforeTold` | no callback carries `run_completed`; the runner puts it in the step that stores the reply |
| `StreamBridgeProofs!LeavesNoRun` | `Spec => []NoOrphanRun` | `ActorsInv`: a runner that is done or failed has a thread that ended, since the callback with the thread's result comes from one (`CallbacksInv`); the runner is cancelled only in a wait of a closing generator, or with a program that ends; `ToldDone`: the runner puts `run_completed` in its last step, so who breaks out there leaves nothing behind |
| `StreamBridgeProofs!BridgeTypes` | `Spec => []TypeOK` | types of the callbacks, the queue and both histories |
| `StreamBridgeProofs!NobodyIsForgotten` | as long as the caller has not ended, the thread runs, a callback can run or the caller can go on | `WakeInv`: whichever of them waits, the callback that wakes it is there or will be added; `CloseInv`: so is the one that closes a generator its caller left (below) |
| `StreamBridgeProofs!StepsRunOut` | every step lowers a natural number | what thread, callbacks, runner and caller have still to do, weighted so that a step that adds a callback or an event takes away more (below) |
| `GatewayProofs!GatewayRunsOnce` | `Spec => []OneRunPerMessage` | `StoredInv`: what is stored under an id is the reply of the message the id names; `RunInv`: a message that ran and has an id is found under it, so no later delivery runs it |
| `GatewayProofs!GatewayAnswers` | `Spec => []AcknowledgedIsAnswered` | `ServingInv`: the handler has answered every message before its position. That only read messages ever run is inductive as it stands |
| `GatewayProofs!GatewayReplies` | `Spec => []RepliesAreTheirOwn` | the same: the replies so far are those of the messages before the position, in order, and the rest was ignored; `AnswersStay`: no later step changes what was stored, so messages without an id, which share a key, all have the reply that was stored first |
| `GatewayProofs!GatewayTypeOK` | `Spec => []TypeOK` | |
| `TodoFileProofs!TodoLastSaveHolds` | `Spec => []LastSaveHolds` | `AloneInv`: without an overlap the one open file is the one named `todo.md.tmp` and holds what was written so far, so the rename publishes the list in full, whatever a dead writer left under that name |
| `TodoFileProofs!TodoShapeKept` | `Spec => []ShapeKept` | `ShapeInv` on the lists written and saved; what is read back has the items in progress of the saved list, position by position |
| `TodoFileProofs!TodoTypeOK` | `Spec => []TypeOK` | each process holds one file open at most and two names lead to files, so one is free for the next temporary file |
| `ReactGraphProofs!HostIsRegistry` | `Spec => []SurfaceIsRegistry` | `SurfaceInv`: the tools and the host are those one configuration gives; the registry is a fold, and each of its results has distinct names and every built-in tool registered so far |
| `ReactGraphProofs!SkillsStayDisabled` | `Spec => DisabledStaysDisabled` | a discovery is a fold over the packages; each of its results differs from the one before by one import, and an import brings a skill only from a package of that name that is there and was not imported with success (`ImportFacts`) |
| `ReactGraphProofs!RunsAreBounded` | `Spec => []StepsAreBounded` | `StepsInv`: the budget is checked before an action is selected, so an action that runs still fits; the loop guard has counted the steps, and the one that acts |
| `ReactGraphProofs!GateIsObeyed` | `Spec => []GateHolds` | `GateInv`: an invocation is recorded under the step that will be traced next, and nothing of that step before it acts; an output that says blocked is the gate's, or of one of the two handlers that say so (`MarkedRight`) |
| `ReactGraphProofs!TraceIsTold` | `Spec => []TraceAgrees` | `ToldInv`: the i-th action is told by the events 2i - 1 and 2i; `DocsInv`: the documents run ahead of the trace by the action about to be observed |
| `StoreSchemaProofs!RefusedStartsHaveCompany` | `Spec => []StartsAreSafe` | `SafeInv`: an open transaction belongs to a process that serves and has the schema of the file, and a start with nobody beside it finds nothing of what it has still to make |
| `StoreSchemaProofs!IndexFollows` | `Spec => []IndexFollowsTable` | `MakingInv`: an index without its triggers is one being made, before any turn is written; then the triggers keep `TableSound` and `IndexSound`. The index counts words, so the proof has lemmas about sums over finite sets, by induction on subsets |
| `ProviderRequestProofs!ShownStaysVisible` | `Spec => []ShownIsVisible` | `StreamInv`: what was shown, and what is visible behind the text held back, are what is visible of the message (below) |
| `ProviderRequestProofs!AnswerIsVisible` | `Spec => []ShownIsAnswer` | the same, where the text is finished: nothing is held back |
| `ProviderRequestProofs!EndpointsAsConfigured` | `Spec => []RequestsAsConfigured` | `SettingsMean`: the settings of a profile are what the last source to list it means, by the results of the fold over the sources and, inside each, over its entries; `ClientInv`: a cached client is one of its key |
| `ProviderRequestProofs!RetriesComeToAnEnd` | `Spec => RetriesRunOut` | `CallInv`: the endpoint is one of the binding's, the variant one of five, what arrived is part of the message; so a later endpoint, a later variant, the fallback of a stream and a piece of it each lower their own of four naturals and leave those before it |

Five of the arguments need more than one step from an invariant.

- A fold (`FoldLeft`, `MapThenFoldSet`) is reasoned about by the function of its results:
  r[0] is the start, r[k] comes from r[k - 1] and the k-th item. That the function exists is
  a lemma by induction, and what is said of the fold is said of every r[k]. Induction over
  the naturals is cited in its form about sets (`LeastNatural`, `CountUp`), which needs no
  operator as a parameter.
- `Visible` and the stripper's loop are recursive functions on texts and positions, so each
  is what its equation says only if a function with that equation exists. `Recursive` and
  `Descends` state the condition, a rank that decreases, and it is shown for both.
- The stripper sees a text in pieces and keeps back what may be the beginning of a tag. One
  turn of its loop is about a window of the text: what it gives out, and what is visible
  behind what it leaves, make up what is visible from the beginning of the window
  (`Splits`, `Consumed`). The held back part is short enough never to hold a whole tag and
  long enough for every beginning of one; the windows follow one another, so a stream gives
  out what one pass over the whole text would.
- A terminal sees two logs, and nothing of the run but these. `EventOrder` says that the
  events come in the order of their steps, `ShownOrder` that the tokens come in the order
  of their calls and, inside a call, of its endpoints, and `CountInv` that no step is
  ahead of its call. A sequence in such an order is its parts, call by call and endpoint by
  endpoint, one behind the other: what `EventLog` and `ModelLog` put together is all that was
  shown and told. `FinalInv` with `AnswersAreShown` says that an answer is of the last
  endpoint that was tried in the last call. A handler's fold over a log is a run of its
  states that can be cut anywhere, so each field of the screen is followed through the calls
  before the last, through the last, and through the closing event.
- Liveness has a half that can be proved. That a run or a stream ends follows from two facts:
  there is always a step to take, and steps cannot go on for ever. `RunsGrowShorter`,
  `StepsRunOut` and `RetriesComeToAnEnd` are the second, for every bound: a measure in the
  naturals that every step lowers. `NobodyIsForgotten` is the first where it is in doubt,
  between thread, event loop, runner and caller: no wake-up is lost, in whatever order a
  cancellation, the thread's result, the caller's leaving and the closing of its generator
  come. What joins the two
  (fairness, `ENABLED`, the well-foundedness of the measure in time) stays with TLC.

Hypotheses of single theorems, and why they are there:

- `OneWorker` (all processes are one), and `Streams = {}`: `session_retry` breaks the ledger
  with one process and streams, and two processes refuse each other's writes.
  `AnswersAreDurable`, `ProcessedStays`, `NumbersAreNotReused`, `ExchangesAreWhole` and
  `SummariesMatch` need neither.
- `EvenLimit`: the history limit is even. It is 30 by default (`memory_store.py` 20), and
  every value the tests give is even. With a limit of 3, TLC finds `SeqNeverReused`
  violated: the trim cuts an exchange, and a user turn that a failed append left in
  its transaction is committed later under a number that was given away.
- `WindowFits`: the recent window and one more exchange fit the history limit, so that
  compaction is asked for before `append_turns` trims. It depends on how long turns are;
  with the default budget of characters it holds unless turns are very short, and with such
  turns `NothingForgotten` fails (section 3). `session_http` and `session_streams`
  have limits and lengths of which it holds.

Only model-checked: `RunEnds`, `EveryRequestSettles`, `EveryStreamEnds` and
`CleanWebhooksSettle`, since liveness, fairness and `ENABLED` are out of the prover's reach.
The theorems above prove for the first and the third what does not need them.

## 5. What the checks show of the code

Two disagreements between the code and what its documents or tests say, each with
a run whose counterexample shows it:

1. `session_retry`: two overlapping `stream_event` calls for one event both run the
   agent and return different replies, since the check at line 178 and the save at
   246 have the thread between them.
2. `store_schema_old`: `docs/superpowers/plans/2026-04-12-sqlite-fts-tokens.md` says that
   no existing rows or queries are broken. The index is created empty beside existing
   turns, with a trigger on their deletion: an append that trims one of them
   can be refused by FTS5, as in the run's trace, and appends of that conversation are
   refused as long as the new turns have fewer words than the old ones they trim. The turns
   a refused append had inserted wait in the open transaction until another request
   commits them.

Met while modelling, without a run of their own:

- `docs/agent-core-algorithm.md:341` says that without a summary model the raw transcript
  keeps growing; `append_turns` trims it to `history_limit` all the same
  (`memory_store.py` 126-143).
- The same document (146) describes `ExecutionPolicyGate` as evaluated before every
  handler; `AgentLoop`, the loop behind every entry point, does not know it (`loop.py` 110).
- `docs/plans/2026-03-12-document-backed-todo.md:111` asks for atomic file writes; both
  writers use the name `todo.md.tmp` (`todo/repository.py` 23-25), so overlapping calls can
  leave a list nobody wrote. `TodoFile` has the steps; `LastSaveHolds` speaks of calls
  that do not overlap.
- `ProviderEndpoint.key` (`providers/base.py` 20) leaves the API key out: endpoints that
  differ in it alone share the client of whoever asked first. `RequestsAsConfigured`
  says everything but that.
- `_invoke_profile_raw` takes every TypeError for a client that lacks a keyword
  (`manager.py` 461). A reply without choices raises one too; the request is made again up
  to five times, the last two without tools, and tokens of a repetition are shown behind those
  of the one before (`ReplyMalformed`). The repetitions run out all the same
  (`RetriesRunOut`).
- The environment's bindings cannot name a model of the runtime configuration, and keep
  the environment's definition of one it redefines, while `config.py` 65-69 says that the
  single-file configuration wins (`ModelsFor`).
- The TUI opens its final line with the first token of the run and never closes it, so the
  tokens of every step are on one line, and an answer that came whole after tokens of a
  broken attempt is only in its transcript, not on the screen (`TerminalsShowAnswer` says
  what is there instead, `TuiCompleted` has the code). The CLI
  prints a streamed answer again when a summary was streamed after it (`CliCompleted`),
  and shows the summary as "Final (live)".
- A Telegram update without a message is taken by the generic shape of the adapter,
  which answers 422, and the platform sends it again; Slack and Feishu adapters answer 422
  to messages without text that their SDK runtimes ignore (`ChannelInput`).
- The WhatsApp adapter reads the first message of the first change of the first entry;
  the others of a payload are acknowledged and lost (`whatsapp.py` 17-28). They are `more` in
  `ChannelInput`, and `AcknowledgedIsAnswered` says that nothing else is, but messages behind
  a challenge.
- The recent window may begin with an assistant turn; Anthropic's first message is then the
  assistant's (`native.py` 640-665), which `RequestsAccepted` says exactly when.
- With two processes a compaction can overwrite a later one, and the boundary moves back.
  The summary goes back with it, so what is given to the model stays consistent
  (`SummaryMatchesBoundary`); but turns that were trimmed after the later compaction are
  then in no summary.
- `break` out of `stream_event` does not run its `finally`: the generator is closed later, by
  a task of the event loop, and the caller goes on beside its run. The TUI breaks out at
  `run_completed`, when nothing of the run is left (`NoOrphanRun`).
- `browser` and `desktop_screenshot` run and answer "blocked" themselves, so the trace of the
  ReAct graph calls steps blocked whose handler ran (`execution.py` 112, `GateHolds`).
- Two processes that start at once on a new file may both see a column or the index
  missing; the loser does not start ("duplicate column name", or "FTS5 not available").
  A process that dies between creating the index and its triggers leaves them missing for
  good, since the next start finds the table (`memory_store.py` 284-314).
- `docs/agent-core-algorithm.md` says that changes of a skill document hot-load.
  `SkillRegistry.discover` imports a package once per process; an edited package
  keeps its old text until the restart (`Import` in `SkillRegistry`).
- `_deterministic_direct_route` does not look at the step, so a reaction runs
  `handle_reaction` in every step of its budget (`RouteReaction`).
- `policy_gate` is read when the process starts and survives `reload_runtime`
  (`gate` in `ReactGraph` never changes).
- Under namesake strategy `override` a second tool of a name is not overridden:
  `ToolRegistry.register` raises, and the build with it (`Register`).
- `activate_skill` returns a `_state_update` that the ReAct graph applies and
  `AgentLoop` ignores.
- A platform payload without an id gets the event id `""` in four adapters; the
  second such message is answered with the first one's reply (`Nameless` in `Gateway`).
- A statement of the store that fails leaves its transaction open; the next commit
  of that connection commits or, from an overtaken snapshot, fails until the restart.

## 6. Not modelled, and why

- File, shell, browser and web tools: I/O without state of their own.
- Layout, colours, key handling and animation in `app/`, and the demo loop: presentation.
- Path resolution and wiring (`runtime_paths.py`, `bootstrap.py`): sequential, without state.
- The LangChain client: not built by default.
- The extraction of a JSON object from a reply and the normalisation of tool calls:
  pure functions of one reply; the syntax of configuration values.
- Conversation and thread ids, signature checks, and the SDKs behind the runtimes.
- `AgentService.reload_runtime`: the terminals call it between runs only, and what it
  changes is `Reload` of `ReactGraph`.
- `GET` routes and `list_conversations`: reads.

## 7. Plan

Order of the work, the most important behaviour first; what is done is marked.

1. Session service, store and memory; ledger refinement (done, proved).
2. Agent loop and provider chat (done, proved).
3. Stream bridge and its refinement (done, proved).
4. Gateway, todo file (done, proved).
5. ReAct graph, action surface, skills (done, proved).
6. Schema creation and the full-text index (done, proved).
7. Think tags, single requests, configuration, the client registry (done, proved).
8. Conversion of the requests to both wire formats, both terminals over `AgentLoop`'s
   transcript (done, proved).
9. Measures for the runs, streams and requests, and that no waiter is forgotten (done,
   proved).

Considered and left: `Gateway` as a refinement of `ReplyLedger`. Its `Finish` gives the
replies of a whole body in one step, where the ledger delivers one at a time, and a generic
payload without an id is run again at every delivery; so the promise stays where
`SessionService` is shown to keep it, and `RepliesAreTheirOwn` and `OneRunPerMessage` say
what of it survives a batch.
