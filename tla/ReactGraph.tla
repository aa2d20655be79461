----------------------------- MODULE ReactGraph -----------------------------
(***************************************************************************)
(* A process that runs the ReAct graph: TeamBotRuntime (agent/runtime.py)  *)
(* holds the action surface and builds it again on reload;                 *)
(* AgentCoreRuntime.invoke (agent/graph.py) runs reason, act and observe   *)
(* (agent/reason.py, agent/execution.py) over it, event by event.  It is   *)
(* what TeamBotRuntime.invoke and app/react_loop_demo.py drive; AgentLoop  *)
(* has the path of AgentService.                                           *)
(*                                                                         *)
(* The graph is synchronous: reloads and commands wait for the end of a    *)
(* run, only the directories of the skills may change meanwhile.  A text   *)
(* is abstracted to where it comes from.                                   *)
(***************************************************************************)
EXTENDS Integers, ActionSurface, SkillRegistry

CONSTANTS
  Limits,      \* the values of react_max_steps
  MaxRuns,     \* bound: runs of a process
  MaxChanges   \* bound: reloads and activations of a process

ASSUME GraphAssumption == Limits \subseteq Int /\ MaxRuns \in Nat /\ MaxChanges \in Nat

VARIABLES
  gate,      \* policy_gate, read once when the process starts
  tools,     \* the tools of tool_registry
  host,      \* PluginHost._actions
  active,    \* PluginHost._active_names
  config,    \* history: the configuration the surface was built from
  changes,   \* reloads and activations so far
  runs,      \* runs so far
  phase,     \* where invoke is
  event,     \* event_type
  limit,     \* react_max_steps
  step,      \* react_step
  visits,    \* rounds of the loop in invoke
  selected,  \* selected_action
  input,     \* the skill_name of action_input
  output,    \* action_output.message
  docs,      \* active_skill_docs
  trace,     \* execution_trace
  told,      \* the RuntimeEvents given to the listener
  invoked    \* history: the handlers invoked in this run, each with its step

surfaceVars == <<gate, tools, host, active, config, changes>>

runVars ==
  <<runs, phase, event, limit, step, visits, selected, input, output, docs, trace, told, invoked>>

vars == <<skillVars, surfaceVars, runVars>>
-----------------------------------------------------------------------------
NoName == Name("")

Init ==
  /\ SkillsInit
  /\ gate \in [allowHigh : BOOLEAN, listed : {{}, {Name(b) : b \in HighRisk}}]
  /\ gate.allowHigh => gate.listed = {}
  /\ \E cfg \in Configs :
       /\ ~Built(cfg).raised
       /\ config = cfg
       /\ tools = Built(cfg).tools
       /\ host = Bound(tools)
       /\ active = DOMAIN host
  /\ changes = 0
  /\ runs = 0
  /\ phase = "idle"
  /\ event = "message"
  /\ limit \in Limits /\ step = 0 /\ visits = 0
  /\ selected = NoName /\ input = "none"
  /\ output = "" /\ docs = <<>>
  /\ trace = <<>> /\ told = <<>> /\ invoked = <<>>
-----------------------------------------------------------------------------
(* Between runs *)

\* reload_runtime: when building raises, everything stays as it was.
Reload(cfg) ==
  /\ phase = "idle"
  /\ changes < MaxChanges
  /\ changes' = changes + 1
  /\ IF Built(cfg).raised THEN UNCHANGED <<tools, host, active, config>>
     ELSE /\ tools' = Built(cfg).tools
          /\ host' = Bound(tools')
          /\ active' = DOMAIN host'
          /\ config' = cfg
  /\ UNCHANGED <<skillVars, gate, runVars>>

\* PluginHost.activate and deactivate.
Toggle(name) ==
  /\ phase = "idle"
  /\ changes < MaxChanges
  /\ changes' = changes + 1
  /\ active' = IF name \in active THEN active \ {name} ELSE active \cup {name}
  /\ UNCHANGED <<skillVars, gate, tools, host, config, runVars>>

\* /skills, /skills enable: the packages that are new are imported, nothing more.
AskForSkills == phase = "idle" /\ Discover /\ UNCHANGED <<surfaceVars, runVars>>

Disable(s) == phase = "idle" /\ DisableSkill(s) /\ UNCHANGED <<surfaceVars, runVars>>

Edit(p) == EditPackage(p) /\ UNCHANGED <<surfaceVars, runVars>>

\* build_initial_state, then invoke.
Begin ==
  /\ phase = "idle"
  /\ runs < MaxRuns
  /\ runs' = runs + 1
  /\ phase' = "reason"
  /\ event' \in {"message", "reaction_added"}
  /\ limit' \in Limits /\ step' = 0 /\ visits' = 0
  /\ selected' = NoName /\ input' = "none"
  /\ output' = "" /\ docs' = <<>>
  /\ trace' = <<>> /\ told' = <<>> /\ invoked' = <<>>
  /\ UNCHANGED <<skillVars, surfaceVars>>
-----------------------------------------------------------------------------
(* reason *)

\* Faulty: no padding.
LoopGuardUnpadded == limit

LoopGuard == Max({limit + 2, 3})

Reasoning == phase = "reason" /\ visits < LoopGuard

Tell(type) == Append(told, [type |-> type, step |-> step + 1, action |-> selected])

Composed(events) ==
  events \o << [type |-> "final_text", step |-> step', action |-> NoName],
               [type |-> "run_completed", step |-> step', action |-> NoName] >>

\* react_done: compose_reply_node, and invoke returns.
Finish(message) ==
  /\ output' = message
  /\ visits' = visits + 1
  /\ phase' = "idle"
  /\ UNCHANGED step
  /\ told' = Composed(told)
  /\ UNCHANGED <<surfaceVars, runs, event, limit, selected, input, docs, trace, invoked>>

Select(name, skill) ==
  /\ selected' = name
  /\ input' = skill
  /\ visits' = visits + 1
  /\ phase' = "act"
  /\ told' = Append(told, [type |-> "tool_call", step |-> step + 1, action |-> name])
  /\ UNCHANGED <<surfaceVars, runs, event, limit, step, output, docs, trace, invoked>>

StepsSpent ==
  /\ Reasoning /\ step >= limit
  /\ Finish("processed")
  /\ UNCHANGED skillVars

Deterministic == event = "reaction_added" /\ Name("handle_reaction") \in active

RouteReaction ==
  /\ Reasoning /\ step < limit /\ Deterministic
  /\ Select(Name("handle_reaction"), "none")
  /\ UNCHANGED skillVars

AsksModel == Reasoning /\ step < limit /\ ~Deterministic

ToolSpecs == {n \in active : host[n].source = "tool"}

\* The first of the reply's tool calls that names an active action, event handlers too.
ModelCalls ==
  /\ AsksModel /\ ToolSpecs # {}
  /\ \E name \in active, skill \in SkillNames :
       Select(name, IF name = Name("activate_skill") THEN skill ELSE "none")
  /\ Discover

\* A text, an empty text, or tool calls that name no active action.
ModelAnswers ==
  /\ AsksModel
  /\ \E message \in {"answer", "no answer"} \cup (IF ToolSpecs = {} THEN {} ELSE {"unmapped"}) :
       Finish(message)
  /\ Discover

\* No model is configured, or the request raised.
NoModel ==
  /\ AsksModel
  /\ Finish("acknowledged")
  /\ Discover \/ UNCHANGED skillVars
-----------------------------------------------------------------------------
(* act and observe *)

\* Faulty: the risk is looked up in the built-in catalog.
GatedByCatalog ==
  Allows(gate, selected, IF selected \in {Name(b) : b \in HighRisk} THEN "high" ELSE "low")

Gated == Allows(gate, selected, host[selected].risk)

Acted(message, newDocs) ==
  /\ output' = message
  /\ docs' = newDocs
  /\ phase' = "observe"
  /\ UNCHANGED <<surfaceVars, runs, event, limit, step, visits, selected, input, trace, told>>

Invokes == invoked' = Append(invoked, [action |-> selected, step |-> step + 1])

ActBlocked ==
  /\ phase = "act" /\ ~Gated
  /\ Acted("blocked", docs)
  /\ UNCHANGED <<skillVars, invoked>>

\* The handler is the built-in activate_skill, not an MCP tool of its name.
ActivatesSkill ==
  /\ selected = Name("activate_skill")
  /\ ToolNamed(tools, selected).of = "builtin"

BuiltinSelected ==
  host[selected].source = "tool" /\ ToolNamed(tools, selected).of = "builtin"

\* The built-in tools whose handlers run and answer "blocked" themselves.
SelfBlocking == {Name("browser"), Name("desktop_screenshot")}

\* browser does so for an action it knows, desktop_screenshot always.
HandlerAnswers ==
  CASE BuiltinSelected /\ selected = Name("browser") -> {"result", "unavailable"}
    [] BuiltinSelected /\ selected = Name("desktop_screenshot") -> {"unavailable"}
    [] OTHER -> {"result"}

ActInvokes ==
  /\ phase = "act" /\ Gated /\ ~ActivatesSkill
  /\ \E message \in HandlerAnswers : Acted(message, docs)
  /\ Invokes
  /\ UNCHANGED skillVars

\* A built-in tool raises: the exception leaves invoke.
ActRaises ==
  /\ phase = "act" /\ Gated /\ ~ActivatesSkill
  /\ BuiltinSelected
  /\ Invokes
  /\ phase' = "idle"
  /\ UNCHANGED <<skillVars, surfaceVars, runs, event, limit, step, visits, selected, input, output,
                 docs, trace, told>>

\* Faulty: the document is added beside the one it replaces.
WithDocAdded(doc) == Append(docs, [skill |-> input, doc |-> doc])

\* activate_skill's _state_update: the document replaces one of the same name.
OtherDocs ==
  FoldLeft(LAMBDA kept, d : IF d.skill = input THEN kept ELSE Append(kept, d), <<>>, docs)

WithDoc(doc) == Append(OtherDocs, [skill |-> input, doc |-> doc])

ActActivates ==
  /\ phase = "act" /\ Gated /\ ActivatesSkill
  /\ Discover
  /\ LET doc == skills'[input]
     IN  IF doc = Unknown THEN Acted("unknown skill", docs) ELSE Acted("activated", WithDoc(doc))
  /\ Invokes

\* The blocked flag of action_output: the gate's, or the handler's own.
SaysBlocked(message) == message \in {"blocked", "unavailable"}

Observe ==
  /\ phase = "observe"
  /\ step' = step + 1
  /\ trace' = Append(trace, [step |-> step', action |-> selected, input |-> input,
                             blocked |-> SaysBlocked(output), observation |-> output])
  /\ IF step' >= limit
     THEN phase' = "idle" /\ told' = Composed(Tell("tool_result"))
     ELSE phase' = "reason" /\ told' = Tell("tool_result")
  /\ UNCHANGED <<skillVars, surfaceVars, runs, event, limit, visits, selected, input, output,
                 docs, invoked>>
-----------------------------------------------------------------------------
Run ==
  \/ StepsSpent \/ RouteReaction \/ ModelCalls \/ ModelAnswers \/ NoModel
  \/ ActBlocked \/ ActInvokes \/ ActRaises \/ ActActivates \/ Observe

Between ==
  \/ \E cfg \in Configs : Reload(cfg)
  \/ \E name \in DOMAIN host : Toggle(name)
  \/ AskForSkills
  \/ \E s \in SkillNames : Disable(s)
  \/ Begin

Next == Run \/ Between \/ \E p \in PackageSet : Edit(p)

Spec == Init /\ [][Next]_vars
-----------------------------------------------------------------------------
(* Properties *)

\* Whatever was reloaded, activated or renamed before: a handler runs only if the gate
\* allows the risk of the very tool that is registered under the name; and the trace says
\* blocked of every step whose handler did not run and, of those whose handler did, at most
\* of the two tools that answer so themselves (execution.py 79-83, 112,
\* external_operation_tools.py 368-376, 447-451).
GateHolds ==
  /\ \A k \in DOMAIN invoked :
       LET name == invoked[k].action
       IN  name \in NamesOf(tools) /\ phase # "idle" =>
             Allows(gate, name, ToolNamed(tools, name).risk)
  /\ \A k \in DOMAIN trace :
       IF \E j \in DOMAIN invoked : invoked[j].step = k
       THEN trace[k].blocked => trace[k].action \in SelfBlocking
       ELSE trace[k].blocked

\* A run takes no more than react_max_steps actions and one more round of reasoning, so the
\* loop guard never ends it with a made-up reply (graph.py 26-28, execution.py 103-104),
\* and its trace numbers the actions without a gap.
StepsAreBounded ==
  /\ Len(trace) = step /\ step <= Max({limit, 0})
  /\ \A k \in DOMAIN trace : trace[k].step = k
  /\ phase = "reason" => visits = step /\ visits < LoopGuard
  /\ phase \in {"act", "observe"} => visits = step + 1

\* Whoever follows a run is told its trace: each action as tool_call then tool_result, in
\* order, and final_text and run_completed at the end of a run that returns, and only there;
\* and the skill documents are those the trace says were activated, each once, though
\* packages change and skills are activated again (execution.py 90-134, 143-168).
TraceAgrees ==
  LET calls == [k \in 1 .. 2 * Len(trace) |->
                  [type |-> IF k % 2 = 1 THEN "tool_call" ELSE "tool_result",
                   step |-> (k + 1) \div 2, action |-> trace[(k + 1) \div 2].action]]
      behind == SubSeq(told, Len(calls) + 1, Len(told))
      types == [k \in DOMAIN behind |-> behind[k].type]
  IN  /\ IsPrefix(calls, told)
      /\ phase = "reason" => types = <<>>
      /\ phase \in {"act", "observe"} => types = <<"tool_call">>
      /\ phase = "idle" /\ runs > 0 =>
           types \in {<<"final_text", "run_completed">>, <<"tool_call">>}
      /\ phase # "observe" =>
           /\ \A j, k \in DOMAIN docs : docs[j].skill = docs[k].skill => j = k
           /\ {docs[k].skill : k \in DOMAIN docs} =
                {trace[k].input : k \in {j \in DOMAIN trace : trace[j].observation = "activated"}}

\* Whatever MCP servers offer and whatever the strategy, reloads that raise included: no two
\* tools have one name, no built-in tool is displaced, the host's actions are the registry's
\* tools and the event handlers, at the tools' own risk, and only they can be active
\* (bridge.py 14-35, actions/registry.py 31-47).
SurfaceIsRegistry ==
  /\ \A j, k \in DOMAIN tools : tools[j].name = tools[k].name => j = k
  /\ IsPrefix(BuiltinTools(config), tools)
  /\ DOMAIN host = EventHandlers \cup NamesOf(tools)
  /\ active \subseteq DOMAIN host
  /\ \A k \in DOMAIN tools : host[tools[k].name] = [source |-> "tool", risk |-> tools[k].risk]
=============================================================================
