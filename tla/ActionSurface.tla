--------------------------- MODULE ActionSurface ---------------------------
(***************************************************************************)
(* How a process makes its action surface from its configuration: the      *)
(* built-in tools a profile selects (actions/tools/runtime_builder.py), the*)
(* MCP tools bridged into the same registry under a namesake strategy      *)
(* (mcp/bridge.py, actions/tools/namesake.py), the PluginHost over tools   *)
(* and event handlers (actions/registry.py) and the policy gate            *)
(* (agent/policy.py).  Operators only; ReactGraph holds the state.         *)
(***************************************************************************)
EXTENDS Naturals, Sequences, FiniteSets, SequencesExt, FiniteSetsExt

CONSTANTS
  Catalog,    \* the built-in tools, in the order they are registered
  HighRisk,   \* those whose manifest has risk_level "high"
  Profiles,   \* Profiles[p]: the tools of a profile
  Configs     \* the configurations a process may be given

\* An alias of a name ends with the number rename_for_namesake gave it.
ToolName == [base : STRING, alias : Seq(Nat)]

Name(base) == [base |-> base, alias |-> <<>>]

Risks == {"low", "high"}

EventHandlers == {Name("handle_reaction")}

Strategies == {"skip", "override", "raise", "rename"}

IsConfig(cfg) ==
  /\ cfg.profile \in DOMAIN Profiles
  /\ cfg.enable \subseteq Range(Catalog) /\ cfg.disable \subseteq Range(Catalog)
  /\ cfg.strategy \in Strategies
  /\ cfg.mcp \in Seq([name : ToolName, risk : Risks])

ASSUME SurfaceAssumption ==
  /\ Catalog \in Seq(STRING) /\ IsInjective(Catalog)
  /\ HighRisk \subseteq Range(Catalog)
  /\ \A p \in DOMAIN Profiles : Profiles[p] \subseteq Range(Catalog)
  /\ \A cfg \in Configs : IsConfig(cfg)
-----------------------------------------------------------------------------
(* The tool registry *)

Selected(cfg) ==
  (Profiles[cfg.profile] \cup {"activate_skill"} \cup cfg.enable) \ cfg.disable

BuiltinTool(base) ==
  [name |-> Name(base), risk |-> IF base \in HighRisk THEN "high" ELSE "low", of |-> "builtin"]

BuiltinTools(cfg) ==
  FoldLeft(LAMBDA tools, base :
             IF base \in Selected(cfg) THEN Append(tools, BuiltinTool(base)) ELSE tools,
           <<>>, Catalog)

\* The servers of a configuration that does not enable MCP are not read: none.
MCPTools(cfg) ==
  [k \in DOMAIN cfg.mcp |-> [name |-> cfg.mcp[k].name, risk |-> cfg.mcp[k].risk, of |-> "mcp"]]

NamesOf(tools) == {tools[k].name : k \in DOMAIN tools}

\* rename_for_namesake: the first number that is free.
AliasOf(existing, name) ==
  LET alias(k) == [name EXCEPT !.alias = Append(@, k)]
  IN  alias(Min({k \in 1 .. Cardinality(existing) + 1 : alias(k) \notin existing}))

\* Faulty: the namesake takes the place of the registered tool.
RegisterOver(registry, tool, strategy) ==
  LET others == SelectSeq(registry.tools, LAMBDA t : t.name # tool.name)
  IN  [registry EXCEPT !.tools = Append(others, tool)]

\* One round of register_mcp_tools, or of build_runtime_tool_registry: "raise" raises
\* itself, "override" lets ToolRegistry.register raise.
Register(registry, tool, strategy) ==
  LET existing == NamesOf(registry.tools)
  IN  CASE registry.raised -> registry
        [] ~registry.raised /\ tool.name \notin existing ->
             [registry EXCEPT !.tools = Append(@, tool)]
        [] ~registry.raised /\ tool.name \in existing /\ strategy = "skip" -> registry
        [] ~registry.raised /\ tool.name \in existing /\ strategy = "rename" ->
             [registry EXCEPT
                !.tools = Append(@, [tool EXCEPT !.name = AliasOf(existing, @)])]
        [] OTHER -> [registry EXCEPT !.raised = TRUE]

\* RuntimeOrchestrator.build.
Built(cfg) ==
  FoldLeft(LAMBDA registry, tool : Register(registry, tool, cfg.strategy),
           [tools |-> <<>>, raised |-> FALSE],
           BuiltinTools(cfg) \o MCPTools(cfg))

ToolNamed(tools, name) == CHOOSE t \in Range(tools) : t.name = name
-----------------------------------------------------------------------------
(* PluginHost and ExecutionPolicyGate *)

\* Tools are bound after the event handlers: a tool of the same name takes its place.
Bound(tools) ==
  [n \in EventHandlers \cup NamesOf(tools) |->
     IF n \in NamesOf(tools) THEN [source |-> "tool", risk |-> ToolNamed(tools, n).risk]
     ELSE [source |-> "event_handler", risk |-> "low"]]

Allows(gate, name, risk) == name \in gate.listed \/ risk # "high" \/ gate.allowHigh
=============================================================================
