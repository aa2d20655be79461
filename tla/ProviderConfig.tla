--------------------------- MODULE ProviderConfig ---------------------------
(***************************************************************************)
(* load_provider_settings_from_env (providers/config.py): five sources     *)
(* that bind profiles to endpoints, the later over the earlier, and the    *)
(* registry of clients (providers/manager.py) behind them.                 *)
(*                                                                         *)
(* A source is the entries of its JSON object in their order; the first    *)
(* two spell endpoints out, the others name defined models.  Well-formed   *)
(* values only: what json.loads or a type check refuses raises as an       *)
(* unknown model does.                                                     *)
(***************************************************************************)
EXTENDS Integers, SequencesExt

\* dict.update, and the assignment of one key.
Updated(f, g) == [x \in DOMAIN f \cup DOMAIN g |-> IF x \in DOMAIN g THEN g[x] ELSE f[x]]

Assigned(f, key, value) == [x \in DOMAIN f \cup {key} |-> IF x = key THEN value ELSE f[x]]

\* ProviderEndpoint, less the fields that are part of its key as model is; "openai" stands for
\* both names of its wire format.
Endpoint ==
  [provider : {"openai", "anthropic"}, model : STRING,
   effort : {"", "low", "medium", "high", "xhigh"}, apiKey : STRING]

\* profiles are entries <<name, endpoints or model ids, max_attempts>>, models defines ids.
Entry(name, list, attempts) == [name |-> name, list |-> list, attempts |-> attempts]

Sources == <<"shortcut", "legacy", "json", "file", "runtime">>

NoModels == [m \in {} |-> m]

\* resolve_profile_name
Resolved(name) ==
  CASE name = "agent_model" -> "agent"
    [] name = "summary_model" -> "summary"
    [] OTHER -> name

\* What the model ids of a source mean: the file's definitions update the JSON's, and only
\* the runtime configuration sees its own.
ModelsFor(config, source) ==
  LET env == Updated(config.json.models, config.file.models)
  IN  IF source = "runtime" THEN Updated(env, config.runtime.models) ELSE env

ByName(source) == source \in {"json", "file", "runtime"}

\* What the readers of the sources make of what they accept.
WellFormed(config) ==
  /\ \A k \in DOMAIN Sources :
       config[Sources[k]].profiles \in
         Seq([name : STRING, list : IF ByName(Sources[k]) THEN Seq(STRING) ELSE Seq(Endpoint),
              attempts : Nat])
  /\ \A models \in {config.json.models, config.file.models, config.runtime.models} :
       \A id \in DOMAIN models : models[id] \in Endpoint

\* _binding_from_model_definitions raises on an unknown model and on an empty list.
Refused(config, source) ==
  ByName(source) /\
    \E k \in DOMAIN config[source].profiles :
      LET list == config[source].profiles[k].list
      IN  list = <<>> \/ ~(Range(list) \subseteq DOMAIN ModelsFor(config, source))

Binding(config, source, entry) ==
  [endpoints |-> IF ByName(source)
                 THEN [e \in DOMAIN entry.list |-> ModelsFor(config, source)[entry.list[e]]]
                 ELSE entry.list,
   attempts |-> IF entry.attempts < 1 THEN 1 ELSE entry.attempts]

\* An entry without endpoints binds nothing in the first two sources.
Bound(config, bindings, source) ==
  FoldLeft(LAMBDA acc, entry :
             IF entry.list = <<>> THEN acc
             ELSE Assigned(acc, Resolved(entry.name), Binding(config, source, entry)),
           bindings, config[source].profiles)

\* The process does not start when a source is refused.
Loads(config) == \A k \in DOMAIN Sources : ~Refused(config, Sources[k])

Settings(config) ==
  FoldLeft(LAMBDA acc, source : Bound(config, acc, source), [p \in {} |-> p], Sources)

\* Faulty: the key of a time when endpoints had no thinking effort.
EndpointKeyWithoutEffort(endpoint) ==
  [provider |-> endpoint.provider, model |-> endpoint.model]

\* ProviderEndpoint.key leaves the API key out.
EndpointKey(endpoint) ==
  [provider |-> endpoint.provider, model |-> endpoint.model, effort |-> endpoint.effort]

\* get_client: a client is made once for a key, with the endpoint that asked first.
WithClient(clients, endpoint) ==
  LET key == EndpointKey(endpoint)
  IN  IF key \in DOMAIN clients THEN clients ELSE Assigned(clients, key, endpoint)
=============================================================================
