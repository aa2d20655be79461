------------------------- MODULE MCProviderRequest -------------------------
(* Instances of ProviderRequest: configurations, and texts made of tags and their parts. *)
EXTENDS ProviderRequest

E(provider, effort, key) ==
  [provider |-> provider, model |-> "m", effort |-> effort, apiKey |-> key]

None == [profiles |-> <<>>]

NoDefinitions == [profiles |-> <<>>, models |-> NoModels]

\* Shortcut variables: one model over both wire formats.
Shortcut ==
  [shortcut |-> [profiles |-> <<Entry("agent", <<E("openai", "", "k1"), E("anthropic", "", "k1")>>, 2)>>],
   legacy |-> None, json |-> NoDefinitions, file |-> NoDefinitions, runtime |-> NoDefinitions]

\* Every source says something of the profiles, under both names; two efforts of one model.
Layered ==
  [shortcut |-> [profiles |-> <<Entry("agent", <<E("openai", "", "k1")>>, 2)>>],
   legacy |-> [profiles |-> <<Entry("agent_model", <<E("openai", "low", "k1")>>, 2),
                              Entry("summary_model", <<E("anthropic", "low", "k1")>>, 2)>>],
   json |-> [profiles |-> <<Entry("agent", <<"fast">>, 2), Entry("agent_model", <<"slow", "fast">>, 2)>>,
             models |-> ("fast" :> E("anthropic", "", "k1")) @@ ("slow" :> E("openai", "", "k2"))],
   file |-> [profiles |-> <<>>, models |-> "slow" :> E("anthropic", "high", "k2")],
   runtime |-> [profiles |-> <<Entry("summary", <<"fast", "slow">>, 1)>>,
                models |-> "fast" :> E("anthropic", "low", "k3")]]

\* A source that names a model it cannot see: the process does not start.
Dangling == [Layered EXCEPT !.json.models = NoModels]

SomeConfigs == {Shortcut, Layered, Dangling}

Bits == {<<"x">>, <<"<">>, <<"<", "t">>, OpenTag, CloseTag}

\* Texts of up to three bits.
Texts == {FlattenSeq(bits) : bits \in UNION {[1 .. n -> Bits] : n \in 0 .. 3}}
=============================================================================
