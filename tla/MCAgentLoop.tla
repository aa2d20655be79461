---------------------------- MODULE MCAgentLoop ----------------------------
(* Instances of AgentLoop, with what is made of its transcript and its events. *)
EXTENDS WireFormat, Terminals

\* The endpoints of the agent profile: one that streams, one that does only without tools.
Mixed == <<"anthropic", "openai">>
=============================================================================
