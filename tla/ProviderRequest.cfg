\* Streamed calls with or without tools, over endpoints of both wire formats.
SPECIFICATION Spec
CONSTANTS
  Configs <- SomeConfigs
  Profiles = {"agent", "summary"}
  MaxCalls = 2
  Listening = TRUE
  Messages <- Texts
INVARIANTS
  ShownIsVisible
  ShownIsAnswer
  RequestsAsConfigured
PROPERTY
  RetriesRunOut
