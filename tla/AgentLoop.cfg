\* A streamed run with a user to ask: two steps of at most two tool calls each.
SPECIFICATION FairSpec
CONSTANTS
  Tools = {"read_file", "write_file"}
  HighRisk = {"write_file"}
  Client <- Mixed
  MaxAttempts = 2
  Streaming = TRUE
  Asking = TRUE
  MaxParts = 2
  MaxCalls = 2
  MaxSteps = 2
  MaxRecent = 3
INVARIANTS
  
  
  TranscriptProtocol
  ToolsGated
  EventsTellTranscript
  AnswerIsShown
  FailoverInOrder
PROPERTY RunEnds
