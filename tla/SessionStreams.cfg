SPECIFICATION FairSpec
CONSTANTS
  r1 = r1
  r2 = r2
  r3 = r3
  r4 = r4
  e1 = e1
  e2 = e2
  e3 = e3
  c1 = c1
  Requests = {r1, r2, r3, r4}
  Events = {e1, e2, e3}
  Conversations = {c1}
  EventOf <- OneTwice
  ConvOf <- OneConversation
  TurnChars <- MixedTurns
  HistoryLimit = 6
  RecentBudget = 4
  MinRecent = 2
  NoReply = NoReply
  Workers = {w1}
  Streams = {r1, r2, r3}
  Faults = {"run", "summary", "crash"}
  NoWorker = NoWorker
  NoRequest = NoRequest
INVARIANT FailuresHaveCauses
PROPERTIES ContextComplete EveryRequestSettles
