\* Two processes that open a new file, die, open it again and trim it.
SPECIFICATION Spec
CONSTANTS
  Processes = {p1, p2}
  Limit = 2
  Words = {1, 2}
  Old = 0
  MaxStarts = 4
  MaxExchanges = 3
INVARIANTS
  StartsAreSafe
  IndexFollowsTable
