\* One process that opens a file with turns of a version before turns_fts.
SPECIFICATION Spec
CONSTANTS
  Processes = {p1}
  Limit = 2
  Words = {1, 2}
  Old = 2
  MaxStarts = 1
  MaxExchanges = 3
INVARIANT AppendsGoThrough
