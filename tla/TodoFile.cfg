\* Two processes whose agents share a working directory and may die in any call.
SPECIFICATION Spec
CONSTANTS
  Writers = {w1, w2}
  Lists <- AnyList
  MaxWrites = 3
INVARIANTS LastSaveHolds ShapeKept
