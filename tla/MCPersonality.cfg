SPECIFICATION Spec
CONSTANTS
  Functions <- MCFunctions
  TypeTable <- MCTypeTable
  Thrown = {"a", "b"}
  Matches <- MCMatches
  Blocks = {1, 2, 3}
  NONE = NONE
  MaxCalls = 3
  MaxFrames = 4
INVARIANTS
  CacheIsFresh
PROPERTIES
  HandlerIsInnermost
  CleanupsOnce
  SpecKept
CHECK_DEADLOCK FALSE
