SPECIFICATION Spec
CONSTANTS
  Arena <- MCArena
  ALIGN = 2
  Sizes <- MCSizes
  HEADER = 1
  BAD_ALLOC = 1
  Thrown <- MCThrown
  OBJ_SIZE = 2
  NUM_OBJS = 2
  Garbage <- MCGarbage
  MaxCalls = 4
  MaxExceptions = 3
INVARIANTS
  
  NothingLeaks
  PoolServes
PROPERTIES
  AllocatorSpec
CHECK_DEADLOCK FALSE
