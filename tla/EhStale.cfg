SPECIFICATION Spec
CONSTANTS
  e1 = e1
  e2 = e2
  f1 = f1
  NULL = NULL
  Primary <- MCPrimary
  Foreign <- MCForeign
  MaxDepth = 4
  MaxExcess = 1
  NestedRethrow = FALSE
INVARIANTS
  DestroyedWhenHandled
SYMMETRY MCSymmetry
CHECK_DEADLOCK FALSE
