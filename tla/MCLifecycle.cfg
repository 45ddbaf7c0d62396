SPECIFICATION Spec
CONSTANTS
  g1 = g1
  g2 = g2
  s1 = s1
  s2 = s2
  f1 = f1
  Globals <- MCGlobals
  Statics <- MCStatics
  Functions <- MCFunctions
  MaxDtors = 3
INVARIANTS
  GuardsProtect
  BuiltFirstDiesLast
  KeptAreDestroyed
PROPERTIES
  OneLife
  ShutdownEnds
CHECK_DEADLOCK FALSE
