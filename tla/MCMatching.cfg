SPECIFICATION Spec
CONSTANTS
  Classes <- MCClasses
  Origin = 100
  MaxEdges = 5
  MaxRich = 2
INVARIANTS
  CastIsSound
  CastIsComplete
  HintOnlyHelps
  CatchIsRight
CHECK_DEADLOCK FALSE
