SPECIFICATION Spec
CONSTANTS
  NTOA_BUFFER = 8
  FTOA_BUFFER = 10
  FLOAT_PRECISION = 2
  POWERS = 2
  G_MIN = 82
  G_MAX = 81920
  CHAR_BITS = 2
  SHORT_BITS = 4
  INT_BITS = 8
  LONG_BITS = 12
  CHAR_SIGNED = TRUE
  MANTISSA = 12
  UNIT = 8192
  HIGH_POWERS <- MCHighPowers
  NUL <- MCNul
  NULLPTR <- MCNull
  VGA_WIDTH = 3
  VGA_HEIGHT = 2
  FIFO_SIZE = 2
  Platforms <- MCPlatforms
  Programs <- MCPrograms
INVARIANTS
  ScreenShowsText
  WireFollowsText
PROPERTY AllIsSent
CHECK_DEADLOCK FALSE
