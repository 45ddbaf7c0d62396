SPECIFICATION Spec
CONSTANTS
  NTOA_BUFFER = 8
  FTOA_BUFFER = 10
  FLOAT_PRECISION = 2
  POWERS = 2
  G_MIN = 82
  G_MAX = 81920
  CHAR_BITS = 2
  SHORT_BITS = 4
  INT_BITS = 8
  LONG_BITS = 12
  CHAR_SIGNED = TRUE
  MANTISSA = 12
  UNIT = 8192
  HIGH_POWERS <- MCHighPowers
  NUL <- MCNul
  ULONG_BITS = 12
  SIGNED_CHAR = TRUE
  BYTE = 4
  WORD_LEN = 2
  MUL = 11
  SHIFT = 3
  FNV_PRIME = 5
  ENV_HEAPLEN <- MCHeapLen
  HEAPLEN_DEFAULT = 99
  VC_MEM_BASE <- MCVcMemBase
  HEAPEND_DEFAULT = 98
  Questions <- MCDoubles
INVARIANT RolloverHandled
CHECK_DEADLOCK FALSE
