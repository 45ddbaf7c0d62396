SPECIFICATION Spec
CONSTANTS
  WORD = 256
  Regions <- MCRegions
  Requests <- MCRequests
INVARIANTS
  HeapInv
  NothingLost
  LiveUndisturbed
PROPERTIES
  FreedIsReusable
  HeadersStay
  AllocatorSpec
