SPECIFICATION Spec
CONSTANTS
  PAGE = 2
  MIB = 8
  BIG = 16
  ENTRIES = 8
  HDR = 1
  KernelStart = 8
  KernelEnd = 21
  BootPages = 2
  Tables <- MCTables
  ENTRYSIZE = 24
  DEVICES = 112
  VCMEMORY = 100
  Firmwares <- MCFirmwares
INVARIANTS
  HeapIsFreeRam
  HeapMapped
  KernelStaysMapped
  FitForHeap
CHECK_DEADLOCK FALSE
