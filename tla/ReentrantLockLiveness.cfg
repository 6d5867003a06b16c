SPECIFICATION FairSpec
CONSTANTS
  NULL = NULL
  p1 = p1
  p2 = p2
  p3 = p3
  PCBs <- ThreePCBs
  MAX_PROCESS_COUNT = 4
  KernelPages = 0
  Locks <- OneLock
  MaxDepth = 1
  Preemptible = FALSE
PROPERTY EveryWaiterIsWoken
