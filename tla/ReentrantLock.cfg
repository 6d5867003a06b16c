SPECIFICATION Spec
CONSTANTS
  NULL = NULL
  p1 = p1
  p2 = p2
  p3 = p3
  PCBs <- ThreePCBs
  MAX_PROCESS_COUNT = 4
  KernelPages = 0
  Locks <- FsThenDisk
  MaxDepth = 2
  Preemptible = FALSE
SYMMETRY Symmetry
INVARIANTS
  MutualExclusion
  RecordAgreesWithCallers
  BlockedWhereItWaits
  NoStrandedWaiter
  KernelKeepsRunning
