SPECIFICATION Spec
CONSTANTS
  NULL = NULL
  p1 = p1
  p2 = p2
  p3 = p3
  p4 = p4
  PCBs <- FourPCBs
  MAX_PROCESS_COUNT = 4
  KernelPages = 7
  BootProcesses = 1
SYMMETRY Symmetry4
INVARIANT WaitFindsRunnableChildren
