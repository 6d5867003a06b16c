SPECIFICATION FairSpec
CONSTANTS
  NULL = NULL
  p1 = p1
  p2 = p2
  p3 = p3
  p4 = p4
  PCBs <- ThreePCBs
  MAX_PROCESS_COUNT = 3
  KernelPages = 5
  BootProcesses = 1
PROPERTY EveryReadyProcessRuns
