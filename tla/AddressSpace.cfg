SPECIFICATION Spec
CONSTANTS
  p1 = p1
  p2 = p2
  Processes <- TwoProcesses
  Regions = {1, 2}
  PageIndices = {1, 2}
  Frames = {1, 2, 3, 4, 5, 6}
  Values = {0, 1}
  Zero = 0
SYMMETRY Symmetry
INVARIANTS
  FramesPrivate
  FramesAccounted
  ReachableByExit
PROPERTIES
  ImplementsPrivateMemory
  OnlyWritesAreSeen
