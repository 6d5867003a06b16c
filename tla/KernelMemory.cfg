SPECIFICATION Spec
CONSTANTS
  MAX_PAGE_COUNT = 9
  FirstPage = 2
  KernelPages = 6
  PageSize = 4
  MemoryMap <- SmallMap
  HeapPages = 2
  Order = 3
  BUDDY_BLOCKS = 8
  Sizes = {1, 2, 3, 5}
INVARIANTS
  MemoryPartitioned
  CountersExact
  BlocksTileHeap
PROPERTIES
  FreeMergesAll
  ImplementsHeap
