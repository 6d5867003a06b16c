SPECIFICATION Spec
CONSTANTS
  MAX_PAGE_COUNT = 12
  FirstPage = 2
  KernelPages = 6
  PageSize = 4
  HeapPages = 2
  MemoryMap <- AlignedMap
INVARIANT BitZeroSaysFree
