SPECIFICATION Spec
CONSTANTS
  Order = 3
  BUDDY_BLOCKS = 10
  Sizes = {1, 2, 3, 5}
INVARIANT FreedHeapIsOneBlock
