SPECIFICATION Spec
CONSTANTS
  InodeCount = 4
  BlockCount = 3
  BlockSize = 4
  EntrySize = 2
  INODE_DIRECT_BLOCKS = 2
  a = a
  b = b
  c = c
  Names <- ThreeNames
  Texts <- TwoTexts
  MaxDepth = 2
  Removable = {}
  Rebooting = FALSE
  Interruptible = {"create", "append", "boot"}
  Overrun = FALSE
INVARIANTS
  NothingLost
  CatPrintsText
PROPERTY ImplementsFileTree
