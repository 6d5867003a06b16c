SPECIFICATION Spec
CONSTANTS
  InodeCount = 4
  BlockCount = 3
  BlockSize = 4
  EntrySize = 2
  INODE_DIRECT_BLOCKS = 2
  a = a
  b = b
  c = c
  Names <- TwoNames
  Texts <- OneText
  MaxDepth = 2
  Removable <- TwoNames
  Rebooting = TRUE
  Interruptible = {}
  Overrun = FALSE
INVARIANTS
  BlocksPrivate
  NamesStandForInodes
