SPECIFICATION Spec
CONSTANTS
  InodeCount = 4
  BlockCount = 4
  BlockSize = 4
  EntrySize = 2
  INODE_DIRECT_BLOCKS = 2
  a = a
  b = b
  c = c
  Names <- TwoNames
  Texts <- TwoTexts
  MaxDepth = 2
  Removable <- TwoNames
  Rebooting = FALSE
  Interruptible = {}
  Overrun = FALSE
PROPERTY CreateAppends
