SPECIFICATION Spec
CONSTANTS
  Inodes <- ThreeInodes
  Names <- TwoNames
  Inputs <- FiveCharacters
  HeapBytes <- Nothing
  StackBytes <- Nothing
  MaxLength = 7
PROPERTY RemovesWhatItNames
