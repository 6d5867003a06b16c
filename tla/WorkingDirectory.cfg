SPECIFICATION Spec
CONSTANTS
  Inodes <- ThreeInodes
  Names <- TwoNames
  Inputs <- FourCharacters
  HeapBytes <- MayFollow
  StackBytes <- MayFollow
  MaxLength = 6
INVARIANTS
  PathLeadsThere
  OneMeaning
PROPERTY RemovesName
