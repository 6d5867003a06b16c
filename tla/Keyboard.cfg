SPECIFICATION Spec
CONSTANTS
  Keys <- FiveKeys
  LineLength = 2
  Before = ""
  MaxLength = 3
  MaxPressed = 2
  Patient = TRUE
INVARIANTS
  KeysTracked
  CharacterIsNew
  LineAsTyped
