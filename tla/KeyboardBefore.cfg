SPECIFICATION Spec
CONSTANTS
  Keys <- FiveKeys
  LineLength = 2
  Before = "LF"
  MaxLength = 3
  MaxPressed = 2
  Patient = TRUE
INVARIANT OnlyEnterEndsReading
