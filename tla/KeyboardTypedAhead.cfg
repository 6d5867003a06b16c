SPECIFICATION FairSpec
CONSTANTS
  Keys <- LineKeys
  LineLength = 2
  Before = ""
  MaxLength = 3
  MaxPressed = 1
  Patient = FALSE
PROPERTY EnterEndsReading
