SPECIFICATION Spec
CONSTANTS
  ScreenWidth = 2
  ScreenHigh = 2
  MonitorSize = 7
  Tab = 1
  ByteSize = 3
  WordSize = 16
  Letters = {"x"}
  Blank = " "
  Texts <- ShortTexts
  Messages <- ShortMessages
  Colors = {"WHITE", "RED"}
CONSTRAINT Followed
PROPERTY ImplementsTerminal
