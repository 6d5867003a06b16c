SPECIFICATION Spec
CONSTANTS
  ScreenWidth = 2
  ScreenHigh = 2
  MonitorSize = 7
  Tab = 1
  ByteSize = 3
  WordSize = 16
  Letters = {"x"}
  Blank = " "
  Texts <- Echoes
  Messages <- ShortMessages
  Colors = {"WHITE"}
INVARIANT MessageBeginsRow
