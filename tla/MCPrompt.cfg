CONSTANTS
  Cols = 5
  Lines = 2
  FifoSize = 3
  Keys = {"a"}
  AppData = {"t"}
  Texts <- MCTexts
SPECIFICATION PromptSpec
INVARIANTS LineIsCmdline OneBlink OneCursor
CHECK_DEADLOCK FALSE
