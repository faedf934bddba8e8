CONSTANTS
  Sector = 8
  NameLen = 3
  ExtLen = 2
  Letters = {"a", "B"}
  Upper <- MCUpper
  Plans <- MCPlans
  Top = 16
  Radix = 4
  One = 8
  Grain = 2
  Contexts = {"a"}
  Models <- MCModels
  Life = 2
  Bits = 4
  Alphabet = {5, 12}
  GroupMask = 1
  Align = 4
  osiz = 7
  Lengths = {2, 3}
  MaxNumber = 1100
  Columns = 3
  Rows = 4
  Ascii = {65}
  Kanji <- MCKanji
  MaxChars = 3
  Scale = 1024
  Lines <- MCLines
  IntBits = 16
  Numerals = {3, 5}
  Depth = 2
  Width = 3
  Height = 2
  Texts <- MCTexts
  Tabs = {2, 4}
  Speeds = {1, 2}
  MaxSkip = 4
  start = 0
  end = 3
  Floating = "55aa55aa"
  Segments <- MCSegments
  Gates <- MCGates
SPECIFICATION Spec
INVARIANTS NameFindsFile Restored RangeOK TextRestored ContextsFound ReadsAsWritten LineStraight AsInC FileInWindow MemoryMeasured DescribesWhatWasAsked
CHECK_DEADLOCK FALSE
