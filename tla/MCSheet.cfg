CONSTANTS
  MAX_SHEETS = 4
  xsize = 8
  ysize = 2
  Windows <- MCWindows
  Corners <- MCCorners
  MouseAt <- MCMouseAt
  Strokes <- MCStrokes
SPECIFICATION SheetSpec
INVARIANTS SheetsAgree
PROPERTIES ImplementsStack
