CONSTANTS
  Locks = {58}
  Shifts = {42, 54}
  KeycmdSize = 4
  FifoSize = 3
  Reports <- MCReports
  scrnx = 60
  scrny = 60
  bxsize = 40
  bysize = 30
  Corner <- MCCorner
  Uses <- MCUses
SPECIFICATION Spec
INVARIANTS OneUnderWay InStep PointerFollows
PROPERTIES BytesGetThrough NothingLost
CHECK_DEADLOCK FALSE
