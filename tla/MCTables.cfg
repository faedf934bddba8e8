CONSTANTS
  MAX_TIMER = 4
  Fifos = {"fifo1", "fifo2"}
  Radix = 16
  Delays = {0, 1, 3}
  Priorities = {1, 2}
  MaxCount = 4
  MEMMAN_FREES = 3
  Areas <- MCAreas
  Requests = {1, 3}
  Requests4k = {0, 3}
  Page = 2
  MaxEmpty = 1
SPECIFICATION TablesSpec
INVARIANTS ListOK TableOK
PROPERTIES ImplementsClock ImplementsPool
