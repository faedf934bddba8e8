CONSTANTS
  Tasks = {1, 2}
  Sheets = {1, 2, 3}
SPECIFICATION Spec
INVARIANTS DrawsOnOwn OwnersLive ClosedOnce MemoryExact
PROPERTIES GoneIsClosed
