CONSTANTS
  Data = {256, 257}
  size = 3
SPECIFICATION RaceSpec
INVARIANTS Stored
