CONSTANTS
  Data = {256, 257}
  size = 3
SPECIFICATION Spec
INVARIANTS FifoOK
PROPERTIES ImplementsQueue Drains
