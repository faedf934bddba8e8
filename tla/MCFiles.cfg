CONSTANTS
  CYLS = 9
  Disks <- MCDisks
  Names <- MCNames
  Handles = 2
  Sector = 8
  PageSize = 16
  NameLen = 3
  ExtLen = 2
  Letters = {"a", "B"}
  Upper <- MCUpper
  Amounts <- MCAmounts
  MaxPages = 8
SPECIFICATION FilesSpec
INVARIANTS HeapExact ReadInOrder SectorsArrive
PROPERTIES BootEnds
