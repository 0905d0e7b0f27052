SPECIFICATION Spec
CONSTANTS
  Word = 16
  PageSize = 2
  VALID_MEMORY_FROM = 4
  Capacity = 2
  MapRoom = 5
  Entries <- MCEntries
  Image <- MCImage
  MaxEntries = 4
INVARIANTS
  ScanExact
  UsableOnly
  FreeAccepts
CHECK_DEADLOCK FALSE
