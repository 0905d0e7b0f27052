SPECIFICATION Spec
CONSTANTS
  Keys <- MCKeys
  Repeating <- MCRepeating
  OtherBytes = {250}
  WireMax = 2
ACTION_CONSTRAINT PauseOnce
VIEW View
INVARIANTS
  TypeOK
  HeldExact
  LocksExact
PROPERTIES
  TextRight
