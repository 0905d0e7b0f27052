SPECIFICATION Spec
CONSTANTS
  pages_total = 4
  PAGE_SIZE = 4
  Sizes <- MCSizes
  DescPerPage = 2
  Lens = {2, 3}
  MaxCut = 2
  IdleSwitched = FALSE
INVARIANTS
  HeldInUse
  ListsSound
  ObjectsSound
  LossesBounded
PROPERTIES
  HeapSpec
  PageSpec
CHECK_DEADLOCK FALSE
