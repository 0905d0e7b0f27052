SPECIFICATION Spec
CONSTANTS
  pages_total = 7
  StrayFrees = {8}
INVARIANTS
  UsedCounts
  FailsOnlyHalfFull
