SPECIFICATION FairSpec
CONSTANTS
  master_mask = 252
  Lines = {0, 1}
  Faults = {0, 14}
  MaxDepth = 3
INVARIANTS
  IretSound
  SavedExact
  ReportExact
PROPERTY ClockServed
