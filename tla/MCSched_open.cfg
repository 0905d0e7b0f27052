SPECIFICATION Spec
CONSTANTS
  Page = {p1, p2, p3}
  NULL = NULL
  Boot = Boot
  NR_TASKS = 2
  TickWindows = {"boot", "switch", "exit", "handler", "registers"}
  TaskMayCreate = FALSE
SYMMETRY PageSymmetry
INVARIANTS
  CurrentOwnsCpu
  TableSound
  ReadyIsBuilt
PROPERTIES
  NoOverwrite
CHECK_DEADLOCK FALSE
