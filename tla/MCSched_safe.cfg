SPECIFICATION Spec
CONSTANTS
  Page = {p1, p2, p3, p4}
  NULL = NULL
  Boot = Boot
  NR_TASKS = 3
  TickWindows = {"exit", "registers"}
  TaskMayCreate = TRUE
CONSTRAINT FewGarbled
SYMMETRY PageSymmetry
INVARIANTS
  TypeOK
  NoUnintendedCode
  OwnContext
  LiveStack
  CurrentLive
CHECK_DEADLOCK FALSE
