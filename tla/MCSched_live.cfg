SPECIFICATION FairSpec
CONSTANTS
  Page = {p1, p2, p3}
  NULL = NULL
  Boot = Boot
  NR_TASKS = 3
  TickWindows = {}
  TaskMayCreate = FALSE
PROPERTIES
  ReadyDispatched
  IdleRunsAgain
  TaskLifeSpec
