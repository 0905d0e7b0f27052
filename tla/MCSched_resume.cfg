SPECIFICATION FairSpec
CONSTANTS
  Page = {p1, p2}
  NULL = NULL
  Boot = Boot
  NR_TASKS = 2
  TickWindows = {}
  TaskMayCreate = FALSE
PROPERTIES
  PreemptedResumes
