SPECIFICATION Spec
CONSTANTS
  MaxTabs = 2
  Reserved = 2
  MaxThreads = 2
  MaxWindows = 2
  Verbose = FALSE
INVARIANTS NotTerminated
CHECK_DEADLOCK FALSE
