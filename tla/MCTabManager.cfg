SPECIFICATION LivePlayerSpec
CONSTANTS
  MaxTabs = 3
  Reserved = 2
  MaxThreads = 2
  MaxWindows = 4
  Verbose = TRUE
INVARIANTS Sound
PROPERTIES AutoStopHitsOwner UiReturns PlayerExitFreesTab
CHECK_DEADLOCK FALSE
