SPECIFICATION FairSpec
CONSTANTS
  NSeg = 2
  Window = 2
  Cap = 8
  HeaderBytes = 1
  SegBytes <- MCSegBytes
  PipeRoom = 1
  InitialBuffer = 1
  MaxErrors = 1
  Verbose = FALSE
PROPERTY StopReturns
CHECK_DEADLOCK FALSE
