SPECIFICATION LivePlayerSpec
CONSTANTS
  NSeg = 3
  Window = 2
  Cap = 8
  HeaderBytes = 1
  SegBytes <- MCSegBytes
  PipeRoom = 1
  InitialBuffer = 2
  MaxErrors = 2
  Verbose = TRUE
INVARIANTS Sound
PROPERTIES ImplementsDelivery ImplementsLife StreamStops QueuedIsTaken
CHECK_DEADLOCK FALSE
