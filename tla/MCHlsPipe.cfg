SPECIFICATION FairSpec
CONSTANTS
  NSeg = 3
  Window = 2
  Targets = {1, 2}
  MaxCap = 2
  Few = 2
  PipeRoom = 1
  MaxErrors = 1
  MaxAttempts = 2
  MaxEmptyWaits = 1
INVARIANTS Sound OvertakesOnlySkipped DrainedAtEnd
PROPERTIES PushesBounded StreamStops QueuedIsTaken
CHECK_DEADLOCK FALSE
