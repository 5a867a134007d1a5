SPECIFICATION Spec
CONSTANTS
  NSeg = 2
  PerSegment = 2
  Window = 2
  Flaky = {1}
  Breaks = {2}
  MaxPackets = 8
  BufferPackets = 8
  MaxSegments = 2
  Remember = 2
  PipeRoom = 1
  MaxFailures = 1
INVARIANT NotTerminated
CHECK_DEADLOCK FALSE
