SPECIFICATION Spec
CONSTANTS
  NSeg = 5
  PerSegment = 1
  Window = 4
  Flaky = {}
  Breaks = {1}
  MaxPackets = 8
  BufferPackets = 8
  MaxSegments = 2
  Remember = 3
  PipeRoom = 1
  MaxFailures = 1
INVARIANT SentOnce
CHECK_DEADLOCK FALSE
