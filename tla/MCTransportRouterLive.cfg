SPECIFICATION FairSpec
CONSTANTS
  NSeg = 2
  PerSegment = 2
  Window = 2
  Flaky = {1}
  Breaks = {2}
  MaxPackets = 8
  BufferPackets = 8
  MaxSegments = 2
  Remember = 2
  PipeRoom = 1
  MaxFailures = 1
PROPERTIES StreamStops
CHECK_DEADLOCK FALSE
