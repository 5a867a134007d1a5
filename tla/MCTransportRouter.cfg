SPECIFICATION Spec
CONSTANTS
  NSeg = 5
  PerSegment = 1
  Window = 4
  Flaky = {3}
  Breaks = {}
  MaxPackets = 8
  BufferPackets = 8
  MaxSegments = 2
  Remember = 3
  PipeRoom = 1
  MaxFailures = 1
INVARIANTS Sound OvertakesOnlyRefetched FramesAgree
PROPERTY NoDropWhileRouting
CHECK_DEADLOCK FALSE
