CONSTANTS
  Cap = 4
  Sizes = {1, 2, 3}
  MaxBytes = 8
SPECIFICATION Spec
INVARIANTS UnreadIntact NeverLaps ReadsPublished
PROPERTY ImplementsChannel
