CONSTANTS
  MaxItems = 3
  FrameSize = 2
  Lengths = {1, 2}
  MaxAudio = 3
  MaxStarts = 1
  MaxPending = 2
SPECIFICATION Spec
INVARIANTS AudioNeverWaits
CHECK_DEADLOCK FALSE
