CONSTANTS
  MaxItems = 3
  FrameSize = 2
  Lengths = {1, 3}
  MaxAudio = 4
  MaxStarts = 3
  MaxPending = 2
SPECIFICATION FairSpec
INVARIANTS Inv OneWrite  CloseGivesBack
PROPERTIES CloseFrees
CHECK_DEADLOCK FALSE
