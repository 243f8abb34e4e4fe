CONSTANTS
  MaxStarts = 2
  MaxPiece = 2
  MaxMessage = 3
  Labels = {answer}
  More = more
  RingSize = 5
  FrameSize = 2
  Chunks = {2}
SPECIFICATION FairSpec
INVARIANTS Inv ContextsDestroyed WholeMessages EndsWithSample
PROPERTIES FinishedIsDestroyed ClosedIsFreed AudioGoesOut
CHECK_DEADLOCK FALSE
