CONSTANTS
  MaxStarts = 2
  MaxPiece = 2
  MaxMessage = 3
  Labels = {"connection_started", "session_started", "event"}
  More = more
  MaxTexts = 2
SPECIFICATION FairSpec
INVARIANT Inv
PROPERTIES TextAfterHandshake WholeUnlessReused FinishedIsDestroyed TextGoesOut
CHECK_DEADLOCK FALSE
