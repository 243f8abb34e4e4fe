CONSTANTS
  MaxItems = 2
  MaxAudio = 3
  MaxSessions = 2
  MaxPending = 1
SPECIFICATION FairSpec
INVARIANTS Inv EndedReleasesAll AudioFlows FirstTextIsClean
PROPERTIES IsListener DataEndEnds CloseFrees
CHECK_DEADLOCK FALSE
