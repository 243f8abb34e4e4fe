CONSTANTS
  MaxItems = 2
  MaxAudio = 3
  MaxSessions = 2
  MaxPending = 2
SPECIFICATION Spec
INVARIANTS StopWithoutConnection
CHECK_DEADLOCK FALSE
