CONSTANTS
  MaxQueue = 2
  MaxSend = 1
  MaxStarts = 2
  MaxCalls = 3
SPECIFICATION FairSpec
INVARIANTS AudioInSession AudioIsAsked NoLeak
PROPERTIES CallsReturn QueuedIsSent
CHECK_DEADLOCK FALSE
