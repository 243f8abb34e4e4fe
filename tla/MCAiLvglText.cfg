CONSTANTS
  MaxChain = 2
  MaxEngines = 3
  MaxPending = 2
  MaxResults = 2
SPECIFICATION Spec
INVARIANT TextIsProtected
CHECK_DEADLOCK FALSE
