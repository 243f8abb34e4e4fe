CONSTANTS
  MaxChain = 2
  MaxEngines = 3
  MaxPending = 2
  MaxResults = 2
SPECIFICATION FairSpec
INVARIANT TableIsTrue
PROPERTY ScreenGoesOn
CHECK_DEADLOCK FALSE
