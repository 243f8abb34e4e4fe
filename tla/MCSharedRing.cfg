CONSTANTS
  Size = 4
  MaxChars = 9
  MaxSend = 3
  MaxFrame = 2
SPECIFICATION Spec
INVARIANT InOrder
CHECK_DEADLOCK FALSE
