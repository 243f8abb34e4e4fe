CONSTANTS
  Size = 8
  Data = {a, b}
  Garbage = Garbage
  Nothing = Nothing
SPECIFICATION Spec
INVARIANT HeldIsWritten
PROPERTY IsFifo
