SPECIFICATION FairSpec
CONSTANTS
  NL = NL
  CR = CR
  Char = Char
  MaxLine = 1
  MaxOld = 2
  MaxBytes = 3
  MaxFailures = 1
INVARIANTS
  IInv
  DeliversExactly
  CapturesAll
PROPERTIES
  CatchesUp
CHECK_DEADLOCK FALSE
