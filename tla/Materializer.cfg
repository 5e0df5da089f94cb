SPECIFICATION EntitySpec
CONSTANTS
  Observed <- MCObserved
  MaxSeen = 3
INVARIANTS
  OrderFree
PROPERTIES
  LateNeverReverts
CHECK_DEADLOCK FALSE
