SPECIFICATION Spec
CONSTANTS
  a = a
  b = b
  Callers = {a, b}
  Readers = {a}
  AutoStart = {a, b}
  Daemons = {1, 2, 3, 4}
  Contents <- MCContents
  Refusals <- MCRefusals
  Sessions = {1}
  RecentLimits = {2}
  PageLimit = 2
  ScanLimit = 4
  ImplicitLimit = 1
  MaxLimit = 100
  Exponential = {1}
  MaxFaults = 1
INVARIANTS
  ReadsAreSnapshots
PROPERTIES
  EveryCallerServed
