SPECIFICATION Spec
CONSTANTS
  Harnesses = {"codex"}
  Targets = {}
  MaxLog = 3
  MaxGrown = 2
  KeyModulus = 3
  Kinds = {"prompt", "text", "turn", "abort"}
  Header <- MCHeader
  NextRecords <- MCNextRecords
INVARIANTS
  AbortedRunsCancelled
CHECK_DEADLOCK FALSE
