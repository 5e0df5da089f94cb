SPECIFICATION FairSpec
CONSTANTS
  Memories = {m1, m2}
  Failures = {"append", "flush", "project", "repair", "rebuild", "kill", "power"}
  MaxFailures = 2
  MaxRecords = 4
  MaxCollected = 1
  m1 = m1
  m2 = m2
INVARIANTS
  IInv
  ReviewedInOrder
  DecisionsStand
PROPERTIES
  Reviewed
CHECK_DEADLOCK FALSE
