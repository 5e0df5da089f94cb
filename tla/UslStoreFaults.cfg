SPECIFICATION FairSpec
CONSTANTS
  r1 = r1
  r2 = r2
  s1 = s1
  s2 = s2
  NoRec = NoRec
  Records <- MCRecords
  SessionOf <- MCSessionOf
  FrameSize <- MCFrameSize
  MaxBatch = 1
  MaxRecords = 2
  MaxFaults = 3
  Faults <- AllFaults
PROPERTIES
  ReopenHeals
  RecoveryCompletes
