SPECIFICATION FairSpec
CONSTANTS
  Kinds = {"append", "scan", "flush", "bad", "oversize"}
  PipeCap = 2
  MaxRequests = 2
  MaxFaults = 2
INVARIANTS
  IInv
  AckedDurable
  ErrorsTellTheTruth
  ClosedMeansSettled
PROPERTIES
  SettlesOnce
  AnsweredWithoutTimers
CHECK_DEADLOCK FALSE
