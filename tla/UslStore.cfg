SPECIFICATION Spec
CONSTANTS
  r1 = r1
  r2 = r2
  s1 = s1
  s2 = s2
  NoRec = NoRec
  Records <- MCRecords
  SessionOf <- MCSessionOf
  FrameSize <- MCFrameSize
  MaxBatch = 2
  MaxRecords = 3
  MaxFaults = 2
  Faults <- HandledFaults
INVARIANTS
  IInv
  CommittedReadable
  SeqDense
  SessionCountExact
PROPERTIES
  ImplementsLog
  AppendOnly
  NothingDurableLost
  NothingInvented
