SPECIFICATION Spec
CONSTANTS
  s1 = s1
  s2 = s2
  a1 = a1
  a2 = a2
  b = b
  Gone = Gone
  Lines <- MCLines
  Identity <- MCIdentity
  Sources <- TwoSources
  LinesAt <- TwoLinesAt
  AppendCapable = {s1}
  MaxHot = 1
  MaxLines = 2
  MaxChanges = 2
  MaxFaults = 2
  Ops = {"rewrite", "delete", "disable"}
  Faults = {"append", "flush", "project", "kill", "torn"}
INVARIANTS
  SidecarExact
  IInv
  NoDuplicatesUnlessFlushFails
  SearchSurvives
CHECK_DEADLOCK FALSE
