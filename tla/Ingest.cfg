SPECIFICATION FairSpec
CONSTANTS
  s1 = s1
  s2 = s2
  a1 = a1
  a2 = a2
  b = b
  Gone = Gone
  Lines <- MCLines
  Identity <- MCIdentity
  Sources <- TwoSources
  LinesAt <- TwoLinesAt
  AppendCapable = {s1}
  MaxHot = 1
  MaxLines = 1
  MaxChanges = 4
  MaxFaults = 1
  Ops = {"delete"}
  Faults = {"project"}
INVARIANTS
  SearchSurvives
PROPERTIES
  EventuallyConsistent
CHECK_DEADLOCK FALSE
