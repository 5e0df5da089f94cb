SPECIFICATION Spec
CONSTANTS
  Harnesses = {"claude", "codex", "pi", "dimagent"}
  Targets = {"pi", "codex", "dimagent"}
  MaxLog = 3
  MaxGrown = 2
  KeyModulus = 3
  Kinds = {"prompt", "text", "call", "same", "result", "results", "other", "note", "turn", "abort", "reasoning", "usage", "duplicate", "calls", "unnamed", "event", "uncalled", "answer", "answers", "quoted"}
  Header <- MCHeader
  NextRecords <- MCNextRecords
INVARIANTS
  PivotWellFormed
  ImportsTheConversation
  ToolsAnswered
  
  KeepsConversation
PROPERTIES
  VerifiedIffUnchanged
CHECK_DEADLOCK FALSE
