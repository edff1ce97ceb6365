SPECIFICATION Spec
CONSTANTS
  P99 <- MCP99
  Reports <- MCReports
  NoDecision = NoDecision
INVARIANTS
  TriggerRequiresBudget
CHECK_DEADLOCK FALSE
