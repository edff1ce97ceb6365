SPECIFICATION Spec
CONSTANTS
  P99 <- MCP99
  Reports <- MCReports
  NoDecision = NoDecision
INVARIANTS
  MissingDataRequiresBudget
CHECK_DEADLOCK FALSE
