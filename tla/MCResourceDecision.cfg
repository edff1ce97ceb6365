SPECIFICATION Spec
CONSTANTS
  P99 <- MCP99
  Reports <- MCReports
  NoDecision = NoDecision
INVARIANTS
  TypeOK
  ExitTellsDecision
  WorseNeverFavoured
  SupportMeansCriteria
  TriggersNest
\* The script ends.
CHECK_DEADLOCK FALSE
