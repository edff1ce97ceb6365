SPECIFICATION Spec
CONSTANTS
  NumCases = 3
  CaseP99 <- MCCaseP99
  OtherP99 <- MCOtherP99
INVARIANTS
  TypeOK
  StatusIsEarned
  InvalidSummaryEncloses
  AcceptedReportAgrees
  ConclusionBacked
  FreshReports
PROPERTIES
  PathPublishesAtomically
\* The program and its gate end.
CHECK_DEADLOCK FALSE
