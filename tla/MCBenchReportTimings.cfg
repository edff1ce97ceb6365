SPECIFICATION Spec
CONSTANTS
  NumCases = 3
  CaseP99 <- MCCaseP99
  OtherP99 <- MCOtherP99
INVARIANTS
  BackendMatchesTimings
CHECK_DEADLOCK FALSE
