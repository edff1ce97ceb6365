SPECIFICATION Spec
CONSTANTS
  Calls <- MCCalls
  Keys = {"k", "l"}
  Providers = {"sound", "accepts_all", "rejects_all", "long_key", "long_signature"}
  Available = {TRUE, FALSE}
INVARIANTS
  ReportsOfItsMode
  AnswerHolds
\* The program ends.
CHECK_DEADLOCK FALSE
