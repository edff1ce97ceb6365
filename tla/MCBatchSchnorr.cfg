SPECIFICATION Spec
CONSTANTS
  m1 = m1
  Order = 5
  Messages <- MCMessages
  Challenge <- MCChallenge
  Batches <- MCBatches
  Capacities = {0, 1, 2, 4}
  SizeMax = 31
  ScratchBase = 10
  ScratchPerInput = 8
INVARIANTS
  TypeOK
  OneBadRejected
  NothingLeftOver
  NothingLeaks
PROPERTIES
  AllValidAccepted
  CallsReturn
\* The process may be aborted.
CHECK_DEADLOCK FALSE
