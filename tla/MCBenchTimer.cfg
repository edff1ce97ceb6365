SPECIFICATION Spec
CONSTANTS
  Batches = {0, 1, 2, 3}
  Iterations = {0, 1, 2}
  Warmups = {0, 1}
  CallTimes = {0, 1, 3}
  Resolution = 2
INVARIANTS
  StatsInOrder
  CallsAccountedFor
\* time_batches returns.
CHECK_DEADLOCK FALSE
