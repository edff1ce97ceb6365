SPECIFICATION Spec
CONSTANTS
  MaxRuns = 2
  MaxEdits = 2
  MaxCommits = 3
  BatchSince = 2
PROPERTIES
  PassedIsFresh
  PassedSamplesCoherent
  AbsenceIsEvidence
\* Nothing has to happen once the bounds are used up.
CHECK_DEADLOCK FALSE
