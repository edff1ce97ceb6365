SPECIFICATION AgreementSpec
CONSTANTS
  NumVectors = 2
  MaxU32 = 3
  MaxU64 = 5
  Directories <- MCDirectories
  Rewrites <- MCRewrites
  MaxEdits = 1
INVARIANT LaidOutAgree
PROPERTY PassedIsComplete
\* The script ends.
CHECK_DEADLOCK FALSE
