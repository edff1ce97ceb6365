SPECIFICATION Spec
CONSTANTS
  k1 = k1
  k2 = k2
  n1 = n1
  n2 = n2
  Keys <- MCKeys
  Chunks <- MCChunks
  Spends <- MCSpends
  Stacks <- MCStacks
  VerifyKey = k1
  NoMessage = NoMessage
INVARIANTS
  TypeOK
  VerifierReachedIffStructural
  ControlReadsInBounds
  OutputBinding
  StagesAgree
PROPERTIES
  RuleSpec
  Returns
