SPECIFICATION Spec
CONSTANTS
  NumVectors = 2
  k1 = k1
  k2 = k2
  k3 = k3
  Keys = {k1, k2, k3}
  Placeholder = Placeholder
  Txs = {"a"}
  Payment = Payment
  Absent = Absent
  Control <- MCControl
  Defects = {"leaf_version"}
  Drafts <- MCDrafts
  Cut = Cut
  MaxEdits = 2
INVARIANTS
  TypeOK
  SignedVectorsShow
  ExitZeroHolds
  OneKey
PROPERTIES
  NeverSpoils
  RunsEnd
