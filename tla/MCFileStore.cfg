SPECIFICATION StoreSpec
CONSTANTS
  p1 = p1
  p2 = p2
  p3 = p3
  Payloads <- MCPayloads
  Size <- MCSize
  Absent = Absent
  Torn = Torn
  NoUpdate = NoUpdate
  RenameMayFail = TRUE
INVARIANTS
  OnlyCompletePayloads
  SnapshotSurvives
PROPERTY
  ImplementsStore
