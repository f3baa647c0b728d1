CONSTANTS
  k1 = k1
  k2 = k2
  k3 = k3
  j1 = j1
  j2 = j2
  Keys = {k1, k2, k3}
  Jobs = {j1, j2}
  MaxCrashes = 2
  Payloads <- ResumablePayloads
SPECIFICATION BatchFairSpec
INVARIANTS
  BatchTypeOK
  ProgressNotAhead
  CheckpointsAdvance
PROPERTIES
  RowsAccounted
  
CHECK_DEADLOCK FALSE
