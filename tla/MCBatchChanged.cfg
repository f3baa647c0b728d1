CONSTANTS
  k1 = k1
  k2 = k2
  k3 = k3
  j1 = j1
  j2 = j2
  Keys = {k1, k2, k3}
  Jobs = {j1}
  MaxCrashes = 1
  Payloads <- ChangedPayloads
SPECIFICATION BatchFairSpec
PROPERTIES
  CorpusCovered
CHECK_DEADLOCK FALSE
