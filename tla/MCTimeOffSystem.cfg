CONSTANTS
  r1 = r1
  r2 = r2
  k1 = k1
  w1 = w1
  c1 = c1
  u1 = u1
  j1 = j1
  Requests = {r1}
  Keys = {k1}
  DayInputs = {2}
  Imported <- ThreeDays
  Runs = {w1}
  Limit = 1
  MaxAttempts = 1
  Faults = {}
  HcmChecksBalance = TRUE
  MaxCrashes = 1
  Reconcilers = {c1}
  AdjustedDays = {1, 4}
  MaxAdjustments = 1
  Updates = {u1}
  Payload <- LateUpdate
  Jobs = {j1}
  Snapshots <- LateSnapshot
SPECIFICATION SystemSpec
INVARIANTS
  SystemTypeOK
  DriftExplained
PROPERTIES
  Healed
CHECK_DEADLOCK FALSE
