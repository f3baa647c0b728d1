CONSTANTS
  r1 = r1
  r2 = r2
  k1 = k1
  w1 = w1
  c1 = c1
  u1 = u1
  j1 = j1
  Requests = {r1, r2}
  Keys = {k1}
  DayInputs = {2}
  Imported <- ThreeDays
  Runs = {w1}
  Limit = 1
  MaxAttempts = 1
  Faults = {}
  HcmChecksBalance = TRUE
  MaxCrashes = 0
  Reconcilers = {c1}
  AdjustedDays = {}
  MaxAdjustments = 0
  Updates = {}
  Payload <- NoUpdate
  Jobs = {}
  Snapshots = {}
SPECIFICATION SystemSpec
INVARIANTS
  DriftAlwaysFlagged
CHECK_DEADLOCK FALSE
