CONSTANTS
  r1 = r1
  r2 = r2
  k1 = k1
  w1 = w1
  Runs = {w1}
  Requests = {r1, r2}
  Keys = {k1}
  DayInputs = {1, 2}
  Limit = 1
  MaxAttempts = 2
  Faults = {"unavailable", "functional", "refused", "lateError", "lost"}
  HcmChecksBalance = TRUE
  MaxCrashes = 2
  Imported <- TwoDays
SPECIFICATION CrashFairSpec
INVARIANTS
  NeverOverCredited
  SyncedMeansApplied
  ProcessedMeansSynced
PROPERTIES
  OutboxDrains
CHECK_DEADLOCK FALSE
