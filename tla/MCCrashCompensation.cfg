CONSTANTS
  r1 = r1
  r2 = r2
  k1 = k1
  w1 = w1
  Runs = {w1}
  Requests = {r1, r2}
  Keys = {k1}
  DayInputs = {1, 2}
  Limit = 2
  MaxAttempts = 2
  Faults = {"functional"}
  HcmChecksBalance = TRUE
  MaxCrashes = 1
  Imported <- TwoDays
SPECIFICATION CrashSpec
INVARIANTS
  FailureCompensated
CHECK_DEADLOCK FALSE
