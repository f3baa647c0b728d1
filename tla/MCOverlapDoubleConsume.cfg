CONSTANTS
  r1 = r1
  r2 = r2
  r3 = r3
  k1 = k1
  k2 = k2
  w1 = w1
  w2 = w2
  Runs = {w1, w2}
  Requests = {r1, r2}
  Keys = {k1}
  DayInputs = {1}
  Limit = 2
  MaxAttempts = 2
  Faults = {}
  HcmChecksBalance = TRUE
  Imported <- OneKey
SPECIFICATION Spec
INVARIANTS
  ExactlyOnceAtHcm
CHECK_DEADLOCK FALSE
