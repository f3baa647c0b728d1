CONSTANTS
  r1 = r1
  r2 = r2
  k1 = k1
  k2 = k2
  u1 = u1
  u2 = u2
  u3 = u3
  u4 = u4
  u5 = u5
  Requests = {r1, r2}
  Keys = {k1, k2}
  DayInputs = {1, 2}
  Updates = {u1, u2, u3, u4, u5}
  MaxCrashes = 0
  Imported <- MCImported
  Payload <- MCPayload
SPECIFICATION RealtimeSpec
INVARIANTS
  RecordedMeansApplied
CHECK_DEADLOCK FALSE
