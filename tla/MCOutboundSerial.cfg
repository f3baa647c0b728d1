CONSTANTS
  r1 = r1
  r2 = r2
  r3 = r3
  k1 = k1
  k2 = k2
  w1 = w1
  w2 = w2
  Runs = {w1}
  Requests = {r1, r2, r3}
  Keys = {k1, k2}
  DayInputs = {0, 1, 2}
  Limit = 2
  MaxAttempts = 3
  Faults = {"unavailable", "functional", "refused"}
  HcmChecksBalance = FALSE
  Imported <- MCImported
SPECIFICATION Spec
SYMMETRY MCSymmetry
INVARIANTS
  ApprovalAtomic
  OutboxMatchesRequest
  ExactlyOnceAtHcm
  HcmAgreement
  Conservation
  AttemptsBounded
PROPERTIES
  VersionFence
  PolicyRespected
  ImplementsReservation
CHECK_DEADLOCK FALSE
